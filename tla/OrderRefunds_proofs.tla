------------------------ MODULE OrderRefunds_proofs ------------------------
(***************************************************************************)
(* Proofs about OrderRefunds: whatever number of payments and of refunds   *)
(* under way, no source gives back more than it gave, the lines and the    *)
(* sources agree on what is left, batches are conserved part by part, and  *)
(* the payment status says what came back.                                 *)
(*                                                                         *)
(* The argument is about kinds of money.  A refund returns amounts of      *)
(* several kinds: principal and gift of each batch, and money of the       *)
(* channel.  For each payment and kind, what refunds ask back stays within *)
(* what the payment gave (ReturnsFit); the division of a refund over the   *)
(* sources keeps this because allocateCents is exact and never exceeds a   *)
(* weight (CentsAreAllocatedExactly).                                      *)
(*                                                                         *)
(* The last section proves that all of it implements AbstractWallet.       *)
(***************************************************************************)
EXTENDS OrderRefunds, WalletStore_proofs

(***************************************************************************)
(* The sources of an order's money.                                        *)
(***************************************************************************)
Channel == <<Max(Batches) + 1, 1>>
Kinds   == (Batches \X {1, 2}) \cup {Channel}
PartNo(i) == IF i = 1 THEN "principal" ELSE "gift"

LEMMA LargestOf ==
  ASSUME NEW D, IsFiniteSet(D), D \subseteq Nat, D # {}
  PROVE  \E m \in D : \A n \in D : n <= m
<1> DEFINE P == {T \in SUBSET D : T # {} => \E m \in T : \A n \in T : n <= m}
<1>1. {} \in P
  OBVIOUS
<1>2. ASSUME NEW T \in SUBSET D, T \in P, NEW x \in D \ T PROVE T \cup {x} \in P
  <2>1. x \in Nat /\ T \subseteq Nat
    OBVIOUS
  <2>2. CASE T = {}
    BY <2>1, <2>2
  <2>3. CASE T # {}
    <3>1. PICK m \in T : \A n \in T : n <= m
      BY <1>2, <2>3
    <3>2. CASE x <= m
      BY <2>1, <3>1, <3>2
    <3>3. CASE ~(x <= m)
      <4>1. \A n \in T \cup {x} : n <= x
        BY <2>1, <3>1, <3>3
      <4> QED
        BY <4>1
    <3> QED
      BY <3>2, <3>3
  <2> QED
    BY <2>2, <2>3
<1> HIDE DEF P
<1>3. D \in P
  BY <1>1, <1>2, SubsetInduction
<1> QED
  BY <1>3 DEF P

LEMMA LargestBatch ==
  /\ Max(Batches) \in Batches /\ Max(Batches) \in Nat
  /\ Max(Batches) + 1 \notin Batches
<1>1. Batches # {} /\ Batches \subseteq Nat /\ IsFiniteSet(Batches)
  BY WalletAssumption, RefundsAssumption
<1>2. PICK m \in Batches : \A n \in Batches : n <= m
  BY <1>1, LargestOf
<1>3. \A n \in Batches : m >= n
  BY <1>1, <1>2
<1>4. Max(Batches) \in Batches /\ \A n \in Batches : Max(Batches) >= n
  BY <1>2, <1>3 DEF Max
<1>5. Max(Batches) \in Nat
  BY <1>1, <1>4
<1>6. ASSUME Max(Batches) + 1 \in Batches PROVE FALSE
  <2>1. Max(Batches) >= Max(Batches) + 1
    BY <1>4, <1>6
  <2> QED
    BY <1>5, <2>1
<1> QED
  BY <1>4, <1>5, <1>6

LEMMA SourceFacts ==
  /\ Sources = Payments \X Kinds
  /\ IsFiniteSet(Kinds) /\ IsFiniteSet(Sources) /\ IsFiniteSet(Payments)
  /\ Channel \in Kinds /\ Channel[1] \notin Batches
  /\ \A k \in Kinds : /\ k \in Nat \X Nat
                      /\ k # Channel => k[1] \in Batches /\ k[2] \in {1, 2} /\ k = <<k[1], k[2]>>
                      /\ k[1] \notin Batches => k = Channel
  /\ \A b \in Batches, i \in {1, 2} : <<b, i>> \in Kinds /\ <<b, i>> # Channel
<1>1. Sources = Payments \X Kinds
  BY DEF Sources, Kinds, Channel
<1>2. IsFiniteSet(Payments) /\ IsFiniteSet(Batches) /\ Batches \subseteq Nat
  BY WalletAssumption
<1>3. IsFiniteSet({1, 2})
  <2>1. IsFiniteSet({1}) /\ {1} \cup {2} = {1, 2}
    BY FS_Singleton
  <2>2. IsFiniteSet({1} \cup {2})
    BY <2>1, FS_AddElement
  <2> QED
    BY <2>1, <2>2
<1>4. IsFiniteSet(Kinds)
  BY <1>2, <1>3, FS_Product, FS_AddElement DEF Kinds
<1>5. IsFiniteSet(Sources)
  BY <1>1, <1>2, <1>4, FS_Product
<1>6. Channel \in Kinds /\ Channel[1] \notin Batches /\ Channel \in Nat \X Nat
  BY LargestBatch DEF Channel, Kinds
<1>7. ASSUME NEW k \in Batches \X {1, 2}
      PROVE  k \in Nat \X Nat /\ k # Channel /\ k[1] \in Batches /\ k[2] \in {1, 2} /\ k = <<k[1], k[2]>>
  <2>1. PICK b \in Batches, i \in {1, 2} : k = <<b, i>>
    OBVIOUS
  <2>2. k[1] = b /\ k[2] = i /\ b \in Nat /\ i \in Nat
    BY <1>2, <2>1
  <2>3. k # Channel
    BY <1>6, <2>2
  <2> QED
    BY <2>1, <2>2, <2>3
<1>8. \A k \in Kinds : k = Channel \/ k \in Batches \X {1, 2}
  BY DEF Kinds
<1>9. \A b \in Batches, i \in {1, 2} : <<b, i>> \in Kinds /\ <<b, i>> # Channel
  BY <1>6 DEF Kinds
<1> QED
  BY <1>1, <1>2, <1>4, <1>5, <1>6, <1>7, <1>8, <1>9

(***************************************************************************)
(* The sources in their order.                                             *)
(***************************************************************************)
Preceding == [s \in Sources |-> {t \in Sources : Before(t, s)}]

LEMMA SourcesAreOrdered == IsOrder(Sources, Preceding)
<1>1. \A s \in Sources :
        /\ s[1] \in Nat /\ s[2][1] \in Nat /\ s[2][2] \in Nat
        /\ s = <<s[1], <<s[2][1], s[2][2]>>>>
  <2>1. SUFFICES ASSUME NEW s \in Sources
                 PROVE  /\ s[1] \in Nat /\ s[2][1] \in Nat /\ s[2][2] \in Nat
                        /\ s = <<s[1], <<s[2][1], s[2][2]>>>>
    OBVIOUS
  <2>2. PICK p \in Payments, k \in Kinds : s = <<p, k>>
    BY SourceFacts
  <2>3. k \in Nat \X Nat /\ p \in Nat
    BY SourceFacts, RefundsAssumption
  <2>4. PICK i \in Nat, j \in Nat : k = <<i, j>>
    BY <2>3
  <2> QED
    BY <2>2, <2>3, <2>4
<1>2. Preceding \in [Sources -> SUBSET Sources]
  BY DEF Preceding
<1>3. \A s, t \in Sources : s \in Preceding[t] <=> Before(s, t)
  BY DEF Preceding
<1>4. \A s \in Sources : ~Before(s, s)
  BY <1>1 DEF Before
<1>5. \A s, t, u \in Sources : Before(s, t) /\ Before(t, u) => Before(s, u)
  <2>1. SUFFICES ASSUME NEW s \in Sources, NEW t \in Sources, NEW u \in Sources,
                        Before(s, t), Before(t, u)
                 PROVE  Before(s, u)
    OBVIOUS
  <2>2. /\ s[1] \in Nat /\ s[2][1] \in Nat /\ s[2][2] \in Nat
        /\ t[1] \in Nat /\ t[2][1] \in Nat /\ t[2][2] \in Nat
        /\ u[1] \in Nat /\ u[2][1] \in Nat /\ u[2][2] \in Nat
    BY <1>1
  <2> QED
    BY <2>1, <2>2 DEF Before
<1>6. \A s, t \in Sources : s = t \/ Before(s, t) \/ Before(t, s)
  <2>1. SUFFICES ASSUME NEW s \in Sources, NEW t \in Sources, ~Before(s, t), ~Before(t, s)
                 PROVE  s = t
    OBVIOUS
  <2>2. /\ s[1] \in Nat /\ s[2][1] \in Nat /\ s[2][2] \in Nat
        /\ t[1] \in Nat /\ t[2][1] \in Nat /\ t[2][2] \in Nat
    BY <1>1
  <2>3. s[1] = t[1] /\ s[2][1] = t[2][1] /\ s[2][2] = t[2][2]
    BY <2>1, <2>2 DEF Before
  <2> QED
    BY <1>1, <2>3
<1> QED
  BY <1>2, <1>3, <1>4, <1>5, <1>6 DEF IsOrder

\* Place numbers the sources from 1, and InOrder lists them so.
LEMMA SourcesInOrder ==
  /\ DOMAIN InOrder = 1 .. Cardinality(Sources) /\ Cardinality(Sources) \in Nat
  /\ \A s \in Sources : Place[s] \in DOMAIN InOrder /\ InOrder[Place[s]] = s
  /\ \A i \in DOMAIN InOrder : InOrder[i] \in Sources /\ Place[InOrder[i]] = i
<1> DEFINE n == Cardinality(Sources)
           rank == [s \in Sources |-> Cardinality(Preceding[s])]
<1>1. IsFiniteSet(Sources) /\ n \in Nat
  BY SourceFacts, FS_CardinalityType
<1>2. rank \in Bijection(Sources, 0 .. n - 1)
  BY <1>1, SourcesAreOrdered, RanksNumber
<1>3. \A s \in Sources : Place[s] = rank[s] + 1
  BY DEF Place, Preceding
<1> HIDE DEF rank, n
<1>4. /\ \A s \in Sources : rank[s] \in 0 .. n - 1
      /\ \A s, t \in Sources : rank[s] = rank[t] => s = t
      /\ \A i \in 0 .. n - 1 : \E s \in Sources : rank[s] = i
  BY <1>2 DEF Bijection, Injection, Surjection, IsInjective
<1>5. \A s \in Sources : Place[s] \in 1 .. n
  BY <1>1, <1>3, <1>4
<1>6. \A s, t \in Sources : Place[s] = Place[t] => s = t
  <2>1. SUFFICES ASSUME NEW s \in Sources, NEW t \in Sources, Place[s] = Place[t] PROVE s = t
    OBVIOUS
  <2>2. rank[s] + 1 = rank[t] + 1 /\ rank[s] \in Nat /\ rank[t] \in Nat
    BY <1>1, <1>3, <1>4, <2>1
  <2> QED
    BY <1>4, <2>2
<1>7. \A i \in 1 .. n : \E s \in Sources : Place[s] = i
  <2>1. SUFFICES ASSUME NEW i \in 1 .. n PROVE \E s \in Sources : Place[s] = i
    OBVIOUS
  <2>2. i - 1 \in 0 .. n - 1 /\ (i - 1) + 1 = i
    BY <1>1
  <2>3. PICK s \in Sources : rank[s] = i - 1
    BY <1>4, <2>2
  <2> QED
    BY <1>3, <2>2, <2>3
<1>8. DOMAIN InOrder = 1 .. n
  BY DEF InOrder, n
<1>9. \A i \in 1 .. n : InOrder[i] \in Sources /\ Place[InOrder[i]] = i
  BY <1>7 DEF InOrder, n
<1> QED
  BY <1>1, <1>5, <1>6, <1>8, <1>9 DEF n

(***************************************************************************)
(* The division of a refund over the sources.                              *)
(***************************************************************************)
LeftOfAll == SumOf([s \in Sources |-> Left(s)])

\* Portions: together the total, and of no source more than is left of it.
LEMMA PortionsFit ==
  ASSUME \A s \in Sources : Left(s) \in Nat,
         NEW total \in Nat, total <= LeftOfAll
  PROVE  LET x == Portions(total) IN
         /\ x \in [Sources -> Nat] /\ SumOf(x) = total
         /\ \A s \in Sources : x[s] <= Left(s)
<1> DEFINE D == DOMAIN InOrder
           w == [i \in D |-> Left(InOrder[i])]
           L == [s \in Sources |-> Left(s)]
           shares == AllocateCents(total, w)
           x == Portions(total)
<1>1. /\ D = 1 .. Cardinality(Sources) /\ Cardinality(Sources) \in Nat
      /\ \A s \in Sources : Place[s] \in D /\ InOrder[Place[s]] = s
      /\ \A i \in D : InOrder[i] \in Sources /\ Place[InOrder[i]] = i
  BY SourcesInOrder
<1>2. IsFiniteSet(D) /\ IsFiniteSet(Sources) /\ D \subseteq Int
  <2>1. IsFiniteSet(1 .. Cardinality(Sources)) /\ 1 .. Cardinality(Sources) \subseteq Int
    BY <1>1, FS_Interval
  <2> QED
    BY <1>1, <2>1, SourceFacts
<1>3. InOrder \in [D -> Sources]
  <2>1. InOrder = [i \in D |-> InOrder[i]]
    BY DEF InOrder
  <2> QED
    BY <1>1, <2>1
<1>4. x = [s \in Sources |-> shares[Place[s]]]
  BY DEF Portions
<1>5. DOMAIN w = D /\ DOMAIN L = Sources /\ LeftOfAll = SumOf(L)
  BY DEF LeftOfAll
<1>6. \A i \in D : w[i] = L[InOrder[i]] /\ w[i] \in Nat
  BY <1>1
<1>7. \A s \in Sources : L[s] = Left(s) /\ L[s] \in Nat
  OBVIOUS
<1> HIDE DEF D, w, L, x
<1>8. IsAmounts(w) /\ IsAmounts(L) /\ IsWeights(w)
  <2>1. IsAmounts(w)
    <3>1. \A i \in DOMAIN w : w[i] \in Int
      BY <1>5, <1>6
    <3> QED
      BY <1>2, <1>5, <3>1 DEF IsAmounts
  <2>2. IsAmounts(L)
    BY <1>2, <1>5, <1>7 DEF IsAmounts
  <2>3. IsWeights(w)
    BY <1>2, <1>5, <1>6 DEF IsWeights
  <2> QED
    BY <2>1, <2>2, <2>3
<1>9. /\ \A i, j \in D : InOrder[i] = InOrder[j] => i = j
      /\ \A s \in Sources : \E i \in D : InOrder[i] = s
  BY <1>1
<1>10. SumOf(w) = SumOf(L)
  BY <1>3, <1>5, <1>6, <1>8, <1>9, SumOfRenamed
<1>11. SumOf(w) \in Nat /\ total <= SumOf(w)
  BY <1>5, <1>6, <1>8, <1>10, SumOfType
<1>12. /\ shares \in [D -> Nat] /\ SumOf(shares) = total
       /\ \A i \in D : shares[i] <= w[i]
  <2>1. CASE SumOf(w) = 0
    <3>1. shares = [i \in D |-> 0] /\ total = 0
      BY <1>5, <1>11, <2>1, NothingIsAllocated
    <3> HIDE DEF shares
    <3>2. IsAmounts(shares) /\ DOMAIN shares = D /\ \A i \in D : shares[i] = 0
      BY <1>2, <3>1 DEF IsAmounts
    <3>3. SumOf(shares) = 0
      BY <3>2, SumOfType
    <3> QED
      BY <1>6, <3>1, <3>2, <3>3
  <2>2. CASE SumOf(w) # 0
    <3>1. SumOf(w) > 0
      BY <1>11, <2>2
    <3>2. IsExactDivision(shares, total, w)
      BY <1>8, <3>1, CentsAreAllocatedExactly
    <3> HIDE DEF shares
    <3> QED
      BY <1>5, <1>11, <3>2 DEF IsExactDivision
  <2> QED
    BY <2>1, <2>2
<1> HIDE DEF shares
<1>13. /\ x \in [Sources -> Nat] /\ \A s \in Sources : x[s] = shares[Place[s]]
  BY <1>1, <1>4, <1>12
<1>14. ASSUME NEW s \in Sources PROVE x[s] <= Left(s)
  <2>1. x[s] = shares[Place[s]] /\ shares[Place[s]] <= w[Place[s]]
    BY <1>1, <1>12, <1>13
  <2>2. w[Place[s]] = L[s] /\ L[s] = Left(s)
    BY <1>1, <1>6, <1>7
  <2> QED
    BY <2>1, <2>2
<1>15. SumOf(x) = total
  <2>1. IsAmounts(x) /\ IsAmounts(shares) /\ DOMAIN shares = D /\ DOMAIN x = Sources
    BY <1>2, <1>12, <1>13 DEF IsAmounts
  <2>2. \A i \in D : shares[i] = x[InOrder[i]]
    BY <1>1, <1>13
  <2>3. SumOf(shares) = SumOf(x)
    BY <1>3, <1>9, <2>1, <2>2, SumOfRenamed
  <2> QED
    BY <1>12, <2>3
<1> QED
  BY <1>13, <1>14, <1>15 DEF x

(***************************************************************************)
(* What refunds ask back, by kind of money.                                *)
(***************************************************************************)
Got(row, k) == IF k[1] \notin Batches THEN row.external ELSE row.portions[k[1]][PartNo(k[2])]

BackTo(rows, R, k) == SumOf([r \in R |-> Got(rows[r], k)])

\* What payment p gave of a kind.
Gave(p, k) ==
  IF k[1] \notin Batches THEN payments[p].external
  ELSE IF payments[p].wallet = 0 THEN 0
  ELSE allocations[p].portions[k[1]][PartNo(k[2])]

LEMMA GotType ==
  ASSUME NEW row \in Refund, NEW k \in Kinds
  PROVE  Got(row, k) \in Nat
<1>1. CASE k[1] \notin Batches
  BY <1>1 DEF Got, Refund
<1>2. CASE k[1] \in Batches
  <2>1. row.portions[k[1]] \in Portion /\ PartNo(k[2]) \in Parts
    BY <1>2 DEF Refund, PartNo, Parts
  <2>2. row.portions[k[1]][PartNo(k[2])] \in Nat
    BY <2>1, PortionType
  <2> QED
    BY <1>2, <2>2 DEF Got
<1> QED
  BY <1>1, <1>2

LEMMA BackType ==
  ASSUME NEW rows, NEW R, IsFiniteSet(R), NEW k \in Kinds, \A r \in R : rows[r] \in Refund
  PROVE  /\ BackTo(rows, R, k) \in Nat
         /\ IsAmounts([r \in R |-> Got(rows[r], k)])
<1> DEFINE f == [r \in R |-> Got(rows[r], k)]
<1>1. DOMAIN f = R /\ \A r \in R : f[r] \in Nat
  BY GotType
<1>2. BackTo(rows, R, k) = SumOf(f)
  BY DEF BackTo
<1> HIDE DEF f
<1>3. IsAmounts(f) /\ \A r \in DOMAIN f : f[r] >= 0
  BY <1>1 DEF IsAmounts
<1> QED
  BY <1>2, <1>3, SumOfType DEF f

LEMMA BackSame ==
  ASSUME NEW rows, NEW more, NEW R, NEW k, \A r \in R : Got(more[r], k) = Got(rows[r], k)
  PROVE  BackTo(more, R, k) = BackTo(rows, R, k)
<1>1. [r \in R |-> Got(more[r], k)] = [r \in R |-> Got(rows[r], k)]
  OBVIOUS
<1> QED
  BY <1>1 DEF BackTo

LEMMA BackMore ==
  ASSUME NEW rows, NEW R, IsFiniteSet(R), NEW k \in Kinds, \A r \in R : rows[r] \in Refund,
         NEW r \in R
  PROVE  BackTo(rows, R, k) = Got(rows[r], k) + BackTo(rows, R \ {r}, k)
<1> DEFINE g == [q \in R |-> Got(rows[q], k)]
           f == [q \in R \ {r} |-> Got(rows[q], k)]
<1>1. IsFiniteSet(R \ {r})
  BY FS_Subset
<1>2. IsAmounts(f) /\ IsAmounts(g)
  BY <1>1, BackType
<1>3. /\ DOMAIN g = R /\ DOMAIN f = R \ {r} /\ g[r] = Got(rows[r], k)
      /\ \A q \in R \ {r} : f[q] = g[q]
  OBVIOUS
<1>4. BackTo(rows, R, k) = SumOf(g) /\ BackTo(rows, R \ {r}, k) = SumOf(f)
  BY DEF BackTo
<1> HIDE DEF f, g
<1>5. SumOf(g) = g[r] + SumOf(f)
  BY <1>2, <1>3, SumOfMore
<1> QED
  BY <1>3, <1>4, <1>5

LEMMA BackUnion ==
  ASSUME NEW rows, NEW R, IsFiniteSet(R), NEW Q, IsFiniteSet(Q), R \cap Q = {}, NEW k \in Kinds,
         \A r \in R \cup Q : rows[r] \in Refund
  PROVE  BackTo(rows, R \cup Q, k) = BackTo(rows, R, k) + BackTo(rows, Q, k)
<1> DEFINE h == [r \in R \cup Q |-> Got(rows[r], k)]
           f == [r \in R |-> Got(rows[r], k)]
           g == [r \in Q |-> Got(rows[r], k)]
<1>1. IsFiniteSet(R \cup Q)
  BY FS_Union
<1>2. IsAmounts(h)
  BY <1>1, BackType
<1>3. IsAmounts(f) /\ IsAmounts(g)
  BY BackType
<1>4. /\ DOMAIN h = R \cup Q /\ DOMAIN f = R /\ DOMAIN g = Q
      /\ \A r \in R : f[r] = h[r]
      /\ \A r \in Q : g[r] = h[r]
  OBVIOUS
<1>5. BackTo(rows, R \cup Q, k) = SumOf(h) /\ BackTo(rows, R, k) = SumOf(f) /\ BackTo(rows, Q, k) = SumOf(g)
  BY DEF BackTo
<1> HIDE DEF f, g, h
<1>6. SumOver(h, R \cup Q) = SumOver(h, R) + SumOver(h, Q)
  BY <1>2, <1>4, SumUnion
<1>7. SumOver(f, R) = SumOver(h, R) /\ SumOver(g, Q) = SumOver(h, Q)
  BY <1>2, <1>3, <1>4, SumSame
<1> QED
  BY <1>4, <1>5, <1>6, <1>7, SumIsFold

(***************************************************************************)
(* The invariant.                                                          *)
(***************************************************************************)
\* A payment's row and its wallet allocation say the same.
PaidFromWallet ==
  \A p \in Payments :
    /\ allocations[p] # Nil <=> payments[p] # Nil /\ payments[p].wallet > 0
    /\ allocations[p] # Nil =>
         /\ allocations[p].status = "RESERVED" <=> payments[p].status = "PENDING"
         /\ allocations[p].status = "CONSUMED" <=> payments[p].status = "SUCCEEDED"
         /\ SumOf([b \in Batches |-> Cents(allocations[p].portions[b])]) = payments[p].wallet

\* Payments come one after the other: the initial payment, which is for the whole
\* order, then supplements; nothing is refunded before the first is captured.
InTurn ==
  /\ \A p, q \in Waiting : p = q
  /\ order.status = "HELD" => Captured = {}
  /\ order.status = "CONFIRMED" => Captured # {}
  /\ Captured = {} => caps = LineCents /\ \A g \in Groups : groups[g] = Nil
  /\ \A p \in Started : payments[p].line = Nil => Price(p) = SumOf(LineCents)
  /\ \A p \in Waiting : order.status = IF payments[p].line = Nil THEN "HELD" ELSE "CONFIRMED"

\* Of each kind of money refunds ask back no more than the payment gave.
ReturnsFit ==
  /\ \A l \in Lines : Remaining(l) >= 0
  /\ \A p \in Captured, k \in Kinds : BackTo(refunds, Of(p), k) <= Gave(p, k)

RemainingOfAll == SumOf([l \in Lines |-> Remaining(l)])

\* What is left of the lines is what is left of the sources.
LinesAndSourcesAgree == Captured # {} => RemainingOfAll = LeftOfAll

\* Batches are conserved, by kind of money.
KindsAreConserved ==
  \A b \in Credited, i \in {1, 2} :
    batches[b].granted[PartNo(i)] + BackTo(refunds, MadeIn("SUCCEEDED"), <<b, i>>)
      = batches[b].available[PartNo(i)] + Taken(b, PartNo(i))

PaidAsReturned == order.paid = PaidStatus(CapturedCents, ReturnedCents, ReturnedCents > 0)

RefundsInv ==
  /\ TypeOK
  /\ WalletInv
  /\ PaidFromWallet
  /\ InTurn
  /\ ReturnsFit
  /\ LinesAndSourcesAgree
  /\ KindsAreConserved
  /\ PaidAsReturned
  /\ NumbersBackOneRefund

(***************************************************************************)
(* What the types say.                                                     *)
(***************************************************************************)
LEMMA RefundRows ==
  ASSUME TypeOK
  PROVE  /\ IsFiniteSet(RefundIds) /\ Made \subseteq RefundIds /\ IsFiniteSet(Made)
         /\ \A s : MadeIn(s) \subseteq Made /\ IsFiniteSet(MadeIn(s))
         /\ \A p : Of(p) \subseteq Made /\ IsFiniteSet(Of(p))
         /\ \A r \in Made :
              /\ refunds[r] \in Refund /\ refunds[r] # Nil
              /\ r = <<r[1], r[2]>> /\ r[1] \in Groups /\ groups[r[1]] # Nil
              /\ r[2] \in Captured
<1>1. IsFiniteSet(RefundIds)
  BY RefundsAssumption, WalletAssumption, FS_Product DEF RefundIds
<1>2. Made \subseteq RefundIds /\ IsFiniteSet(Made)
  BY <1>1, FS_Subset DEF Made
<1>3. \A s : MadeIn(s) \in SUBSET Made /\ IsFiniteSet(MadeIn(s))
  BY <1>2, FS_Subset DEF MadeIn
<1>4. \A p : Of(p) \in SUBSET Made /\ IsFiniteSet(Of(p))
  BY <1>2, FS_Subset DEF Of
<1>5. ASSUME NEW r \in Made
      PROVE  /\ refunds[r] \in Refund /\ refunds[r] # Nil
             /\ r = <<r[1], r[2]>> /\ r[1] \in Groups /\ groups[r[1]] # Nil
             /\ r[2] \in Captured
  <2>1. r \in RefundIds /\ refunds[r] # Nil
    BY DEF Made
  <2>2. refunds[r] \in Refund
    BY <2>1 DEF TypeOK
  <2>3. r = <<r[1], r[2]>> /\ r[1] \in Groups /\ r[2] \in Payments
    BY <2>1 DEF RefundIds
  <2>4. groups[r[1]] # Nil /\ r[2] \in Captured
    BY DEF TypeOK
  <2> QED
    BY <2>1, <2>2, <2>3, <2>4
<1> QED
  BY <1>1, <1>2, <1>3, <1>4, <1>5

LEMMA PaymentRows ==
  ASSUME TypeOK
  PROVE  /\ IsFiniteSet(Captured) /\ Captured \subseteq Started /\ Started \subseteq Payments
         /\ Waiting \subseteq Started /\ Captured \cap Waiting = {}
         /\ \A p \in Started :
              /\ payments[p] \in Payment /\ payments[p] # Nil
              /\ payments[p].wallet \in Nat /\ payments[p].external \in Nat
              /\ payments[p].line \in Lines \cup {Nil} /\ Price(p) \in Nat
<1>1. Captured \in SUBSET Payments /\ Started \in SUBSET Payments /\ Captured \subseteq Started
  BY DEF Captured, Started
<1>2. IsFiniteSet(Captured)
  BY <1>1, WalletAssumption, FS_Subset
<1>3. Waiting \subseteq Started /\ Captured \cap Waiting = {}
  BY DEF Captured, Waiting, Started
<1>4. ASSUME NEW p \in Started
      PROVE  /\ payments[p] \in Payment /\ payments[p] # Nil
             /\ payments[p].wallet \in Nat /\ payments[p].external \in Nat
             /\ payments[p].line \in Lines \cup {Nil} /\ Price(p) \in Nat
  <2>1. payments[p] \in Payment /\ payments[p] # Nil
    BY DEF TypeOK, Started
  <2>2. /\ payments[p].wallet \in Nat /\ payments[p].external \in Nat
        /\ payments[p].line \in Lines \cup {Nil}
    BY <2>1 DEF Payment
  <2> QED
    BY <2>1, <2>2 DEF Price
<1> QED
  BY <1>1, <1>2, <1>3, <1>4

LEMMA GaveType ==
  ASSUME TypeOK, PaidFromWallet, NEW p \in Captured, NEW k \in Kinds
  PROVE  Gave(p, k) \in Nat
<1>1. /\ p \in Payments /\ payments[p] # Nil
      /\ payments[p].wallet \in Nat /\ payments[p].external \in Nat
  BY PaymentRows
<1>2. CASE k[1] \notin Batches \/ payments[p].wallet = 0
  BY <1>1, <1>2 DEF Gave
<1>3. CASE ~(k[1] \notin Batches \/ payments[p].wallet = 0)
  <2>1. allocations[p] # Nil
    <3>1. payments[p].wallet > 0
      BY <1>1, <1>3
    <3>2. payments[p] # Nil /\ payments[p].wallet > 0 => allocations[p] # Nil
      BY <1>1 DEF PaidFromWallet
    <3> QED
      BY <1>1, <3>1, <3>2
  <2>2. PartNo(k[2]) \in Parts
    BY DEF PartNo, Parts
  <2>3. allocations[p].portions[k[1]][PartNo(k[2])] \in Nat
    BY <1>1, <1>3, <2>1, <2>2, AllocationRows DEF TypeOK
  <2> QED
    BY <1>3, <2>3 DEF Gave
<1> QED
  BY <1>2, <1>3

\* Left, by payment and kind.
LeftBy(p, k) == IF p \in Captured THEN Gave(p, k) - BackTo(refunds, Of(p), k) ELSE 0

LEMMA LeftIsLeftBy ==
  ASSUME TypeOK, PaidFromWallet, ReturnsFit, NEW p \in Payments, NEW k \in Kinds
  PROVE  Left(<<p, k>>) = LeftBy(p, k) /\ LeftBy(p, k) \in Nat
<1> DEFINE s == <<p, k>>
<1>1. s[1] = p /\ s[2] = k
  OBVIOUS
<1> HIDE DEF s
<1>2. /\ IsChannel(s) <=> k[1] \notin Batches
      /\ PartOf(s) = PartNo(k[2])
  BY <1>1 DEF IsChannel, PartOf, PartNo
<1>3. CASE p \notin Captured
  BY <1>1, <1>3 DEF Left, LeftBy
<1>4. CASE p \in Captured
  <2>1. /\ Gave(p, k) \in Nat /\ BackTo(refunds, Of(p), k) \in Nat
        /\ BackTo(refunds, Of(p), k) <= Gave(p, k)
    <3>1. BackTo(refunds, Of(p), k) <= Gave(p, k)
      BY <1>4 DEF ReturnsFit
    <3>2. IsFiniteSet(Of(p)) /\ \A r \in Of(p) : refunds[r] \in Refund
      BY RefundRows
    <3>3. BackTo(refunds, Of(p), k) \in Nat
      BY <3>2, BackType
    <3> QED
      BY <1>4, <3>1, <3>3, GaveType
  <2>2. CASE k[1] \notin Batches
    <3>1. BackTo(refunds, Of(p), k) = SumOf([r \in Of(p) |-> refunds[r].external])
      BY <2>2 DEF BackTo, Got
    <3>2. Left(s) = payments[p].external - SumOf([r \in Of(p) |-> refunds[r].external])
      BY <1>1, <1>2, <1>4, <2>2 DEF Left
    <3> QED
      BY <1>4, <2>1, <2>2, <3>1, <3>2 DEF LeftBy, Gave, s
  <2>3. CASE k[1] \in Batches /\ payments[p].wallet = 0
    <3>1. Left(s) = 0
      BY <1>1, <1>2, <1>4, <2>3 DEF Left
    <3>2. Gave(p, k) = 0
      BY <2>3 DEF Gave
    <3> QED
      BY <1>4, <2>1, <3>1, <3>2 DEF LeftBy, s
  <2>4. CASE k[1] \in Batches /\ payments[p].wallet # 0
    <3>1. BackTo(refunds, Of(p), k) = SumOf([r \in Of(p) |-> refunds[r].portions[k[1]][PartNo(k[2])]])
      BY <2>4 DEF BackTo, Got
    <3>2. Left(s) = allocations[p].portions[k[1]][PartNo(k[2])]
                      - SumOf([r \in Of(p) |-> refunds[r].portions[k[1]][PartNo(k[2])]])
      BY <1>1, <1>2, <1>4, <2>4 DEF Left
    <3>3. Gave(p, k) = allocations[p].portions[k[1]][PartNo(k[2])]
      BY <2>4 DEF Gave
    <3>4. Left(s) = Gave(p, k) - BackTo(refunds, Of(p), k)
      BY <3>1, <3>2, <3>3
    <3>5. Left(s) = LeftBy(p, k) /\ LeftBy(p, k) \in Nat
      BY <1>4, <2>1, <3>4 DEF LeftBy
    <3> QED
      BY <3>5 DEF s
  <2> QED
    BY <2>2, <2>3, <2>4
<1> QED
  BY <1>3, <1>4 DEF s, LeftBy

(***************************************************************************)
(* What the invariant gives.                                               *)
(***************************************************************************)
LEMMA NothingTwice ==
  ASSUME RefundsInv
  PROVE  NothingIsReturnedTwice
<1>0. TypeOK /\ PaidFromWallet /\ ReturnsFit
  BY DEF RefundsInv
<1>1. \A l \in Lines : Remaining(l) >= 0
  BY <1>0 DEF ReturnsFit
<1>2. ASSUME NEW p \in Captured
      PROVE  SumOf([r \in Of(p) |-> refunds[r].external]) <= payments[p].external
  <2>1. BackTo(refunds, Of(p), Channel) <= Gave(p, Channel) /\ Channel[1] \notin Batches
    BY <1>0, SourceFacts DEF ReturnsFit
  <2> QED
    BY <2>1 DEF BackTo, Got, Gave
<1>3. ASSUME NEW p \in Captured, payments[p].wallet > 0,
             NEW b \in Batches, NEW part \in {"principal", "gift"}
      PROVE  SumOf([r \in Of(p) |-> refunds[r].portions[b][part]])
               <= allocations[p].portions[b][part]
  <2>1. PICK i \in {1, 2} : part = PartNo(i)
    BY DEF PartNo
  <2> DEFINE k == <<b, i>>
  <2>2. k \in Kinds /\ k[1] = b /\ k[2] = i
    BY SourceFacts
  <2> HIDE DEF k
  <2>3. BackTo(refunds, Of(p), k) <= Gave(p, k)
    BY <1>0, <2>2 DEF ReturnsFit
  <2>4. BackTo(refunds, Of(p), k) = SumOf([r \in Of(p) |-> refunds[r].portions[b][part]])
    BY <2>1, <2>2 DEF BackTo, Got
  <2>5. payments[p].wallet # 0
    BY <1>0, <1>3, PaymentRows
  <2>6. Gave(p, k) = allocations[p].portions[b][part]
    BY <2>1, <2>2, <2>5 DEF Gave
  <2> QED
    BY <2>3, <2>4, <2>6
<1> QED
  BY <1>1, <1>2, <1>3 DEF NothingIsReturnedTwice

LEMMA Conserved ==
  ASSUME RefundsInv
  PROVE  BatchesAreConserved
<1>0. KindsAreConserved
  BY DEF RefundsInv
<1>1. ASSUME NEW b \in Credited, NEW part \in {"principal", "gift"}
      PROVE  batches[b].granted[part]
               + SumOf([r \in MadeIn("SUCCEEDED") |-> refunds[r].portions[b][part]])
             = batches[b].available[part] + From(b, With("RESERVED") \cup With("CONSUMED"), part)
  <2>1. PICK i \in {1, 2} : part = PartNo(i)
    BY DEF PartNo
  <2>2. b \in Batches
    BY DEF Credited
  <2> DEFINE k == <<b, i>>
  <2>3. k[1] = b /\ k[2] = i
    OBVIOUS
  <2> HIDE DEF k
  <2>4. BackTo(refunds, MadeIn("SUCCEEDED"), k)
          = SumOf([r \in MadeIn("SUCCEEDED") |-> refunds[r].portions[b][part]])
    BY <2>1, <2>2, <2>3 DEF BackTo, Got
  <2>5. batches[b].granted[part] + BackTo(refunds, MadeIn("SUCCEEDED"), k)
          = batches[b].available[part] + Taken(b, part)
    BY <1>0, <2>1 DEF KindsAreConserved, k
  <2> QED
    BY <2>4, <2>5 DEF Taken, Holding
<1> QED
  BY <1>1 DEF BatchesAreConserved

LEMMA PaidMeansCaptured ==
  ASSUME TypeOK, PaidAsReturned, order.paid # "UNPAID"
  PROVE  Captured # {}
<1>1. SUFFICES ASSUME Captured = {} PROVE FALSE
  OBVIOUS
<1> DEFINE f == [p \in Captured |-> Price(p)]
<1>2. DOMAIN f = {} /\ CapturedCents = SumOf(f)
  BY <1>1 DEF CapturedCents
<1> HIDE DEF f
<1>3. IsAmounts(f)
  BY <1>2, FS_EmptySet DEF IsAmounts
<1>4. CapturedCents = 0
  BY <1>2, <1>3, SumOfType
<1> QED
  BY <1>4 DEF PaidAsReturned, PaidStatus

LEMMA Agree ==
  ASSUME RefundsInv
  PROVE  LinesAgreeWithSources
BY PaidMeansCaptured DEF RefundsInv, LinesAndSourcesAgree, LinesAgreeWithSources,
   RemainingOfAll, LeftOfAll

\* Of each kind, what refunds returned was spent.
LEMMA ReturnedWasSpent ==
  ASSUME TypeOK, PaidFromWallet, ReturnsFit, NEW b \in Batches, NEW i \in {1, 2}
  PROVE  BackTo(refunds, MadeIn("SUCCEEDED"), <<b, i>>) <= From(b, With("CONSUMED"), PartNo(i))
<1> DEFINE k == <<b, i>>
           part == PartNo(i)
           R == MadeIn("SUCCEEDED")
           P == With("CONSUMED")
           f == [r \in R |-> Got(refunds[r], k)]
           m == [r \in R |-> r[2]]
           g == [p \in Payments |-> BackTo(refunds, Of(p) \cap R, k)]
           h == [p \in Payments |-> IF p \in P THEN allocations[p].portions[b][part] ELSE 0]
           e == [p \in P |-> allocations[p].portions[b][part]]
<1>0. WalletTypeOK
  BY DEF TypeOK
<1>1. k \in Kinds /\ k[1] = b /\ k[2] = i /\ part \in Parts /\ IsFiniteSet(Payments)
  BY SourceFacts DEF PartNo, Parts
<1>2. /\ R \subseteq Made /\ IsFiniteSet(R)
      /\ \A r \in R : refunds[r] \in Refund /\ r[2] \in Captured /\ r[2] \in Payments
      /\ \A p : Of(p) \subseteq Made /\ IsFiniteSet(Of(p))
      /\ \A p : Of(p) = {r \in Made : r[2] = p}
  BY RefundRows, PaymentRows DEF Of
<1>3. P \subseteq Payments /\ IsFiniteSet(P) /\ \A p \in P : allocations[p] # Nil
  BY <1>0, AllocationRows DEF With
<1>4. \A p \in P : allocations[p].portions[b][part] \in Nat
  BY <1>0, <1>1, <1>3, AllocationRows
<1> HIDE DEF k, part
<1>5. \A p \in Payments : /\ IsFiniteSet(Of(p) \cap R)
                          /\ Of(p) \cap R = {r \in R : r[2] = p}
                          /\ \A r \in Of(p) \cap R : refunds[r] \in Refund
  <2>1. \A p \in Payments : Of(p) \cap R = {r \in R : r[2] = p}
    BY <1>2
  <2>2. \A p \in Payments : IsFiniteSet(Of(p) \cap R)
    BY <1>2, FS_Subset
  <2> QED
    BY <1>2, <2>1, <2>2
<1>6. IsAmounts(f) /\ DOMAIN f = R /\ BackTo(refunds, R, k) = SumOf(f)
  <2>1. IsAmounts(f)
    BY <1>1, <1>2, BackType
  <2> QED
    BY <2>1 DEF BackTo
<1>7. /\ DOMAIN g = Payments /\ \A p \in Payments : g[p] \in Nat
      /\ \A p \in Payments : g[p] = BackTo(refunds, Of(p) \cap R, k)
  BY <1>1, <1>5, BackType
<1>8. \A p \in Payments : g[p] = SumOver(f, {r \in R : r[2] = p})
  <2>1. SUFFICES ASSUME NEW p \in Payments PROVE g[p] = SumOver(f, {r \in R : r[2] = p})
    OBVIOUS
  <2> DEFINE Q == Of(p) \cap R
             q == [r \in Q |-> Got(refunds[r], k)]
  <2>2. IsAmounts(q)
    BY <1>1, <1>5, BackType
  <2>3. DOMAIN q = Q /\ Q \subseteq R /\ \A r \in Q : q[r] = f[r]
    OBVIOUS
  <2>4. g[p] = SumOf(q)
    BY <1>7 DEF BackTo
  <2> HIDE DEF q
  <2>5. SumOver(q, Q) = SumOver(f, Q)
    BY <1>6, <2>2, <2>3, SumSame
  <2>6. Q = {r \in R : r[2] = p}
    BY <1>5
  <2> QED
    BY <2>3, <2>4, <2>5, <2>6, SumIsFold
<1>9. m \in [R -> Payments] /\ \A r \in R : m[r] = r[2]
  BY <1>2
<1>10. /\ DOMAIN h = Payments /\ \A p \in P : h[p] = e[p] /\ h[p] = allocations[p].portions[b][part]
       /\ \A p \in Payments \ P : h[p] = 0
       /\ DOMAIN e = P /\ From(b, P, part) = SumOf(e)
  BY <1>3 DEF From
<1> HIDE DEF f, g, h, e, m
<1>11. IsAmounts(g)
  BY <1>1, <1>7 DEF IsAmounts
<1>12. \A p \in Payments : h[p] \in Nat
  BY <1>4, <1>10
<1>13. IsAmounts(h) /\ IsAmounts(e)
  <2>1. IsAmounts(h)
    BY <1>1, <1>10, <1>12 DEF IsAmounts
  <2>2. \A p \in P : e[p] \in Int
    BY <1>4, <1>10
  <2>3. IsAmounts(e)
    BY <1>3, <1>10, <2>2 DEF IsAmounts
  <2> QED
    BY <2>1, <2>3
<1>14. SumOf(h) = SumOf(e)
  BY <1>3, <1>10, <1>13, SumOfWider
<1>15. SumOf(f) = SumOf(g)
  <2>1. \A p \in Payments : {r \in R : r[2] = p} = {r \in DOMAIN f : m[r] = p}
    BY <1>6, <1>9
  <2>2. \A p \in DOMAIN g : g[p] = SumOver(f, {r \in DOMAIN f : m[r] = p})
    BY <1>7, <1>8, <2>1
  <2> QED
    BY <1>6, <1>7, <1>9, <1>11, <2>2, SumOfGroups
<1>16. ASSUME NEW p \in Payments PROVE g[p] <= h[p]
  <2>1. CASE p \in Captured
    <3>1. BackTo(refunds, Of(p), k) <= Gave(p, k)
      BY <1>1, <2>1 DEF ReturnsFit
    <3>2. BackTo(refunds, Of(p) \cap R, k) <= BackTo(refunds, Of(p), k)
      <4> DEFINE Q == Of(p) \cap R
                 O == Of(p) \ R
      <4>1. /\ Q \cup O = Of(p) /\ Q \cap O = {} /\ IsFiniteSet(Q) /\ IsFiniteSet(O)
            /\ \A r \in Q \cup O : refunds[r] \in Refund
        <5>1. IsFiniteSet(Of(p)) /\ \A r \in Of(p) : refunds[r] \in Refund
          BY RefundRows
        <5>2. Q \in SUBSET Of(p) /\ O \in SUBSET Of(p)
          OBVIOUS
        <5> QED
          BY <5>1, <5>2, FS_Subset
      <4> HIDE DEF Q, O
      <4>2. BackTo(refunds, Q \cup O, k) = BackTo(refunds, Q, k) + BackTo(refunds, O, k)
        BY <1>1, <4>1, BackUnion
      <4>3. BackTo(refunds, Q, k) \in Nat /\ BackTo(refunds, O, k) \in Nat
        BY <1>1, <4>1, BackType
      <4>4. BackTo(refunds, Q, k) <= BackTo(refunds, Of(p), k)
        <5>1. BackTo(refunds, Of(p), k) = BackTo(refunds, Q \cup O, k)
          BY <4>1
        <5> HIDE DEF Q, O
        <5> QED
          BY <4>2, <4>3, <5>1
      <4> QED
        BY <4>4 DEF Q
    <3>3. Gave(p, k) = h[p]
      <4>1. payments[p] # Nil /\ payments[p].status = "SUCCEEDED" /\ payments[p].wallet \in Nat
        BY <2>1, PaymentRows DEF Captured
      <4>2. CASE payments[p].wallet = 0
        <5>1. p \notin P
          <6>1. allocations[p] # Nil => payments[p].wallet > 0
            BY DEF PaidFromWallet
          <6> QED
            BY <1>3, <4>2, <6>1
        <5> QED
          BY <1>1, <1>10, <4>2, <5>1 DEF Gave
      <4>3. CASE payments[p].wallet > 0
        <5>1. allocations[p] # Nil
          BY <4>1, <4>3 DEF PaidFromWallet
        <5>2. allocations[p].status = "CONSUMED"
          BY <4>1, <5>1 DEF PaidFromWallet
        <5>3. p \in P
          BY <5>1, <5>2 DEF With
        <5> QED
          BY <1>1, <1>10, <4>3, <5>3 DEF Gave, part
      <4> QED
        BY <4>1, <4>2, <4>3
    <3>4. BackTo(refunds, Of(p) \cap R, k) \in Nat /\ g[p] = BackTo(refunds, Of(p) \cap R, k)
      BY <1>7
    <3>5. BackTo(refunds, Of(p), k) \in Nat
      BY <1>1, RefundRows, BackType
    <3> QED
      BY <1>12, <3>1, <3>2, <3>3, <3>4, <3>5
  <2>2. CASE p \notin Captured
    <3>1. {r \in R : r[2] = p} = {}
      BY <1>2, <2>2
    <3>2. g[p] = 0
      BY <1>6, <1>8, <3>1, SumOfNothing DEF IsAmounts
    <3> QED
      BY <1>12, <3>2
  <2> QED
    BY <2>1, <2>2
<1>17. SumOf(g) <= SumOf(h)
  BY <1>7, <1>10, <1>11, <1>13, <1>16, SumOfLeq
<1> QED
  BY <1>6, <1>10, <1>14, <1>15, <1>17 DEF k, part

LEMMA TakenIsHeldAndSpent ==
  ASSUME WalletTypeOK, NEW b \in Batches, NEW part \in Parts
  PROVE  /\ From(b, With("RESERVED"), part) \in Nat /\ From(b, With("CONSUMED"), part) \in Nat
         /\ Taken(b, part) = From(b, With("RESERVED"), part) + From(b, With("CONSUMED"), part)
<1> DEFINE R == With("RESERVED")
           C == With("CONSUMED")
           f == [p \in R |-> allocations[p].portions[b][part]]
           g == [p \in C |-> allocations[p].portions[b][part]]
           h == [p \in R \cup C |-> allocations[p].portions[b][part]]
<1>1. /\ R \in SUBSET Payments /\ C \in SUBSET Payments /\ R \cap C = {}
      /\ IsFiniteSet(R) /\ IsFiniteSet(C)
      /\ \A p \in R \cup C : allocations[p] # Nil
  BY AllocationRows DEF With
<1>2. \A p \in R \cup C : allocations[p].portions[b][part] \in Nat
  BY <1>1, AllocationRows
<1>3. From(b, R, part) \in Nat /\ From(b, C, part) \in Nat
  BY <1>1, FromType
<1>4. From(b, R, part) = SumOf(f) /\ From(b, C, part) = SumOf(g) /\ Taken(b, part) = SumOf(h)
  BY DEF From, Taken, Holding
<1>5. /\ DOMAIN f = R /\ DOMAIN g = C /\ DOMAIN h = R \cup C
      /\ \A p \in R : f[p] = h[p] /\ f[p] \in Nat
      /\ \A p \in C : g[p] = h[p] /\ g[p] \in Nat
  BY <1>2
<1> HIDE DEF f, g, h, R, C
<1>6. IsFiniteSet(R \cup C) /\ \A p \in R \cup C : h[p] \in Nat
  BY <1>1, <1>5, FS_Union
<1>7. IsAmounts(f) /\ IsAmounts(g) /\ IsAmounts(h)
  BY <1>1, <1>5, <1>6 DEF IsAmounts
<1>8. SumOver(h, R \cup C) = SumOver(h, R) + SumOver(h, C)
  BY <1>1, <1>5, <1>7, SumUnion
<1>9. SumOver(f, R) = SumOver(h, R) /\ SumOver(g, C) = SumOver(h, C)
  BY <1>5, <1>7, SumSame
<1> QED
  BY <1>3, <1>4, <1>5, <1>8, <1>9, SumIsFold DEF R, C

\* wallet-store.ts: the balance stays within what was granted.
LEMMA Fits ==
  ASSUME RefundsInv
  PROVE  BalanceFits
<1> DEFINE f == [b \in Credited |-> Cents(batches[b].available ++ batches[b].reserved)]
           g == [b \in Credited |-> Cents(batches[b].granted)]
<1>0. /\ TypeOK /\ WalletTypeOK /\ ReservedIsHeld /\ GrantedCents <= MaxCents /\ PaidFromWallet
      /\ ReturnsFit /\ KindsAreConserved
  BY DEF RefundsInv, WalletInv
<1>1. ASSUME NEW b \in Credited, NEW i \in {1, 2}
      PROVE  batches[b].available[PartNo(i)] + batches[b].reserved[PartNo(i)]
               <= batches[b].granted[PartNo(i)]
  <2> DEFINE part == PartNo(i)
             back == BackTo(refunds, MadeIn("SUCCEEDED"), <<b, i>>)
             held == From(b, With("RESERVED"), part)
             used == From(b, With("CONSUMED"), part)
  <2>1. b \in Batches /\ part \in Parts
    BY DEF Credited, PartNo, Parts
  <2>2. held \in Nat /\ used \in Nat /\ Taken(b, part) = held + used
    BY <1>0, <2>1, TakenIsHeldAndSpent
  <2>3. back <= used
    BY <1>0, <2>1, ReturnedWasSpent
  <2>4. back \in Nat
    <3>1. <<b, i>> \in Kinds
      BY <2>1, SourceFacts
    <3> QED
      BY <1>0, <3>1, RefundRows, BackType
  <2>5. batches[b].granted[part] + back = batches[b].available[part] + Taken(b, part)
    BY <1>0 DEF KindsAreConserved
  <2>6. batches[b].reserved[part] = held
    BY <1>0, <2>1 DEF ReservedIsHeld
  <2>7. batches[b].granted[part] \in Nat /\ batches[b].available[part] \in Nat
    BY <1>0, <2>1, CreditedRows, PortionType
  <2> HIDE DEF back, held, used
  <2> QED
    BY <2>2, <2>3, <2>4, <2>5, <2>6, <2>7
<1>2. ASSUME NEW b \in Credited
      PROVE  /\ Cents(batches[b].available ++ batches[b].reserved) <= Cents(batches[b].granted)
             /\ Cents(batches[b].available ++ batches[b].reserved) \in Nat
             /\ Cents(batches[b].granted) \in Nat
  <2> DEFINE a == batches[b].available
             r == batches[b].reserved
             t == batches[b].granted
  <2>1. a \in Portion /\ r \in Portion /\ t \in Portion
    BY <1>0, CreditedRows
  <2>2. a.principal + r.principal <= t.principal
    BY <1>1 DEF PartNo
  <2>3. a.gift + r.gift <= t.gift
    BY <1>1 DEF PartNo
  <2>4. Cents(a ++ r) = Cents(a) + Cents(r)
    BY <2>1, PortionSum
  <2> HIDE DEF a, r, t
  <2> QED
    BY <2>1, <2>2, <2>3, <2>4, PortionType DEF a, r, t
<1>3. IsFiniteSet(Credited)
  BY <1>0, CreditedRows
<1>4. IsAmounts(f) /\ IsAmounts(g)
  BY <1>2, <1>3 DEF IsAmounts
<1>5. DOMAIN f = DOMAIN g /\ \A b \in DOMAIN f : f[b] <= g[b]
  BY <1>2
<1>6. GrantedCents = SumOf(g)
  BY DEF GrantedCents
<1> HIDE DEF f, g
<1>7. SumOf(f) <= SumOf(g)
  BY <1>4, <1>5, SumOfLeq
<1>8. SumOf(f) \in Int /\ SumOf(g) \in Int
  BY <1>4, SumOfType
<1> QED
  BY <1>0, <1>6, <1>7, <1>8, WalletAssumption DEF BalanceFits, f

(***************************************************************************)
(* Sums over the sources.                                                  *)
(***************************************************************************)
\* A payment gave what it was for.
GivesAddUp == \A p \in Captured : SumOf([k \in Kinds |-> Gave(p, k)]) = Price(p)

LEMMA PaymentGives == TypeOK /\ PaidFromWallet => GivesAddUp
<1> SUFFICES ASSUME TypeOK, PaidFromWallet, NEW p \in Captured
             PROVE  SumOf([k \in Kinds |-> Gave(p, k)]) = Price(p)
  BY DEF GivesAddUp
<1> DEFINE B == Batches \X {1, 2}
           f == [k \in Kinds |-> Gave(p, k)]
           w == [k \in B |-> Gave(p, k)]
           m == [k \in B |-> k[1]]
           c == [b \in Batches |-> IF payments[p].wallet = 0 THEN 0
                                   ELSE Cents(allocations[p].portions[b])]
<1>1. /\ IsFiniteSet(Kinds) /\ Kinds = B \cup {Channel} /\ Channel \notin B
      /\ Channel[1] \notin Batches /\ Channel \in Kinds
  <2>1. Channel \notin B
    BY SourceFacts
  <2> QED
    BY <2>1, SourceFacts DEF Kinds
<1>2. IsFiniteSet(B) /\ IsFiniteSet(Batches)
  BY <1>1, FS_Subset, WalletAssumption
<1>3. \A k \in Kinds : f[k] \in Nat
  BY GaveType
<1>4. /\ DOMAIN f = Kinds /\ DOMAIN w = B /\ \A k \in B : w[k] = f[k]
      /\ f[Channel] = payments[p].external
  BY <1>1 DEF Gave
<1>5. /\ p \in Payments /\ payments[p] # Nil /\ payments[p].status = "SUCCEEDED"
      /\ payments[p].wallet \in Nat /\ payments[p].external \in Nat
  BY PaymentRows DEF Captured
<1>6. payments[p].wallet # 0 =>
        /\ allocations[p] # Nil /\ allocations[p].portions \in [Batches -> Portion]
        /\ SumOf([b \in Batches |-> Cents(allocations[p].portions[b])]) = payments[p].wallet
  <2>1. SUFFICES ASSUME payments[p].wallet # 0
                 PROVE  /\ allocations[p] # Nil /\ allocations[p].portions \in [Batches -> Portion]
                        /\ SumOf([b \in Batches |-> Cents(allocations[p].portions[b])]) = payments[p].wallet
    OBVIOUS
  <2>2. payments[p].wallet > 0
    BY <1>5, <2>1
  <2>3. allocations[p] # Nil
    BY <1>5, <2>2 DEF PaidFromWallet
  <2>4. SumOf([b \in Batches |-> Cents(allocations[p].portions[b])]) = payments[p].wallet
    BY <1>5, <2>3 DEF PaidFromWallet
  <2> QED
    BY <1>5, <2>3, <2>4, AllocationRows DEF TypeOK
<1>7. \A b \in Batches, i \in {1, 2} :
        w[<<b, i>>] = IF payments[p].wallet = 0 THEN 0 ELSE allocations[p].portions[b][PartNo(i)]
  <2>1. SUFFICES ASSUME NEW b \in Batches, NEW i \in {1, 2}
                 PROVE  w[<<b, i>>] = IF payments[p].wallet = 0 THEN 0
                                      ELSE allocations[p].portions[b][PartNo(i)]
    OBVIOUS
  <2>2. <<b, i>>[1] = b /\ <<b, i>>[2] = i /\ <<b, i>> \in B
    OBVIOUS
  <2>3. w[<<b, i>>] = Gave(p, <<b, i>>)
    BY <2>2
  <2> QED
    BY <2>2, <2>3 DEF Gave
<1> HIDE DEF w
<1>8. /\ DOMAIN c = Batches
      /\ \A b \in Batches : c[b] \in Nat /\ c[b] = w[<<b, 1>>] + w[<<b, 2>>]
  <2>1. SUFFICES ASSUME NEW b \in Batches PROVE c[b] \in Nat /\ c[b] = w[<<b, 1>>] + w[<<b, 2>>]
    OBVIOUS
  <2>2. CASE payments[p].wallet = 0
    <3>1. w[<<b, 1>>] = 0 /\ w[<<b, 2>>] = 0
      BY <1>7, <2>2
    <3> QED
      BY <2>2, <3>1
  <2>3. CASE payments[p].wallet # 0
    <3>1. allocations[p].portions[b] \in Portion
      BY <1>6, <2>3
    <3>2. w[<<b, 1>>] = allocations[p].portions[b].principal
      <4>1. w[<<b, 1>>] = allocations[p].portions[b][PartNo(1)]
        BY <1>7, <2>3
      <4> QED
        BY <4>1 DEF PartNo
    <3>3. w[<<b, 2>>] = allocations[p].portions[b].gift
      <4>1. w[<<b, 2>>] = allocations[p].portions[b][PartNo(2)]
        BY <1>7, <2>3
      <4> QED
        BY <4>1 DEF PartNo
    <3> QED
      BY <2>3, <3>1, <3>2, <3>3, PortionType
  <2> QED
    BY <2>2, <2>3
<1>9. SumOf(c) = payments[p].wallet
  <2>1. CASE payments[p].wallet = 0
    <3>1. IsAmounts(c) /\ \A b \in DOMAIN c : c[b] = 0
      BY <1>2, <2>1 DEF IsAmounts
    <3> QED
      BY <2>1, <3>1, SumOfType
  <2>2. CASE payments[p].wallet # 0
    <3>1. c = [b \in Batches |-> Cents(allocations[p].portions[b])]
      BY <2>2
    <3> QED
      BY <1>6, <2>2, <3>1
  <2> QED
    BY <2>1, <2>2
<1>10. m \in [B -> Batches] /\ \A k \in B : m[k] = k[1]
  OBVIOUS
<1> HIDE DEF f, w, m, c
<1>11. IsAmounts(f) /\ IsAmounts(w) /\ IsAmounts(c)
  <2>1. IsAmounts(f)
    BY <1>1, <1>3, <1>4 DEF IsAmounts
  <2>2. \A k \in B : w[k] \in Int
    BY <1>1, <1>3, <1>4
  <2>3. IsAmounts(w)
    BY <1>2, <1>4, <2>2 DEF IsAmounts
  <2>4. \A b \in Batches : c[b] \in Int
    <3>1. ASSUME NEW b \in Batches PROVE c[b] \in Int
      <4>1. c[b] \in Nat
        BY <1>8, Zenon
      <4> QED
        BY <4>1
    <3> QED
      BY <3>1
  <2>5. IsAmounts(c)
    BY <1>2, <1>8, <2>4 DEF IsAmounts
  <2> QED
    BY <2>1, <2>3, <2>5
<1>12. ASSUME NEW b \in Batches PROVE c[b] = SumOver(w, {k \in DOMAIN w : m[k] = b})
  <2>1. {k \in DOMAIN w : m[k] = b} = ({} \cup {<<b, 2>>}) \cup {<<b, 1>>}
    <3>1. \A k \in B : k[1] = b <=> k = <<b, 1>> \/ k = <<b, 2>>
      OBVIOUS
    <3>2. <<b, 1>> \in B /\ <<b, 2>> \in B
      OBVIOUS
    <3> QED
      BY <1>4, <1>10, <3>1, <3>2
  <2>2. <<b, 1>> \in B /\ <<b, 2>> \in B /\ <<b, 1>> # <<b, 2>>
    OBVIOUS
  <2>3. SumOver(w, {}) = 0
    BY <1>2, <1>4, SumOfNothing
  <2>4. SumOver(w, {} \cup {<<b, 2>>}) = w[<<b, 2>>] + SumOver(w, {})
    BY <1>4, <1>11, <2>2, SumAdd
  <2>5. SumOver(w, ({} \cup {<<b, 2>>}) \cup {<<b, 1>>}) = w[<<b, 1>>] + SumOver(w, {} \cup {<<b, 2>>})
    BY <1>4, <1>11, <2>2, SumAdd
  <2>6. w[<<b, 1>>] \in Int /\ w[<<b, 2>>] \in Int
    BY <1>4, <1>11, <2>2 DEF IsAmounts
  <2> QED
    BY <1>8, <2>1, <2>3, <2>4, <2>5, <2>6
<1>13. SumOf(w) = SumOf(c)
  <2>1. DOMAIN c = Batches /\ m \in [DOMAIN w -> DOMAIN c]
    BY <1>4, <1>8, <1>10
  <2>2. \A b \in DOMAIN c : c[b] = SumOver(w, {k \in DOMAIN w : m[k] = b})
    BY <1>12, <2>1
  <2> QED
    BY <1>11, <2>1, <2>2, SumOfGroups
<1>14. SumOf(f) = f[Channel] + SumOf(w)
  <2>1. DOMAIN w = DOMAIN f \ {Channel} /\ \A k \in DOMAIN w : w[k] = f[k]
    BY <1>1, <1>4
  <2> QED
    BY <1>1, <1>4, <1>11, <2>1, SumOfMore
<1>15. SumOf(f) = Price(p)
  BY <1>4, <1>5, <1>9, <1>13, <1>14 DEF Price
<1> QED
  BY <1>15 DEF f

\* Left is what LeftBy says, and a natural number.
LeftFacts == \A p \in Payments, k \in Kinds : Left(<<p, k>>) = LeftBy(p, k) /\ LeftBy(p, k) \in Nat

LEMMA LeftAsFormula == TypeOK /\ PaidFromWallet /\ ReturnsFit => LeftFacts
BY LeftIsLeftBy DEF LeftFacts

LEMMA LeftBySource ==
  ASSUME LeftFacts
  PROVE  /\ \A s \in Sources : Left(s) = LeftBy(s[1], s[2]) /\ Left(s) \in Nat
         /\ IsAmounts([s \in Sources |-> Left(s)]) /\ LeftOfAll \in Nat
<1> DEFINE L == [s \in Sources |-> Left(s)]
<1>1. ASSUME NEW s \in Sources PROVE Left(s) = LeftBy(s[1], s[2]) /\ Left(s) \in Nat
  <2>1. PICK p \in Payments, k \in Kinds : s = <<p, k>>
    BY SourceFacts
  <2>2. Left(<<p, k>>) = LeftBy(p, k) /\ LeftBy(p, k) \in Nat
    BY DEF LeftFacts
  <2>3. s[1] = p /\ s[2] = k
    BY <2>1
  <2> QED
    BY <2>1, <2>2, <2>3
<1>2. IsFiniteSet(DOMAIN L) /\ \A s \in DOMAIN L : L[s] \in Nat
  BY <1>1, SourceFacts
<1>3. LeftOfAll = SumOf(L)
  BY DEF LeftOfAll
<1> HIDE DEF L
<1>4. IsAmounts(L) /\ \A s \in DOMAIN L : L[s] >= 0
  BY <1>2 DEF IsAmounts
<1>5. LeftOfAll \in Nat
  BY <1>3, <1>4, SumOfType
<1> QED
  BY <1>1, <1>4, <1>5 DEF L

\* The same, as formulas that hold of the next state as well.
LEMMA PriceAsFormula ==
  TypeOK => \A q \in Started : payments[q] # Nil /\ Price(q) \in Nat
BY PaymentRows

LEMMA GaveAsFormula ==
  TypeOK /\ PaidFromWallet => \A q \in Captured, k \in Kinds : Gave(q, k) \in Nat
BY GaveType

LEMMA LeftAmountsAsFormula == LeftFacts => IsAmounts([s \in Sources |-> Left(s)])
BY LeftBySource

(***************************************************************************)
(* Steps that ask nothing back.                                            *)
(***************************************************************************)
\* The refunds that are made, and what they ask back, stay as they are.
SameRefunds ==
  \A r \in RefundIds :
    /\ refunds'[r] # Nil <=> refunds[r] # Nil
    /\ refunds[r] # Nil => /\ refunds'[r].external = refunds[r].external
                           /\ refunds'[r].portions = refunds[r].portions

LEMMA SameBack ==
  ASSUME TypeOK, SameRefunds
  PROVE  /\ Made' = Made /\ \A p \in Payments : Of(p)' = Of(p)
         /\ \A r \in Made : Amount(r)' = Amount(r)
         /\ \A R \in SUBSET Made, k \in Kinds : BackTo(refunds', R, k) = BackTo(refunds, R, k)
<1>1. Made' = Made
  BY DEF SameRefunds, Made
<1>2. \A p \in Payments : Of(p)' = Of(p)
  BY <1>1 DEF Of
<1>3. \A r \in Made : r \in RefundIds /\ refunds[r] # Nil
  BY DEF Made
<1>4. \A r \in Made : Amount(r)' = Amount(r)
  BY <1>3 DEF Amount, WalletPart, SameRefunds
<1>5. \A r \in Made, k \in Kinds : Got(refunds'[r], k) = Got(refunds[r], k)
  BY <1>3 DEF Got, SameRefunds
<1>6. \A R \in SUBSET Made, k \in Kinds : BackTo(refunds', R, k) = BackTo(refunds, R, k)
  <2>1. SUFFICES ASSUME NEW R \in SUBSET Made, NEW k \in Kinds
                 PROVE  BackTo(refunds', R, k) = BackTo(refunds, R, k)
    OBVIOUS
  <2>2. \A r \in R : Got(refunds'[r], k) = Got(refunds[r], k)
    BY <1>5
  <2> QED
    BY <2>2, BackSame
<1> QED
  BY <1>1, <1>2, <1>4, <1>6

\* Nothing is captured: what is left stays as it is.
LEMMA QuietStep ==
  ASSUME TypeOK, TypeOK', PaidFromWallet, PaidFromWallet', ReturnsFit, LinesAndSourcesAgree,
         SameRefunds, UNCHANGED <<groups, caps>>, Captured' = Captured,
         \A p \in Captured : payments'[p] = payments[p] /\ allocations'[p] = allocations[p]
  PROVE  /\ ReturnsFit' /\ LinesAndSourcesAgree' /\ CapturedCents' = CapturedCents
         /\ RemainingOfAll' = RemainingOfAll
<1>1. \A p \in Payments : Of(p)' = Of(p)
  BY SameBack
<1>2. \A p \in Captured, k \in Kinds : /\ Gave(p, k)' = Gave(p, k)
                                       /\ BackTo(refunds', Of(p), k) = BackTo(refunds, Of(p), k)
  <2>1. \A p \in Captured : Of(p) \in SUBSET Made
    BY RefundRows
  <2>2. \A p \in Captured, k \in Kinds : Gave(p, k)' = Gave(p, k)
    BY DEF Gave
  <2> QED
    BY <2>1, <2>2, SameBack
<1>3. Captured \subseteq Payments
  BY PaymentRows
<1>4. \A l \in Lines : Remaining(l)' = Remaining(l)
  BY DEF Remaining
<1>5. ReturnsFit'
  <2>1. \A l \in Lines : Remaining(l)' >= 0
    BY <1>4 DEF ReturnsFit
  <2>2. \A p \in Captured, k \in Kinds : BackTo(refunds', Of(p)', k) <= Gave(p, k)'
    <3>1. SUFFICES ASSUME NEW p \in Captured, NEW k \in Kinds
                   PROVE  BackTo(refunds', Of(p)', k) <= Gave(p, k)'
      OBVIOUS
    <3>2. BackTo(refunds, Of(p), k) <= Gave(p, k)
      BY DEF ReturnsFit
    <3> QED
      BY <1>1, <1>2, <1>3, <3>2
  <2>3. \A p \in Captured, k \in Kinds : BackTo(refunds, Of(p), k)' <= Gave(p, k)'
    BY <2>2 DEF BackTo, Got
  <2> QED
    BY <2>1, <2>3 DEF ReturnsFit
<1>6. LeftFacts /\ LeftFacts'
  <2>1. (TypeOK /\ PaidFromWallet /\ ReturnsFit => LeftFacts)'
    BY LeftAsFormula, PTL
  <2> QED
    BY <1>5, <2>1, LeftAsFormula
<1>7. LeftOfAll' = LeftOfAll
  <2>1. ASSUME NEW s \in Sources PROVE Left(s)' = Left(s)
    <3>1. PICK p \in Payments, k \in Kinds : s = <<p, k>>
      BY SourceFacts
    <3>2. Left(<<p, k>>) = LeftBy(p, k)
      BY <1>6 DEF LeftFacts
    <3>3. Left(<<p, k>>)' = LeftBy(p, k)'
      BY <1>6 DEF LeftFacts
    <3>4. LeftBy(p, k)' = LeftBy(p, k)
      <4>1. CASE p \in Captured
        <5>1. LeftBy(p, k)' = Gave(p, k)' - BackTo(refunds', Of(p)', k)
          BY <4>1 DEF LeftBy, BackTo, Got
        <5> QED
          BY <1>1, <1>2, <4>1, <5>1 DEF LeftBy
      <4>2. CASE p \notin Captured
        BY <4>2 DEF LeftBy
      <4> QED
        BY <4>1, <4>2
    <3> QED
      BY <3>1, <3>2, <3>3, <3>4
  <2>2. [s \in Sources |-> Left(s)'] = [s \in Sources |-> Left(s)]
    BY <2>1
  <2> QED
    BY <2>2 DEF LeftOfAll
<1>8. RemainingOfAll' = RemainingOfAll
  BY <1>4 DEF RemainingOfAll
<1>9. LinesAndSourcesAgree'
  BY <1>7, <1>8 DEF LinesAndSourcesAgree
<1>10. CapturedCents' = CapturedCents
  BY DEF CapturedCents, Price
<1> QED
  BY <1>5, <1>8, <1>9, <1>10

\* Payment p is captured: what it gave is added to what is left of the sources.
LEMMA CaptureStep ==
  ASSUME TypeOK, TypeOK', PaidFromWallet, PaidFromWallet', ReturnsFit,
         UNCHANGED <<groups, refunds>>, NEW p \in Payments,
         p \notin Captured, Captured' = Captured \cup {p},
         \A q \in Captured : payments'[q] = payments[q] /\ allocations'[q] = allocations[q],
         \A l \in Lines : Remaining(l)' >= 0
  PROVE  /\ ReturnsFit' /\ LeftOfAll' = LeftOfAll + Price(p)'
         /\ CapturedCents' = CapturedCents + Price(p)'
         /\ LeftOfAll \in Nat /\ Price(p)' \in Nat /\ CapturedCents \in Nat
         /\ Captured = {} => LeftOfAll = 0
<1>0. Captured \subseteq Payments /\ IsFiniteSet(Captured) /\ \A q \in Captured : Price(q) \in Nat
  BY PaymentRows
<1>1. (TypeOK => \A q \in Started : payments[q] # Nil /\ Price(q) \in Nat)'
  BY PriceAsFormula, PTL
<1>2. Price(p)' \in Nat
  BY <1>1 DEF Captured, Started
<1>3. Of(p) = {} /\ \A q \in Payments : Of(q)' = Of(q)
  <2>1. Of(p) = {}
    BY RefundRows DEF Of
  <2> QED
    BY <2>1 DEF Of, Made
<1>4. \A q \in Captured, k \in Kinds : Gave(q, k)' = Gave(q, k)
  BY DEF Gave
<1>5. (TypeOK /\ PaidFromWallet => \A q \in Captured, k \in Kinds : Gave(q, k) \in Nat)'
  BY GaveAsFormula, PTL
<1>6. \A q \in Captured', k \in Kinds : Gave(q, k)' \in Nat
  BY <1>5
<1>7. \A k \in Kinds : BackTo(refunds, {}, k) = 0
  <2>1. SUFFICES ASSUME NEW k \in Kinds PROVE BackTo(refunds, {}, k) = 0
    OBVIOUS
  <2> DEFINE f == [r \in {} |-> Got(refunds[r], k)]
  <2>2. IsAmounts(f) /\ DOMAIN f = {}
    BY FS_EmptySet DEF IsAmounts
  <2>3. BackTo(refunds, {}, k) = SumOf(f)
    BY DEF BackTo
  <2> HIDE DEF f
  <2> QED
    BY <2>2, <2>3, SumOfType
<1>8. ReturnsFit'
  <2>1. \A q \in Captured', k \in Kinds : BackTo(refunds, Of(q), k)' <= Gave(q, k)'
    <3>1. SUFFICES ASSUME NEW q \in Captured', NEW k \in Kinds
                   PROVE  BackTo(refunds, Of(q), k)' <= Gave(q, k)'
      OBVIOUS
    <3>2. BackTo(refunds, Of(q), k)' = BackTo(refunds, Of(q), k)
      BY <1>0, <1>3 DEF BackTo, Got
    <3>3. CASE q = p
      BY <1>3, <1>6, <1>7, <3>2, <3>3
    <3>4. CASE q # p
      <4>1. q \in Captured
        BY <3>4
      <4>2. BackTo(refunds, Of(q), k) <= Gave(q, k)
        BY <4>1 DEF ReturnsFit
      <4> QED
        BY <1>4, <3>2, <4>1, <4>2
    <3> QED
      BY <3>3, <3>4
  <2> QED
    BY <2>1 DEF ReturnsFit
<1>9. LeftFacts /\ LeftFacts'
  <2>1. (TypeOK /\ PaidFromWallet /\ ReturnsFit => LeftFacts)'
    BY LeftAsFormula, PTL
  <2> QED
    BY <1>8, <2>1, LeftAsFormula
<1>10. GivesAddUp'
  <2>1. (TypeOK /\ PaidFromWallet => GivesAddUp)'
    BY PaymentGives, PTL
  <2> QED
    BY <2>1
<1> DEFINE L == [s \in Sources |-> Left(s)]
           M == [s \in Sources |-> Left(s)']
           given == {p} \X Kinds
           A == [s \in Sources |-> IF s[1] = p THEN Gave(p, s[2])' ELSE 0]
           B == [s \in given |-> Gave(p, s[2])']
           G == [k \in Kinds |-> Gave(p, k)']
           n == [k \in Kinds |-> <<p, k>>]
<1>11. IsAmounts(L) /\ LeftOfAll \in Nat /\ LeftOfAll = SumOf(L)
  BY <1>9, LeftBySource DEF LeftOfAll
<1>12. IsAmounts(M) /\ LeftOfAll' = SumOf(M)
  <2>1. (LeftFacts => IsAmounts([s \in Sources |-> Left(s)]))'
    BY LeftAmountsAsFormula, PTL
  <2>2. LeftOfAll' = SumOf(M)
    BY DEF LeftOfAll
  <2> QED
    BY <1>9, <2>1, <2>2
<1>13. ASSUME NEW s \in Sources PROVE Left(s)' = Left(s) + A[s] /\ A[s] \in Nat
  <2>1. PICK q \in Payments, k \in Kinds : s = <<q, k>>
    BY SourceFacts
  <2>2. s[1] = q /\ s[2] = k
    BY <2>1
  <2>3. Left(s) = LeftBy(q, k) /\ LeftBy(q, k) \in Nat
    BY <1>9, <2>1 DEF LeftFacts
  <2>4. Left(s)' = LeftBy(q, k)'
    BY <1>9, <2>1 DEF LeftFacts
  <2>5. BackTo(refunds, Of(q), k)' = BackTo(refunds, Of(q), k)
    BY <1>3 DEF BackTo, Got
  <2>6. CASE q = p
    <3>1. A[s] = Gave(p, k)' /\ Gave(p, k)' \in Nat
      BY <1>6, <2>2, <2>6
    <3>2. Left(s) = 0
      BY <2>3, <2>6 DEF LeftBy
    <3>3. BackTo(refunds, Of(q), k)' = 0
      BY <1>3, <1>7, <2>5, <2>6
    <3>4. Left(s)' = Gave(p, k)'
      BY <2>4, <2>6, <3>1, <3>3 DEF LeftBy
    <3> QED
      BY <3>1, <3>2, <3>4
  <2>7. CASE q # p
    <3>1. A[s] = 0
      BY <2>2, <2>7
    <3>2. LeftBy(q, k)' = LeftBy(q, k)
      BY <1>4, <2>5, <2>7 DEF LeftBy
    <3> QED
      BY <2>3, <2>4, <3>1, <3>2
  <2> QED
    BY <2>6, <2>7
<1>14. /\ DOMAIN L = Sources /\ DOMAIN M = Sources /\ DOMAIN A = Sources
       /\ IsFiniteSet(Sources) /\ IsFiniteSet(Kinds)
       /\ \A s \in Sources : M[s] = L[s] + A[s]
  BY <1>13, SourceFacts
<1>15. given \in SUBSET Sources /\ DOMAIN B = given /\ IsFiniteSet(given)
  <2>1. given \in SUBSET Sources
    BY SourceFacts
  <2> QED
    BY <1>14, <2>1, FS_Subset
<1>16. /\ \A s \in given : B[s] = A[s] /\ A[s] \in Nat
       /\ \A s \in Sources \ given : A[s] = 0
  <2>1. \A s \in given : B[s] = A[s] /\ A[s] \in Nat
    BY <1>13, <1>15
  <2>2. \A s \in Sources \ given : A[s] = 0
    BY SourceFacts
  <2> QED
    BY <2>1, <2>2
<1>17. /\ n \in [Kinds -> given] /\ \A k, j \in Kinds : n[k] = n[j] => k = j
       /\ \A s \in given : \E k \in Kinds : n[k] = s
       /\ \A k \in Kinds : G[k] = B[n[k]] /\ G[k] \in Nat
       /\ DOMAIN G = Kinds
  <2>1. /\ n \in [Kinds -> given] /\ \A k, j \in Kinds : n[k] = n[j] => k = j
        /\ \A s \in given : \E k \in Kinds : n[k] = s
    OBVIOUS
  <2>2. \A k \in Kinds : G[k] = B[n[k]]
    <3>1. SUFFICES ASSUME NEW k \in Kinds PROVE G[k] = B[n[k]]
      OBVIOUS
    <3>2. n[k] \in given /\ n[k][2] = k
      OBVIOUS
    <3> QED
      BY <3>2
  <2>3. \A k \in Kinds : G[k] \in Nat
    BY <1>6
  <2> QED
    BY <2>1, <2>2, <2>3
<1>18. SumOf(G) = Price(p)'
  BY <1>10 DEF GivesAddUp
<1>19. \A s \in Sources : A[s] \in Nat
  BY <1>13
<1> HIDE DEF L, M, A, B, G, n, given
<1>20. IsAmounts(A)
  BY <1>14, <1>19 DEF IsAmounts
<1>21. IsAmounts(B)
  BY <1>15, <1>16 DEF IsAmounts
<1>22. IsAmounts(G)
  BY <1>14, <1>17 DEF IsAmounts
<1>23. SumOf(M) = SumOf(L) + SumOf(A)
  BY <1>11, <1>12, <1>14, <1>20, SumOfPlus
<1>24. SumOf(A) = SumOf(B)
  BY <1>14, <1>15, <1>16, <1>20, <1>21, SumOfWider
<1>25. SumOf(G) = SumOf(B)
  BY <1>15, <1>17, <1>21, <1>22, SumOfRenamed
<1>26. LeftOfAll' = LeftOfAll + Price(p)'
  BY <1>11, <1>12, <1>18, <1>23, <1>24, <1>25
<1>27. CapturedCents \in Nat /\ CapturedCents' = CapturedCents + Price(p)'
  <2> DEFINE f == [q \in Captured |-> Price(q)]
             g == [q \in Captured' |-> Price(q)']
  <2>1. CapturedCents = SumOf(f) /\ CapturedCents' = SumOf(g)
    BY DEF CapturedCents
  <2>2. \A q \in Captured : Price(q)' = Price(q)
    BY DEF Price
  <2>3. /\ DOMAIN f = Captured /\ DOMAIN g = Captured \cup {p} /\ g[p] = Price(p)'
        /\ \A q \in Captured : f[q] \in Nat /\ g[q] = f[q]
    BY <1>0, <2>2
  <2> HIDE DEF f, g
  <2>4. IsFiniteSet(Captured \cup {p})
    BY <1>0, FS_AddElement
  <2>5. IsAmounts(f)
    BY <1>0, <2>3 DEF IsAmounts
  <2>6. \A q \in Captured \cup {p} : g[q] \in Int
    BY <1>2, <2>3
  <2>7. IsAmounts(g)
    BY <2>3, <2>4, <2>6 DEF IsAmounts
  <2>8. SumOf(g) = g[p] + SumOf(f)
    <3>1. DOMAIN f = DOMAIN g \ {p} /\ p \in DOMAIN g
      BY <2>3
    <3> QED
      BY <2>3, <2>5, <2>7, <3>1, SumOfMore
  <2>9. SumOf(f) \in Nat
    <3>1. \A q \in DOMAIN f : f[q] >= 0
      BY <2>3
    <3> QED
      BY <2>5, <3>1, SumOfType
  <2> QED
    BY <1>2, <2>1, <2>3, <2>8, <2>9
<1>28. Captured = {} => LeftOfAll = 0
  <2>1. SUFFICES ASSUME Captured = {} PROVE LeftOfAll = 0
    OBVIOUS
  <2>2. \A s \in Sources : Left(s) = LeftBy(s[1], s[2])
    BY <1>9, LeftBySource
  <2>3. \A s \in DOMAIN L : L[s] = 0
    BY <2>1, <2>2 DEF LeftBy, L
  <2> QED
    BY <1>11, <2>3, SumOfType
<1> QED
  BY <1>2, <1>8, <1>11, <1>26, <1>27, <1>28

(***************************************************************************)
(* What is left of the lines.                                              *)
(***************************************************************************)
GroupsMade == {g \in Groups : groups[g] # Nil}
AskedOf(l) == SumOf([g \in GroupsMade |-> groups[g].lines[l]])

LEMMA RemainingType ==
  ASSUME TypeOK, NEW l \in Lines
  PROVE  /\ Remaining(l) \in Int /\ Remaining(l) = caps[l] - AskedOf(l)
         /\ caps[l] \in Nat /\ AskedOf(l) \in Nat
         /\ IsAmounts([g \in GroupsMade |-> groups[g].lines[l]])
<1> DEFINE f == [g \in GroupsMade |-> groups[g].lines[l]]
<1>1. IsFiniteSet(GroupsMade)
  BY RefundsAssumption, FS_Subset DEF GroupsMade
<1>2. \A g \in GroupsMade : groups[g] \in Group
  BY DEF TypeOK, GroupsMade
<1>3. DOMAIN f = GroupsMade /\ \A g \in GroupsMade : f[g] \in Nat
  BY <1>2 DEF Group
<1>4. AskedOf(l) = SumOf(f) /\ Remaining(l) = caps[l] - AskedOf(l)
  BY DEF AskedOf, Remaining, GroupsMade
<1> HIDE DEF f
<1>5. IsAmounts(f) /\ \A g \in DOMAIN f : f[g] >= 0
  BY <1>1, <1>3 DEF IsAmounts
<1>6. AskedOf(l) \in Nat
  BY <1>4, <1>5, SumOfType
<1>7. caps[l] \in Nat
  BY DEF TypeOK
<1> QED
  BY <1>4, <1>5, <1>6, <1>7 DEF f

LEMMA RemainingAmounts ==
  ASSUME TypeOK
  PROVE  IsAmounts([l \in Lines |-> Remaining(l)]) /\ RemainingOfAll \in Int
<1> DEFINE f == [l \in Lines |-> Remaining(l)]
<1>1. IsFiniteSet(DOMAIN f) /\ \A l \in DOMAIN f : f[l] \in Int
  BY RemainingType, RefundsAssumption
<1>2. RemainingOfAll = SumOf(f)
  BY DEF RemainingOfAll
<1> HIDE DEF f
<1>3. IsAmounts(f)
  BY <1>1 DEF IsAmounts
<1>4. RemainingOfAll \in Int
  BY <1>2, <1>3, SumOfType
<1> QED
  BY <1>3, <1>4 DEF f

\* A supplement is money for one line.
LEMMA LineIsFunded ==
  ASSUME TypeOK, ReturnsFit, UNCHANGED groups, NEW l \in Lines, NEW c \in Nat,
         caps' = [caps EXCEPT ![l] = @ + c]
  PROVE  /\ \A i \in Lines : Remaining(i)' >= 0
         /\ RemainingOfAll' = RemainingOfAll + c
<1> DEFINE f == [i \in Lines |-> Remaining(i)]
           g == [i \in Lines |-> Remaining(i)']
           d == [i \in Lines |-> IF i = l THEN c ELSE 0]
           z == [i \in Lines \ {l} |-> 0]
<1>1. caps \in [Lines -> Nat] /\ IsFiniteSet(Lines)
  BY RefundsAssumption DEF TypeOK
<1>2. \A i \in Lines : caps'[i] = caps[i] + d[i] /\ d[i] \in Nat
  BY <1>1
<1>3. \A i \in Lines : /\ Remaining(i) \in Int /\ Remaining(i) = caps[i] - AskedOf(i)
                       /\ caps[i] \in Nat /\ AskedOf(i) \in Nat /\ Remaining(i) >= 0
  BY RemainingType DEF ReturnsFit
<1>4. \A i \in Lines : Remaining(i)' = caps'[i] - AskedOf(i)
  BY DEF Remaining, AskedOf, GroupsMade
<1>5. ASSUME NEW i \in Lines
      PROVE  Remaining(i)' = Remaining(i) + d[i] /\ Remaining(i)' \in Nat
  <2>1. /\ caps'[i] = caps[i] + d[i] /\ d[i] \in Nat
        /\ Remaining(i) \in Int /\ Remaining(i) = caps[i] - AskedOf(i)
        /\ caps[i] \in Nat /\ AskedOf(i) \in Nat /\ Remaining(i) >= 0
        /\ Remaining(i)' = caps'[i] - AskedOf(i)
    BY <1>2, <1>3, <1>4
  <2> HIDE DEF d
  <2> QED
    BY <2>1
<1>6. \A i \in Lines : Remaining(i)' >= 0
  <2>1. ASSUME NEW i \in Lines PROVE Remaining(i)' >= 0
    <3>1. Remaining(i)' \in Nat
      BY <1>5
    <3> QED
      BY <3>1
  <2> QED
    BY <2>1
<1>7. IsAmounts(f) /\ RemainingOfAll = SumOf(f) /\ RemainingOfAll' = SumOf(g)
  BY RemainingAmounts DEF RemainingOfAll
<1>8. IsAmounts(g)
  BY <1>1, <1>5 DEF IsAmounts
<1>9. IsAmounts(d) /\ d[l] = c
  BY <1>1 DEF IsAmounts
<1>10. /\ IsAmounts(z) /\ SumOf(z) = 0
  <2>1. IsFiniteSet(Lines \ {l})
    BY <1>1, FS_Subset
  <2>2. IsAmounts(z) /\ \A i \in DOMAIN z : z[i] = 0
    BY <2>1 DEF IsAmounts
  <2> HIDE DEF z
  <2> QED
    BY <2>2, SumOfType
<1>11. /\ DOMAIN f = Lines /\ DOMAIN g = Lines /\ DOMAIN d = Lines /\ DOMAIN z = Lines \ {l}
       /\ \A i \in Lines \ {l} : z[i] = d[i]
       /\ \A i \in Lines : g[i] = f[i] + d[i]
  BY <1>5
<1> HIDE DEF f, g, d, z
<1>12. SumOf(d) = d[l] + SumOf(z)
  BY <1>9, <1>10, <1>11, SumOfMore
<1>13. SumOf(g) = SumOf(f) + SumOf(d)
  BY <1>7, <1>8, <1>9, <1>11, SumOfPlus
<1> QED
  BY <1>6, <1>7, <1>9, <1>10, <1>12, <1>13

\* The lines of an order that nothing was paid or refunded of.
LEMMA NothingAsked ==
  ASSUME TypeOK, caps = LineCents, \A g \in Groups : groups[g] = Nil
  PROVE  RemainingOfAll = SumOf(LineCents) /\ \A l \in Lines : Remaining(l) >= 0
<1>1. ASSUME NEW l \in Lines PROVE Remaining(l) = LineCents[l] /\ LineCents[l] \in Nat
  <2>1. GroupsMade = {}
    BY DEF GroupsMade
  <2> DEFINE f == [g \in GroupsMade |-> groups[g].lines[l]]
  <2>2. IsAmounts(f) /\ DOMAIN f = {} /\ AskedOf(l) = SumOf(f)
    BY <2>1, RemainingType DEF AskedOf
  <2> HIDE DEF f
  <2>3. AskedOf(l) = 0
    BY <2>2, SumOfType
  <2>4. Remaining(l) = caps[l] - AskedOf(l) /\ caps[l] \in Nat
    BY RemainingType
  <2> QED
    BY <2>3, <2>4
<1>2. [l \in Lines |-> Remaining(l)] = LineCents
  BY <1>1, RefundsAssumption
<1>3. RemainingOfAll = SumOf(LineCents)
  BY <1>2 DEF RemainingOfAll
<1>4. ASSUME NEW l \in Lines PROVE Remaining(l) >= 0
  BY <1>1
<1> QED
  BY <1>3, <1>4

LEMMA LineSum == SumOf(LineCents) \in Nat
<1>1. /\ IsAmounts(LineCents) /\ \A l \in DOMAIN LineCents : LineCents[l] >= 0
  BY RefundsAssumption DEF IsAmounts
<1> QED
  BY <1>1, SumOfType

(***************************************************************************)
(* The operations.                                                         *)
(***************************************************************************)
\* Conservation through steps that move money between the available part of a batch
\* and payments.
LEMMA MovesConserve ==
  ASSUME TypeOK, KindsAreConserved, Moves, SameRefunds, MadeIn("SUCCEEDED")' = MadeIn("SUCCEEDED")
  PROVE  KindsAreConserved'
<1>1. ASSUME NEW b \in Credited, NEW i \in {1, 2}
      PROVE  batches'[b].granted[PartNo(i)] + BackTo(refunds, MadeIn("SUCCEEDED"), <<b, i>>)'
               = batches'[b].available[PartNo(i)] + Taken(b, PartNo(i))'
  <2>1. PartNo(i) \in Parts /\ <<b, i>> \in Kinds
    BY SourceFacts DEF PartNo, Parts, Credited
  <2>2. BackTo(refunds, MadeIn("SUCCEEDED"), <<b, i>>)' = BackTo(refunds, MadeIn("SUCCEEDED"), <<b, i>>)
    <3>1. MadeIn("SUCCEEDED") \in SUBSET Made
      BY RefundRows
    <3>2. BackTo(refunds', MadeIn("SUCCEEDED"), <<b, i>>) = BackTo(refunds, MadeIn("SUCCEEDED"), <<b, i>>)
      BY <2>1, <3>1, SameBack
    <3>3. BackTo(refunds, MadeIn("SUCCEEDED"), <<b, i>>)'
            = BackTo(refunds', MadeIn("SUCCEEDED")', <<b, i>>)
      BY DEF BackTo, Got
    <3> QED
      BY <3>2, <3>3
  <2>3. batches[b].granted[PartNo(i)] + BackTo(refunds, MadeIn("SUCCEEDED"), <<b, i>>)
          = batches[b].available[PartNo(i)] + Taken(b, PartNo(i))
    BY DEF KindsAreConserved
  <2>4. batches'[b].granted = batches[b].granted
    BY DEF Moves
  <2>5. batches'[b].available[PartNo(i)] + Taken(b, PartNo(i))'
          = batches[b].available[PartNo(i)] + Taken(b, PartNo(i))
    BY <2>1 DEF Moves
  <2> QED
    BY <2>2, <2>3, <2>4, <2>5
<1> QED
  BY <1>1 DEF KindsAreConserved, Moves

LEMMA StayingMoves ==
  ASSUME WalletInv, UNCHANGED walletVars
  PROVE  WalletInv' /\ Moves
<1>1. WalletInv'
  BY DEF WalletInv, WalletTypeOK, Numbered, Credited, TakenWhereCredited, ReservedIsHeld, From,
         With, GrantedCents, walletVars
<1>2. Moves
  BY DEF Moves, Credited, Taken, From, Holding, With, walletVars
<1> QED
  BY <1>1, <1>2

\* A payment begins or is settled: the invariants of refunds stay.
LEMMA NumbersStay ==
  ASSUME NumbersBackOneRefund, UNCHANGED refundVars
  PROVE  NumbersBackOneRefund' /\ SameRefunds
BY DEF NumbersBackOneRefund, SameRefunds, MadeIn, Made, refundVars

LEMMA ReturnedStays ==
  ASSUME TypeOK, SameRefunds, MadeIn("SUCCEEDED")' = MadeIn("SUCCEEDED")
  PROVE  ReturnedCents' = ReturnedCents
<1>1. \A r \in MadeIn("SUCCEEDED") : Amount(r)' = Amount(r)
  BY SameBack DEF MadeIn
<1> QED
  BY <1>1 DEF ReturnedCents

LEMMA TypeParts ==
  ASSUME RefundsInv
  PROVE  /\ TypeOK /\ WalletInv /\ WalletTypeOK /\ PaidFromWallet /\ InTurn /\ ReturnsFit
         /\ LinesAndSourcesAgree /\ KindsAreConserved /\ PaidAsReturned /\ NumbersBackOneRefund
BY DEF RefundsInv, WalletInv

LEMMA TopUpStep ==
  ASSUME RefundsInv, TopUp
  PROVE  RefundsInv'
<1>0. /\ TypeOK /\ WalletInv /\ WalletTypeOK /\ PaidFromWallet /\ InTurn /\ ReturnsFit
      /\ LinesAndSourcesAgree /\ KindsAreConserved /\ PaidAsReturned /\ NumbersBackOneRefund
  BY TypeParts
<1>1. PICK b \in Batches, grant \in Grants : CreditWalletBatch(b, grant)
  BY DEF TopUp
<1>2. UNCHANGED <<order, cancelled, caps, payments, refundVars>>
  BY DEF TopUp
<1>3. grant \in Portion
  BY WalletAssumption
<1>4. WalletInv'
  BY <1>0, <1>1, <1>3, CreditKeepsWalletInv
<1>5. /\ Credited' = Credited \cup {b} /\ b \notin Credited
      /\ \A a \in Credited : batches'[a] = batches[a]
      /\ batches'[b].granted = grant /\ batches'[b].available = grant
      /\ allocations' = allocations
  BY <1>0, <1>1, <1>3, CreditRow
<1>6. TypeOK'
  <2>1. WalletTypeOK'
    BY <1>4 DEF WalletInv
  <2> QED
    BY <1>0, <1>2, <2>1 DEF TypeOK, refundVars, Made, Captured
<1>7. PaidFromWallet' /\ InTurn'
  BY <1>0, <1>2, <1>5 DEF PaidFromWallet, InTurn, Captured, Started, Waiting, Price, refundVars
<1>8. NumbersBackOneRefund' /\ SameRefunds
  BY <1>0, <1>2, NumbersStay
<1>9. Captured' = Captured /\ MadeIn("SUCCEEDED")' = MadeIn("SUCCEEDED")
  BY <1>2 DEF Captured, MadeIn, Made, refundVars
<1>10. ReturnsFit' /\ LinesAndSourcesAgree' /\ CapturedCents' = CapturedCents
  <2>1. UNCHANGED <<groups, caps>>
    BY <1>2 DEF refundVars
  <2>2. \A p \in Captured : payments'[p] = payments[p] /\ allocations'[p] = allocations[p]
    BY <1>2, <1>5
  <2> QED
    BY <1>0, <1>6, <1>7, <1>8, <1>9, <2>1, <2>2, QuietStep
<1>11. PaidAsReturned'
  <2>1. ReturnedCents' = ReturnedCents
    BY <1>0, <1>8, <1>9, ReturnedStays
  <2> QED
    BY <1>0, <1>2, <1>10, <2>1 DEF PaidAsReturned
<1>12. KindsAreConserved'
  <2>1. ASSUME NEW a \in Credited', NEW i \in {1, 2}
        PROVE  batches'[a].granted[PartNo(i)] + BackTo(refunds, MadeIn("SUCCEEDED"), <<a, i>>)'
                 = batches'[a].available[PartNo(i)] + Taken(a, PartNo(i))'
    <3>0. PartNo(i) \in Parts
      BY DEF PartNo, Parts
    <3>1. Taken(a, PartNo(i))' = Taken(a, PartNo(i))
      BY <1>5 DEF Taken, From, Holding, With
    <3>2. BackTo(refunds, MadeIn("SUCCEEDED"), <<a, i>>)' = BackTo(refunds, MadeIn("SUCCEEDED"), <<a, i>>)
      BY <1>2, <1>9 DEF BackTo, Got, refundVars
    <3>3. CASE a \in Credited
      BY <1>0, <1>5, <3>1, <3>2, <3>3 DEF KindsAreConserved
    <3>4. CASE a = b
      <4>1. Taken(b, PartNo(i)) = 0
        <5>1. Holding \in SUBSET Payments /\ \A p \in Holding : allocations[p] # Nil
          BY DEF Holding, With
        <5> QED
          BY <1>0, <1>5, <3>0, <5>1, NothingTaken DEF WalletInv, Taken
      <4>2. BackTo(refunds, MadeIn("SUCCEEDED"), <<b, i>>) = 0
        <5>1. BackTo(refunds, MadeIn("SUCCEEDED"), <<b, i>>) <= From(b, With("CONSUMED"), PartNo(i))
          BY <1>0, ReturnedWasSpent
        <5>2. From(b, With("CONSUMED"), PartNo(i)) = 0
          BY <1>0, <1>5, <3>0, NothingTaken DEF WalletInv, With
        <5>3. BackTo(refunds, MadeIn("SUCCEEDED"), <<b, i>>) \in Nat
          BY <1>0, RefundRows, BackType, SourceFacts
        <5> QED
          BY <5>1, <5>2, <5>3
      <4>3. grant[PartNo(i)] \in Nat
        BY <1>3, <3>0, PortionType
      <4> QED
        BY <1>5, <3>1, <3>2, <3>4, <4>1, <4>2, <4>3
    <3> QED
      BY <1>5, <3>3, <3>4
  <2> QED
    BY <2>1 DEF KindsAreConserved
<1> QED
  BY <1>4, <1>6, <1>7, <1>8, <1>10, <1>11, <1>12 DEF RefundsInv

LEMMA StatusType ==
  ASSUME NEW captured, NEW returned, NEW any
  PROVE  PaidStatus(captured, returned, any) \in {"UNPAID", "PAID", "PARTIALLY_REFUNDED", "REFUNDED"}
BY DEF PaidStatus

LEMMA ConfirmType ==
  ASSUME TypeOK, NEW row \in Payment, Confirm(row)
  PROVE  /\ order' \in OrderRow /\ order'.status = "CONFIRMED" /\ caps' \in [Lines -> Nat]
         /\ order'.paid = PaidStatus(CapturedCents + row.wallet + row.external,
                                     ReturnedCents, ReturnedCents > 0)
<1> DEFINE s == PaidStatus(CapturedCents + row.wallet + row.external,
                           ReturnedCents, ReturnedCents > 0)
<1>1. s \in {"UNPAID", "PAID", "PARTIALLY_REFUNDED", "REFUNDED"}
  BY StatusType
<1>2. order' = [order EXCEPT !.status = "CONFIRMED", !.revision = @ + 1, !.paid = s]
  BY DEF Confirm
<1> HIDE DEF s
<1>3. order \in OrderRow
  BY DEF TypeOK
<1>4. order' \in OrderRow /\ order'.status = "CONFIRMED" /\ order'.paid = s
  <2>1. order.revision + 1 \in Nat \ {0}
    BY <1>3 DEF OrderRow
  <2>2. order' = [status |-> "CONFIRMED", paid |-> s, revision |-> order.revision + 1]
    BY <1>2, <1>3 DEF OrderRow
  <2> QED
    BY <1>1, <2>1, <2>2 DEF OrderRow
<1>5. caps' \in [Lines -> Nat]
  BY DEF Confirm, TypeOK, Payment
<1> QED
  BY <1>4, <1>5 DEF s

\* A payment is captured and pays the order or the amendment of a line.
LEMMA ConfirmStep ==
  ASSUME RefundsInv, TypeOK', PaidFromWallet', UNCHANGED refundVars,
         NEW p \in Payments, NEW row \in Payment, Confirm(row), payments'[p] = row,
         p \notin Captured, Captured' = Captured \cup {p},
         \A q \in Captured : payments'[q] = payments[q] /\ allocations'[q] = allocations[q],
         row.line = Nil => Captured = {} /\ row.wallet + row.external = SumOf(LineCents),
         row.line # Nil => Captured # {}
  PROVE  ReturnsFit' /\ LinesAndSourcesAgree' /\ PaidAsReturned'
<1> DEFINE c == row.wallet + row.external
<1>0. /\ TypeOK /\ PaidFromWallet /\ InTurn /\ ReturnsFit /\ LinesAndSourcesAgree
      /\ row.wallet \in Nat /\ row.external \in Nat /\ c \in Nat
      /\ Price(p)' = c /\ UNCHANGED <<groups, refunds>>
  BY DEF RefundsInv, Payment, Price, refundVars
<1>1. ASSUME row.line = Nil
      PROVE  /\ \A l \in Lines : Remaining(l)' >= 0
             /\ RemainingOfAll' = c /\ Captured = {}
  <2>1. Captured = {} /\ c = SumOf(LineCents) /\ caps' = caps
    BY <1>1 DEF Confirm
  <2>2. caps = LineCents /\ \A g \in Groups : groups[g] = Nil
    BY <1>0, <2>1 DEF InTurn
  <2>3. RemainingOfAll = SumOf(LineCents) /\ \A l \in Lines : Remaining(l) >= 0
    BY <1>0, <2>2, NothingAsked
  <2>4. \A l \in Lines : Remaining(l)' = Remaining(l)
    BY <1>0, <2>1 DEF Remaining
  <2>5. RemainingOfAll' = RemainingOfAll
    BY <2>4 DEF RemainingOfAll
  <2> QED
    BY <2>1, <2>3, <2>4, <2>5
<1>2. ASSUME row.line # Nil
      PROVE  /\ \A l \in Lines : Remaining(l)' >= 0
             /\ RemainingOfAll' = RemainingOfAll + c /\ Captured # {}
  <2>1. row.line \in Lines /\ caps \in [Lines -> Nat]
    BY <1>0, <1>2 DEF Payment, TypeOK
  <2>2. caps' = [caps EXCEPT ![row.line] = @ + row.wallet + row.external]
    BY <1>2 DEF Confirm
  <2>3. caps' = [caps EXCEPT ![row.line] = @ + c]
    <3>1. caps[row.line] + row.wallet + row.external = caps[row.line] + c
      BY <1>0, <2>1
    <3> HIDE DEF c
    <3> QED
      BY <2>1, <2>2, <3>1
  <2> HIDE DEF c
  <2>4. /\ \A i \in Lines : Remaining(i)' >= 0
        /\ RemainingOfAll' = RemainingOfAll + c
    BY <1>0, <2>1, <2>3, LineIsFunded
  <2> QED
    BY <1>2, <2>4
<1>3. \A l \in Lines : Remaining(l)' >= 0
  BY <1>1, <1>2
<1>4. /\ ReturnsFit' /\ LeftOfAll' = LeftOfAll + Price(p)'
      /\ CapturedCents' = CapturedCents + Price(p)'
      /\ LeftOfAll \in Nat /\ CapturedCents \in Nat
      /\ Captured = {} => LeftOfAll = 0
  BY <1>0, <1>3, CaptureStep
<1>5. LinesAndSourcesAgree'
  <2>1. RemainingOfAll' = LeftOfAll'
    <3>1. CASE row.line = Nil
      BY <1>0, <1>1, <1>4, <3>1
    <3>2. CASE row.line # Nil
      BY <1>0, <1>2, <1>4, <3>2 DEF LinesAndSourcesAgree
    <3> QED
      BY <3>1, <3>2
  <2> QED
    BY <2>1 DEF LinesAndSourcesAgree
<1>6. PaidAsReturned'
  <2>1. order'.paid = PaidStatus(CapturedCents + row.wallet + row.external,
                                 ReturnedCents, ReturnedCents > 0)
    BY <1>0, ConfirmType
  <2>2. CapturedCents' = CapturedCents + row.wallet + row.external
    BY <1>0, <1>4
  <2>3. ReturnedCents' = ReturnedCents
    BY <1>0 DEF ReturnedCents, MadeIn, Made, Amount, WalletPart
  <2> QED
    BY <2>1, <2>2, <2>3 DEF PaidAsReturned
<1> QED
  BY <1>4, <1>5, <1>6

\* beginOrderPayment and beginAmendmentPayment.
BeginFacts(p, row) ==
  /\ row \in Payment /\ row # Nil /\ payments[p] = Nil /\ allocations[p] = Nil
  /\ p \notin Started /\ p \notin Captured /\ Waiting = {}
  /\ payments' = [payments EXCEPT ![p] = row]
  /\ WalletInv' /\ Moves
  /\ \A q \in Payments \ {p} : payments'[q] = payments[q] /\ allocations'[q] = allocations[q]
  /\ payments'[p] = row
  /\ PaidFromWallet'

LEMMA BeginRows ==
  ASSUME RefundsInv, NEW p \in Payments, NEW l \in Lines \cup {Nil}, NEW amount \in Nat, NEW w \in Nat,
         BeginPayment(p, l, amount, w)
  PROVE  BeginFacts(p, [line |-> l, wallet |-> w, external |-> amount - w,
                        status |-> IF w = amount THEN "SUCCEEDED" ELSE "PENDING"])
<1> DEFINE row == [line |-> l, wallet |-> w, external |-> amount - w,
                   status |-> IF w = amount THEN "SUCCEEDED" ELSE "PENDING"]
<1>0. TypeOK /\ WalletInv /\ WalletTypeOK /\ PaidFromWallet
  BY TypeParts
<1>1. /\ p \notin Started /\ Waiting = {} /\ w <= amount
      /\ payments' = [payments EXCEPT ![p] = row]
      /\ IF w > 0 THEN ReserveWallet(p, w, w = amount) ELSE UNCHANGED walletVars
  BY DEF BeginPayment
<1>2. /\ row \in Payment /\ row.wallet = w
      /\ row.status = IF w = amount THEN "SUCCEEDED" ELSE "PENDING"
  <2>1. amount - w \in Nat
    BY <1>1
  <2> QED
    BY <2>1 DEF Payment
<1>3. row # Nil
  BY <1>2, RefundRowsAssumption
<1> HIDE DEF row
<1>4. payments[p] = Nil /\ p \notin Captured /\ payments \in [Payments -> Payment \cup {Nil}]
  BY <1>0, <1>1 DEF Started, Captured, TypeOK
<1>5. allocations[p] = Nil
  BY <1>0, <1>4 DEF PaidFromWallet
<1>6. payments'[p] = row /\ \A q \in Payments \ {p} : payments'[q] = payments[q]
  BY <1>1, <1>4
<1>7. /\ WalletInv' /\ Moves
      /\ \A q \in Payments \ {p} : allocations'[q] = allocations[q]
      /\ w = 0 => allocations'[p] = Nil
      /\ w > 0 => /\ allocations'[p] # Nil
                  /\ allocations'[p].status = IF w = amount THEN "CONSUMED" ELSE "RESERVED"
                  /\ SumOf([b \in Batches |-> Cents(allocations'[p].portions[b])]) = w
  <2>1. CASE w = 0
    BY <1>0, <1>1, <1>5, <2>1, StayingMoves DEF walletVars
  <2>2. CASE w > 0
    <3> DEFINE now == w = amount
    <3>1. ReserveWallet(p, w, now) /\ now \in BOOLEAN
      BY <1>1, <2>2
    <3> HIDE DEF now
    <3>2. WalletInv' /\ Moves
      BY <1>0, <3>1, ReserveKeepsWalletInv
    <3>3. /\ w <= Spendable(Credited) /\ allocations'[p] # Nil
          /\ allocations'[p].portions = AllocateWalletDebit(w)
          /\ allocations'[p].status = IF now THEN "CONSUMED" ELSE "RESERVED"
          /\ \A q \in Payments \ {p} : allocations'[q] = allocations[q]
      BY <1>0, <3>1, ReserveRows
    <3>4. SumOf([b \in Batches |-> Cents(allocations'[p].portions[b])]) = w
      BY <1>0, <3>3, DebitIsExact DEF WalletInv
    <3> QED
      BY <2>2, <3>2, <3>3, <3>4 DEF now
  <2> QED
    BY <2>1, <2>2
<1>8. PaidFromWallet'
  <2>1. ASSUME NEW q \in Payments
        PROVE  /\ allocations'[q] # Nil <=> payments'[q] # Nil /\ payments'[q].wallet > 0
               /\ allocations'[q] # Nil =>
                    /\ allocations'[q].status = "RESERVED" <=> payments'[q].status = "PENDING"
                    /\ allocations'[q].status = "CONSUMED" <=> payments'[q].status = "SUCCEEDED"
                    /\ SumOf([b \in Batches |-> Cents(allocations'[q].portions[b])]) = payments'[q].wallet
    <3>1. CASE q = p
      BY <1>2, <1>3, <1>6, <1>7, <3>1
    <3>2. CASE q # p
      BY <1>0, <1>6, <1>7, <3>2 DEF PaidFromWallet
    <3> QED
      BY <3>1, <3>2
  <2> QED
    BY <2>1 DEF PaidFromWallet
<1> QED
  BY <1>1, <1>2, <1>3, <1>4, <1>5, <1>6, <1>7, <1>8 DEF BeginFacts, row

LEMMA BeginStep ==
  ASSUME RefundsInv, NEW p \in Payments, NEW l \in Lines \cup {Nil}, NEW amount \in Nat, NEW w \in Nat,
         BeginPayment(p, l, amount, w),
         l = Nil => order.status = "HELD" /\ amount = SumOf(LineCents),
         l # Nil => order.status = "CONFIRMED"
  PROVE  RefundsInv'
<1> DEFINE row == [line |-> l, wallet |-> w, external |-> amount - w,
                   status |-> IF w = amount THEN "SUCCEEDED" ELSE "PENDING"]
<1>0. /\ TypeOK /\ WalletInv /\ WalletTypeOK /\ PaidFromWallet /\ InTurn /\ ReturnsFit
      /\ LinesAndSourcesAgree /\ KindsAreConserved /\ PaidAsReturned /\ NumbersBackOneRefund
  BY TypeParts
<1>1. BeginFacts(p, row)
  BY BeginRows
<1>2. /\ IF w = amount THEN Confirm(row) ELSE UNCHANGED <<order, caps>>
      /\ UNCHANGED <<cancelled, refundVars>> /\ w <= amount
  BY DEF BeginPayment
<1>3. /\ row.line = l /\ row.wallet = w /\ row.external = amount - w
      /\ row.status = IF w = amount THEN "SUCCEEDED" ELSE "PENDING"
      /\ row.wallet + row.external = amount
  BY <1>2
<1> HIDE DEF row
<1>4. /\ row \in Payment /\ row # Nil /\ payments[p] = Nil /\ allocations[p] = Nil
      /\ p \notin Started /\ p \notin Captured /\ Waiting = {}
      /\ payments' = [payments EXCEPT ![p] = row]
      /\ WalletInv' /\ Moves
      /\ \A q \in Payments \ {p} : payments'[q] = payments[q] /\ allocations'[q] = allocations[q]
      /\ payments'[p] = row
      /\ PaidFromWallet'
  BY <1>1 DEF BeginFacts
<1>5. /\ Started' = Started \cup {p}
      /\ Captured' = IF w = amount THEN Captured \cup {p} ELSE Captured
      /\ Waiting' = IF w = amount THEN {} ELSE {p}
  <2>1. Started' = Started \cup {p}
    BY <1>4 DEF Started
  <2>2. Captured' = IF w = amount THEN Captured \cup {p} ELSE Captured
    BY <1>3, <1>4 DEF Captured
  <2>3. Waiting' = IF w = amount THEN {} ELSE {p}
    BY <1>3, <1>4, <2>1 DEF Waiting, Started
  <2> QED
    BY <2>1, <2>2, <2>3
<1>6. /\ NumbersBackOneRefund' /\ SameRefunds /\ MadeIn("SUCCEEDED")' = MadeIn("SUCCEEDED")
      /\ Made' = Made
  BY <1>0, <1>2, NumbersStay DEF MadeIn, Made, refundVars
<1>7. TypeOK'
  <2>1. WalletTypeOK'
    BY <1>4 DEF WalletInv
  <2>2. order' \in OrderRow /\ caps' \in [Lines -> Nat]
    BY <1>0, <1>2, <1>4, ConfirmType DEF TypeOK
  <2>3. payments' \in [Payments -> Payment \cup {Nil}]
    BY <1>0, <1>4 DEF TypeOK
  <2>4. \A r \in Made' : groups'[r[1]] # Nil /\ r[2] \in Captured'
    BY <1>0, <1>2, <1>5, <1>6 DEF TypeOK, refundVars
  <2> QED
    BY <1>0, <1>2, <2>1, <2>2, <2>3, <2>4 DEF TypeOK, refundVars
<1>8. \A q \in Captured : payments'[q] = payments[q] /\ allocations'[q] = allocations[q]
  BY <1>4 DEF Captured
<1>9. KindsAreConserved'
  BY <1>0, <1>4, <1>6, MovesConserve
<1>10. CASE w = amount
  <2>1. Confirm(row) /\ Captured' = Captured \cup {p} /\ UNCHANGED refundVars
    BY <1>2, <1>5, <1>10
  <2>2. /\ row.line = Nil => Captured = {} /\ row.wallet + row.external = SumOf(LineCents)
        /\ row.line # Nil => Captured # {}
    BY <1>0, <1>3 DEF InTurn
  <2>3. ReturnsFit' /\ LinesAndSourcesAgree' /\ PaidAsReturned'
    BY <1>4, <1>7, <1>8, <2>1, <2>2, ConfirmStep
  <2>4. InTurn'
    <3>1. order'.status = "CONFIRMED"
      BY <1>0, <1>4, <2>1, ConfirmType
    <3>2. \A q \in Started' : payments'[q].line = Nil => Price(q)' = SumOf(LineCents)
      BY <1>0, <1>3, <1>4, <1>5 DEF InTurn, Price, Started
    <3> QED
      BY <1>5, <1>10, <2>1, <3>1, <3>2 DEF InTurn
  <2> QED
    BY <1>4, <1>6, <1>7, <1>9, <2>3, <2>4 DEF RefundsInv
<1>11. CASE w # amount
  <2>1. UNCHANGED <<order, caps, groups>> /\ Captured' = Captured
    BY <1>2, <1>5, <1>11 DEF refundVars
  <2>2. ReturnsFit' /\ LinesAndSourcesAgree' /\ CapturedCents' = CapturedCents
    BY <1>0, <1>4, <1>6, <1>7, <1>8, <2>1, QuietStep
  <2>3. PaidAsReturned'
    <3>1. ReturnedCents' = ReturnedCents
      BY <1>0, <1>6, ReturnedStays
    <3> QED
      BY <1>0, <2>1, <2>2, <3>1 DEF PaidAsReturned
  <2>4. InTurn'
    <3>1. \A q \in Started' : payments'[q].line = Nil => Price(q)' = SumOf(LineCents)
      BY <1>0, <1>3, <1>4, <1>5 DEF InTurn, Price, Started
    <3>2. \A q \in Waiting' : order'.status = IF payments'[q].line = Nil THEN "HELD" ELSE "CONFIRMED"
      BY <1>3, <1>4, <1>5, <1>11, <2>1
    <3> QED
      BY <1>0, <1>5, <1>11, <2>1, <3>1, <3>2 DEF InTurn
  <2> QED
    BY <1>4, <1>6, <1>7, <1>9, <2>2, <2>3, <2>4 DEF RefundsInv
<1> QED
  BY <1>10, <1>11

(***************************************************************************)
(* The channel's answer for a payment.                                     *)
(***************************************************************************)
LEMMA SettleWallet ==
  ASSUME RefundsInv, NEW p \in Payments, NEW succeeds \in BOOLEAN, SettlePayment(p, succeeds)
  PROVE  /\ p \in Waiting /\ payments[p] # Nil /\ payments[p].status = "PENDING"
         /\ WalletInv' /\ Moves
         /\ payments' = [payments EXCEPT ![p].status = IF succeeds THEN "SUCCEEDED" ELSE "ENDED"]
         /\ \A q \in Payments \ {p} : payments'[q] = payments[q] /\ allocations'[q] = allocations[q]
         /\ payments'[p] \in Payment /\ payments'[p] # Nil
         /\ payments'[p].line = payments[p].line /\ payments'[p].wallet = payments[p].wallet
         /\ payments'[p].external = payments[p].external
         /\ payments'[p].status = IF succeeds THEN "SUCCEEDED" ELSE "ENDED"
         /\ PaidFromWallet'
<1> DEFINE status == IF succeeds THEN "SUCCEEDED" ELSE "ENDED"
<1>0. TypeOK /\ WalletInv /\ WalletTypeOK /\ PaidFromWallet
  BY TypeParts
<1>1. /\ p \in Waiting /\ payments' = [payments EXCEPT ![p].status = status]
      /\ IF payments[p].wallet > 0 THEN SettleWalletReservation(p, succeeds)
         ELSE UNCHANGED walletVars
  BY DEF SettlePayment
<1>2. /\ payments[p] # Nil /\ payments[p] \in Payment /\ payments[p].status = "PENDING"
      /\ payments[p].wallet \in Nat
  BY <1>0, <1>1, PaymentRows DEF Waiting
<1>3. payments \in [Payments -> Payment \cup {Nil}] /\ status \in {"SUCCEEDED", "ENDED"}
  BY <1>0 DEF TypeOK
<1> HIDE DEF status
<1>4. /\ payments'[p] = [payments[p] EXCEPT !.status = status]
      /\ \A q \in Payments \ {p} : payments'[q] = payments[q]
  BY <1>1, <1>3
<1>5. /\ payments'[p] \in Payment /\ payments'[p].line = payments[p].line
      /\ payments'[p].wallet = payments[p].wallet /\ payments'[p].external = payments[p].external
      /\ payments'[p].status = status
  BY <1>2, <1>3, <1>4 DEF Payment
<1>6. payments'[p] # Nil
  BY <1>5, RefundRowsAssumption
<1>7. /\ WalletInv' /\ Moves
      /\ \A q \in Payments \ {p} : allocations'[q] = allocations[q]
      /\ allocations'[p] # Nil <=> allocations[p] # Nil
      /\ allocations[p] # Nil =>
           /\ allocations'[p].status = IF succeeds THEN "CONSUMED" ELSE "RELEASED"
           /\ allocations'[p].portions = allocations[p].portions
  <2>1. CASE payments[p].wallet > 0
    <3>1. SettleWalletReservation(p, succeeds)
      BY <1>1, <2>1
    <3>2. WalletInv' /\ Moves
      BY <1>0, <3>1, SettleKeepsWalletInv
    <3> QED
      BY <1>0, <3>1, <3>2, SettleRows
  <2>2. CASE ~(payments[p].wallet > 0)
    <3>1. UNCHANGED walletVars
      BY <1>1, <2>2
    <3>2. allocations[p] = Nil
      <4>1. allocations[p] # Nil => payments[p].wallet > 0
        BY <1>0 DEF PaidFromWallet
      <4> QED
        BY <2>2, <4>1
    <3> QED
      BY <1>0, <3>1, <3>2, StayingMoves DEF walletVars
  <2> QED
    BY <2>1, <2>2
<1>8. PaidFromWallet'
  <2>1. ASSUME NEW q \in Payments
        PROVE  /\ allocations'[q] # Nil <=> payments'[q] # Nil /\ payments'[q].wallet > 0
               /\ allocations'[q] # Nil =>
                    /\ allocations'[q].status = "RESERVED" <=> payments'[q].status = "PENDING"
                    /\ allocations'[q].status = "CONSUMED" <=> payments'[q].status = "SUCCEEDED"
                    /\ SumOf([b \in Batches |-> Cents(allocations'[q].portions[b])]) = payments'[q].wallet
    <3>1. CASE q = p
      <4>1. /\ allocations[p] # Nil <=> payments[p].wallet > 0
            /\ allocations[p] # Nil =>
                 SumOf([b \in Batches |-> Cents(allocations[p].portions[b])]) = payments[p].wallet
        BY <1>0, <1>2 DEF PaidFromWallet
      <4> QED
        BY <1>3, <1>5, <1>6, <1>7, <3>1, <4>1 DEF status
    <3>2. CASE q # p
      BY <1>0, <1>4, <1>7, <3>2 DEF PaidFromWallet
    <3> QED
      BY <3>1, <3>2
  <2> QED
    BY <2>1 DEF PaidFromWallet
<1> QED
  BY <1>1, <1>2, <1>4, <1>5, <1>6, <1>7, <1>8 DEF status

LEMMA SettleStep ==
  ASSUME RefundsInv, NEW p \in Payments, NEW succeeds \in BOOLEAN, SettlePayment(p, succeeds)
  PROVE  RefundsInv'
<1> DEFINE lost == ~succeeds /\ payments[p].line = Nil
           row == payments'[p]
<1>0. /\ TypeOK /\ WalletInv /\ WalletTypeOK /\ PaidFromWallet /\ InTurn /\ ReturnsFit
      /\ LinesAndSourcesAgree /\ KindsAreConserved /\ PaidAsReturned /\ NumbersBackOneRefund
  BY TypeParts
<1>1. /\ p \in Waiting /\ payments[p] # Nil /\ payments[p].status = "PENDING"
      /\ WalletInv' /\ Moves
      /\ payments' = [payments EXCEPT ![p].status = IF succeeds THEN "SUCCEEDED" ELSE "ENDED"]
      /\ \A q \in Payments \ {p} : payments'[q] = payments[q] /\ allocations'[q] = allocations[q]
      /\ row \in Payment /\ row # Nil
      /\ row.line = payments[p].line /\ row.wallet = payments[p].wallet
      /\ row.external = payments[p].external
      /\ row.status = IF succeeds THEN "SUCCEEDED" ELSE "ENDED"
      /\ PaidFromWallet'
  BY SettleWallet
<1>2. /\ succeeds => Confirm(payments[p])
      /\ ~succeeds => /\ order' = IF lost THEN [order EXCEPT !.status = "CANCELLED", !.revision = @ + 1]
                                  ELSE order
                      /\ UNCHANGED caps
      /\ cancelled' = IF lost THEN Lines ELSE cancelled
      /\ UNCHANGED refundVars
  BY DEF SettlePayment
<1> HIDE DEF lost
<1>3. payments[p] \in Payment /\ (Confirm(payments[p]) => Confirm(row))
  <2>1. payments[p] \in Payment
    BY <1>0, <1>1, PaymentRows
  <2> QED
    BY <1>1, <2>1 DEF Confirm
<1>4. /\ Started' = Started /\ Waiting' = {} /\ p \notin Captured
      /\ Captured' = IF succeeds THEN Captured \cup {p} ELSE Captured
  <2>1. Started' = Started
    BY <1>1 DEF Started
  <2>2. \A q \in Waiting : q = p
    BY <1>0, <1>1 DEF InTurn
  <2>3. Waiting' = {}
    BY <1>1, <2>1, <2>2 DEF Waiting, Started
  <2>4. p \notin Captured
    BY <1>1 DEF Captured
  <2>5. Captured' = IF succeeds THEN Captured \cup {p} ELSE Captured
    BY <1>1 DEF Captured
  <2> QED
    BY <2>1, <2>3, <2>4, <2>5
<1>5. /\ NumbersBackOneRefund' /\ SameRefunds /\ MadeIn("SUCCEEDED")' = MadeIn("SUCCEEDED")
      /\ Made' = Made
  BY <1>0, <1>2, NumbersStay DEF MadeIn, Made, refundVars
<1>6. ~succeeds => /\ order' \in OrderRow /\ order'.paid = order.paid
                   /\ order'.status = IF lost THEN "CANCELLED" ELSE order.status
  <2>1. order \in OrderRow
    BY <1>0 DEF TypeOK
  <2>2. order.revision + 1 \in Nat \ {0}
    BY <2>1 DEF OrderRow
  <2> QED
    BY <1>2, <2>1, <2>2 DEF OrderRow
<1>7. TypeOK'
  <2>1. WalletTypeOK'
    BY <1>1 DEF WalletInv
  <2>2. order' \in OrderRow /\ caps' \in [Lines -> Nat]
    <3>1. CASE succeeds
      BY <1>0, <1>2, <1>3, <3>1, ConfirmType
    <3>2. CASE ~succeeds
      BY <1>0, <1>2, <1>6, <3>2 DEF TypeOK
    <3> QED
      BY <3>1, <3>2
  <2>3. payments' \in [Payments -> Payment \cup {Nil}]
    <3>1. payments \in [Payments -> Payment \cup {Nil}]
      BY <1>0 DEF TypeOK
    <3>2. payments' = [q \in Payments |-> payments'[q]]
      BY <1>1, <3>1
    <3>3. \A q \in Payments : payments'[q] \in Payment \cup {Nil}
      BY <1>1, <3>1
    <3> QED
      BY <3>2, <3>3
  <2>4. \A r \in Made' : groups'[r[1]] # Nil /\ r[2] \in Captured'
    BY <1>0, <1>2, <1>4, <1>5 DEF TypeOK, refundVars
  <2>5. cancelled' \subseteq Lines
    BY <1>0, <1>2 DEF TypeOK
  <2> QED
    BY <1>0, <1>2, <2>1, <2>2, <2>3, <2>4, <2>5 DEF TypeOK, refundVars
<1>8. \A q \in Captured : payments'[q] = payments[q] /\ allocations'[q] = allocations[q]
  BY <1>1, <1>4 DEF Captured
<1>9. KindsAreConserved'
  BY <1>0, <1>1, <1>5, MovesConserve
<1>10. \A q \in Started' : payments'[q].line = Nil => Price(q)' = SumOf(LineCents)
  <2>1. \A q \in Payments : /\ payments'[q].line = payments[q].line
                            /\ payments'[q].wallet = payments[q].wallet
                            /\ payments'[q].external = payments[q].external
    BY <1>1
  <2> QED
    BY <1>0, <1>4, <2>1 DEF InTurn, Price, Started
<1>11. order.status = IF payments[p].line = Nil THEN "HELD" ELSE "CONFIRMED"
  BY <1>0, <1>1 DEF InTurn
<1>12. CASE succeeds
  <2>1. Confirm(row) /\ Captured' = Captured \cup {p} /\ order'.status = "CONFIRMED"
    BY <1>0, <1>2, <1>3, <1>4, <1>12, ConfirmType
  <2>2. /\ row.line = Nil => Captured = {} /\ row.wallet + row.external = SumOf(LineCents)
        /\ row.line # Nil => Captured # {}
    <3>1. p \in Started
      BY <1>1 DEF Waiting
    <3> QED
      BY <1>0, <1>1, <1>11, <3>1 DEF InTurn, Price
  <2>3. ReturnsFit' /\ LinesAndSourcesAgree' /\ PaidAsReturned'
    BY <1>1, <1>2, <1>4, <1>7, <1>8, <2>1, <2>2, ConfirmStep
  <2>4. InTurn'
    BY <1>4, <1>10, <1>12, <2>1 DEF InTurn
  <2> QED
    BY <1>1, <1>5, <1>7, <1>9, <2>3, <2>4 DEF RefundsInv
<1>13. CASE ~succeeds
  <2>1. UNCHANGED <<caps, groups>> /\ Captured' = Captured
    BY <1>2, <1>4, <1>13 DEF refundVars
  <2>2. ReturnsFit' /\ LinesAndSourcesAgree' /\ CapturedCents' = CapturedCents
    BY <1>0, <1>1, <1>5, <1>7, <1>8, <2>1, QuietStep
  <2>3. PaidAsReturned'
    <3>1. ReturnedCents' = ReturnedCents
      BY <1>0, <1>5, ReturnedStays
    <3> QED
      BY <1>0, <1>6, <1>13, <2>2, <3>1 DEF PaidAsReturned
  <2>4. InTurn'
    <3>1. order'.status = IF lost THEN "CANCELLED" ELSE order.status
      BY <1>6, <1>13
    <3>2. caps' = caps /\ groups' = groups
      BY <2>1
    <3> QED
      BY <1>0, <1>4, <1>10, <1>13, <2>1, <3>1, <3>2 DEF InTurn
  <2> QED
    BY <1>1, <1>5, <1>7, <1>9, <2>2, <2>3, <2>4 DEF RefundsInv
<1> QED
  BY <1>12, <1>13

(***************************************************************************)
(* Refunds that complete: their wallet portions go back to the batches.    *)
(***************************************************************************)
LEMMA RestoreRows ==
  ASSUME WalletInv, NEW rows, NEW R \in SUBSET RefundIds, IsFiniteSet(R),
         \A r \in R : rows[r] \in Refund,
         batches' = Restore(rows, R), allocations' = allocations
  PROVE  /\ WalletInv' /\ Credited' = Credited
         /\ \A b \in Credited, i \in {1, 2} :
              /\ batches'[b].granted = batches[b].granted
              /\ batches'[b].available[PartNo(i)]
                   = batches[b].available[PartNo(i)] + BackTo(rows, R, <<b, i>>)
<1> DEFINE back(b, part) == SumOf([r \in R |-> rows[r].portions[b][part]])
<1>0. WalletTypeOK
  BY DEF WalletInv
<1>1. ASSUME NEW b \in Batches, NEW i \in {1, 2}
      PROVE  BackTo(rows, R, <<b, i>>) = back(b, PartNo(i)) /\ back(b, PartNo(i)) \in Nat
  <2>1. BackTo(rows, R, <<b, i>>) = back(b, PartNo(i))
    BY DEF BackTo, Got
  <2>2. <<b, i>> \in Kinds
    BY SourceFacts
  <2>3. BackTo(rows, R, <<b, i>>) \in Nat
    BY <2>2, BackType
  <2> QED
    BY <2>1, <2>3
<1>2. \A b \in Batches : back(b, "principal") \in Nat /\ back(b, "gift") \in Nat
  <2>1. SUFFICES ASSUME NEW b \in Batches PROVE back(b, "principal") \in Nat /\ back(b, "gift") \in Nat
    OBVIOUS
  <2>2. back(b, PartNo(1)) \in Nat /\ back(b, PartNo(2)) \in Nat
    BY <1>1
  <2> HIDE DEF back
  <2> QED
    BY <2>2 DEF PartNo
<1>3. batches' = [b \in Batches |->
        IF b \notin Credited THEN Nil
        ELSE [batches[b] EXCEPT !.available.principal = @ + back(b, "principal"),
                                !.available.gift = @ + back(b, "gift")]]
  BY DEF Restore
<1> HIDE DEF back
<1>4. \A b \in Credited : b \in Batches /\ batches[b] \in Batch /\ batches[b].available \in Portion
  BY <1>0, CreditedRows
<1>5. ASSUME NEW b \in Credited
      PROVE  /\ batches'[b] \in Batch
             /\ batches'[b].granted = batches[b].granted /\ batches'[b].reserved = batches[b].reserved
             /\ batches'[b].credited = batches[b].credited
             /\ batches'[b].available.principal = batches[b].available.principal + back(b, "principal")
             /\ batches'[b].available.gift = batches[b].available.gift + back(b, "gift")
  <2> DEFINE row == batches[b]
             x == [principal |-> row.available.principal + back(b, "principal"),
                   gift |-> row.available.gift + back(b, "gift")]
  <2>1. b \in Batches /\ row \in Batch /\ row.available \in Portion
    BY <1>4
  <2>2. batches'[b] = [row EXCEPT !.available.principal = @ + back(b, "principal"),
                                  !.available.gift = @ + back(b, "gift")]
    BY <1>3, <2>1
  <2>3. batches'[b] = [granted |-> row.granted, available |-> x, reserved |-> row.reserved,
                       credited |-> row.credited]
    BY <2>1, <2>2 DEF Batch, Portion
  <2>4. x \in Portion
    BY <1>2, <2>1 DEF Portion
  <2>5. /\ row.granted \in Portion /\ row.reserved \in Portion /\ row.credited \in Nat \ {0}
    BY <2>1 DEF Batch
  <2> HIDE DEF row, x
  <2>6. batches'[b] \in Batch
    BY <2>3, <2>4, <2>5 DEF Batch
  <2> QED
    BY <2>3, <2>6 DEF row, x
<1>6. /\ Credited' = Credited /\ batches' \in [Batches -> Batch \cup {Nil}]
  <2>1. \A b \in Batches \ Credited : batches'[b] = Nil
    BY <1>3
  <2>2. \A b \in Credited : batches'[b] # Nil /\ b \in Batches
    BY <1>4, <1>5, WalletRowsAssumption
  <2>3. Credited' = Credited
    BY <2>1, <2>2 DEF Credited
  <2>4. \A b \in Batches : batches'[b] \in Batch \cup {Nil}
    BY <1>5, <2>1
  <2>5. batches' = [b \in Batches |-> batches'[b]]
    BY <1>3
  <2> QED
    BY <2>3, <2>4, <2>5
<1>7. WalletTypeOK'
  BY <1>0, <1>6 DEF WalletTypeOK
<1>8. Numbered'
  BY <1>5, <1>6 DEF WalletInv, Numbered
<1>9. TakenWhereCredited' /\ ReservedIsHeld' /\ GrantedCents' <= MaxCents
  <2>1. TakenWhereCredited'
    BY <1>6 DEF WalletInv, TakenWhereCredited
  <2>2. ReservedIsHeld'
    BY <1>5, <1>6 DEF WalletInv, ReservedIsHeld, From, With
  <2>3. GrantedCents' = GrantedCents
    BY <1>5, <1>6 DEF GrantedCents
  <2> QED
    BY <2>1, <2>2, <2>3 DEF WalletInv
<1>10. WalletInv'
  BY <1>7, <1>8, <1>9 DEF WalletInv
<1>11. ASSUME NEW b \in Credited, NEW i \in {1, 2}
       PROVE  batches'[b].available[PartNo(i)]
                = batches[b].available[PartNo(i)] + BackTo(rows, R, <<b, i>>)
  <2>1. BackTo(rows, R, <<b, i>>) = back(b, PartNo(i))
    BY <1>1, <1>4
  <2>2. CASE i = 1
    BY <1>5, <2>1, <2>2 DEF PartNo
  <2>3. CASE i = 2
    BY <1>5, <2>1, <2>3 DEF PartNo
  <2> QED
    BY <2>2, <2>3
<1> QED
  BY <1>5, <1>6, <1>10, <1>11

\* Conservation through the completion of refunds R.
LEMMA CompletionConserves ==
  ASSUME TypeOK, TypeOK', WalletInv, KindsAreConserved, NEW R \in SUBSET RefundIds, IsFiniteSet(R),
         \A r \in R : refunds'[r] \in Refund,
         batches' = Restore(refunds', R), allocations' = allocations,
         MadeIn("SUCCEEDED")' = MadeIn("SUCCEEDED") \cup R, MadeIn("SUCCEEDED") \cap R = {},
         \A r \in MadeIn("SUCCEEDED") : refunds'[r] = refunds[r]
  PROVE  KindsAreConserved'
<1> DEFINE S == MadeIn("SUCCEEDED")
<1>1. /\ Credited' = Credited
      /\ \A b \in Credited, i \in {1, 2} :
           /\ batches'[b].granted = batches[b].granted
           /\ batches'[b].available[PartNo(i)]
                = batches[b].available[PartNo(i)] + BackTo(refunds', R, <<b, i>>)
  BY RestoreRows
<1>2. IsFiniteSet(S) /\ \A r \in S : refunds[r] \in Refund
  BY RefundRows
<1>3. ASSUME NEW b \in Credited, NEW i \in {1, 2}
      PROVE  batches'[b].granted[PartNo(i)] + BackTo(refunds, MadeIn("SUCCEEDED"), <<b, i>>)'
               = batches'[b].available[PartNo(i)] + Taken(b, PartNo(i))'
  <2> DEFINE k == <<b, i>>
  <2>1. b \in Batches /\ k \in Kinds /\ PartNo(i) \in Parts
    BY SourceFacts DEF PartNo, Parts, Credited
  <2>2. Taken(b, PartNo(i))' = Taken(b, PartNo(i))
    BY DEF Taken, From, Holding, With
  <2>3. BackTo(refunds, MadeIn("SUCCEEDED"), k)' = BackTo(refunds', S \cup R, k)
    BY DEF BackTo, Got
  <2>4. BackTo(refunds', S \cup R, k) = BackTo(refunds', S, k) + BackTo(refunds', R, k)
    BY <1>2, <2>1, BackUnion
  <2>5. BackTo(refunds', S, k) = BackTo(refunds, S, k)
    BY BackSame
  <2>6. BackTo(refunds, S, k) \in Nat /\ BackTo(refunds', R, k) \in Nat
    BY <1>2, <2>1, BackType
  <2>7. batches[b].granted[PartNo(i)] + BackTo(refunds, S, k)
          = batches[b].available[PartNo(i)] + Taken(b, PartNo(i))
    BY DEF KindsAreConserved
  <2>8. /\ batches'[b].granted = batches[b].granted
        /\ batches'[b].available[PartNo(i)]
                = batches[b].available[PartNo(i)] + BackTo(refunds', R, k)
    BY <1>1
  <2>9. /\ batches[b].granted[PartNo(i)] \in Nat /\ batches[b].available[PartNo(i)] \in Nat
        /\ Taken(b, PartNo(i)) \in Nat
    <3>1. WalletTypeOK
      BY DEF WalletInv
    <3>2. Taken(b, PartNo(i)) \in Nat
      BY <2>1, <3>1, TakenIsHeldAndSpent
    <3> QED
      BY <2>1, <3>1, <3>2, CreditedRows, PortionType
  <2> HIDE DEF k, S
  <2> QED
    BY <2>2, <2>3, <2>4, <2>5, <2>6, <2>7, <2>8, <2>9 DEF k
<1> QED
  BY <1>1, <1>3 DEF KindsAreConserved

\* The payment status is taken from what succeeded.
LEMMA CompletionRefreshes ==
  ASSUME PaidAsReturned, NEW R, order'.paid = Refreshed(refunds', R), CapturedCents' = CapturedCents,
         R = {} => ReturnedCents' = ReturnedCents
  PROVE  PaidAsReturned'
<1>1. CASE R = {}
  BY <1>1 DEF PaidAsReturned, Refreshed
<1>2. CASE R # {}
  <2> DEFINE all == {r \in RefundIds : refunds'[r] # Nil /\ refunds'[r].status = "SUCCEEDED"}
             cents == SumOf([r \in all |-> refunds'[r].external
                               + SumOf([b \in Batches |-> Cents(refunds'[r].portions[b])])])
  <2>1. all = MadeIn("SUCCEEDED")'
    BY DEF MadeIn, Made
  <2>2. cents = ReturnedCents'
    BY <2>1 DEF ReturnedCents, Amount, WalletPart
  <2>3. Refreshed(refunds', R) = PaidStatus(CapturedCents, cents, cents > 0)
    BY <1>2 DEF Refreshed
  <2> HIDE DEF all, cents
  <2> QED
    BY <2>2, <2>3 DEF PaidAsReturned
<1> QED
  BY <1>1, <1>2

(***************************************************************************)
(* requestOrderRefundGroup                                                 *)
(***************************************************************************)
\* New refunds of group g, one for each payment of `used`, under portions x.
New(g, used) == {r \in RefundIds : r[1] = g /\ r[2] \in used}

RequestFacts(g, cents, x, used, done) ==
  /\ SumOf(cents) \in Nat /\ Captured # {}
  /\ x \in [Sources -> Nat] /\ SumOf(x) = SumOf(cents)
  /\ \A s \in Sources : x[s] <= Left(s)
  /\ used \in SUBSET Captured
  /\ \A p \in Payments \ used, k \in Kinds : x[<<p, k>>] = 0
  /\ \A p \in used, k \in Kinds : Got(RefundRow(p, x), k) = x[<<p, k>>]
  /\ \A p \in used : RefundRow(p, x) \in Refund
  /\ \A r \in RefundIds : refunds'[r] = IF r \in New(g, used) THEN RefundRow(r[2], x) ELSE refunds[r]
  /\ refunds' \in [RefundIds -> Refund \cup {Nil}]
  /\ groups[g] = Nil
  /\ done = {r \in New(g, used) : RefundRow(r[2], x).status = "SUCCEEDED"}
  /\ batches' = Restore(refunds', done)
  /\ order'.paid = Refreshed(refunds', done)

LEMMA RequestRows ==
  ASSUME RefundsInv, NEW g \in Groups, NEW cents \in [Lines -> Asked], NEW drop \in SUBSET Lines,
         RequestRefund(g, cents, drop)
  PROVE  \E x, used, done : RequestFacts(g, cents, x, used, done)
<1> DEFINE total == SumOf(cents)
           x == Portions(total)
           used == IF total = 0 THEN {Min(Captured)}
                   ELSE {p \in Captured : \E s \in Sources : s[1] = p /\ x[s] > 0}
           rows == [r \in RefundIds |-> IF r[1] = g /\ r[2] \in used
                                        THEN RefundRow(r[2], x) ELSE refunds[r]]
           done == {r \in RefundIds : r[1] = g /\ rows[r] # Nil /\ rows[r].status = "SUCCEEDED"}
<1>0. /\ TypeOK /\ PaidFromWallet /\ ReturnsFit /\ PaidAsReturned /\ order \in OrderRow
  BY TypeParts DEF TypeOK
<1>1. /\ groups[g] = Nil /\ Refundable(cents, drop)
      /\ total <= LeftOfAll
      /\ refunds' = rows /\ batches' = Restore(rows, done)
      /\ order' = [order EXCEPT !.revision = @ + 1, !.paid = Refreshed(rows, done),
                      !.status = IF cancelled \cup drop = Lines THEN "CANCELLED" ELSE @]
  BY DEF RequestRefund, LeftOfAll
<1>2. total \in Nat
  <2>1. DOMAIN cents = Lines /\ \A l \in Lines : cents[l] \in Asked
    OBVIOUS
  <2>2. \A l \in DOMAIN cents : cents[l] \in Nat
    BY <2>1, RefundsAssumption
  <2>3. IsAmounts(cents) /\ \A l \in DOMAIN cents : cents[l] >= 0
    BY <2>1, <2>2, RefundsAssumption DEF IsAmounts
  <2> QED
    BY <2>3, SumOfType
<1>3. Captured # {} /\ Captured \subseteq Payments /\ Captured \subseteq Nat
  <2>1. order.paid # "UNPAID"
    BY <1>1 DEF Refundable
  <2> QED
    BY <1>0, <2>1, PaidMeansCaptured, PaymentRows, RefundsAssumption
<1>4. \A s \in Sources : Left(s) = LeftBy(s[1], s[2]) /\ Left(s) \in Nat
  BY <1>0, LeftAsFormula, LeftBySource
<1>5. /\ x \in [Sources -> Nat] /\ SumOf(x) = total
      /\ \A s \in Sources : x[s] <= Left(s)
  BY <1>1, <1>2, <1>4, PortionsFit
<1>6. Min(Captured) \in Captured
  <2>1. PICK m \in Captured : \A n \in Captured : m <= n
    BY <1>3, LeastOf
  <2> QED
    BY <2>1 DEF Min
<1>7. used \in SUBSET Captured
  BY <1>6
<1> HIDE DEF total, x
<1>8. \A p \in Payments \ used, k \in Kinds : x[<<p, k>>] = 0
  <2>1. SUFFICES ASSUME NEW p \in Payments \ used, NEW k \in Kinds PROVE x[<<p, k>>] = 0
    OBVIOUS
  <2>2. <<p, k>> \in Sources /\ x[<<p, k>>] \in Nat
    BY <1>5, SourceFacts
  <2>3. CASE total = 0
    <3>1. IsAmounts(x) /\ DOMAIN x = Sources /\ \A s \in DOMAIN x : x[s] >= 0
      BY <1>5, SourceFacts DEF IsAmounts
    <3>2. x[<<p, k>>] <= SumOver(x, DOMAIN x)
      BY <2>2, <3>1, SumOfNaturals
    <3>3. SumOver(x, DOMAIN x) = 0
      BY <1>5, <2>3, SumIsFold
    <3> QED
      BY <2>2, <3>2, <3>3
  <2>4. CASE total # 0 /\ p \in Captured
    <3>1. ~(x[<<p, k>>] > 0)
      BY <2>1, <2>2, <2>4
    <3> QED
      BY <2>2, <3>1
  <2>5. CASE p \notin Captured
    <3>1. Left(<<p, k>>) = 0
      BY <1>4, <2>2, <2>5 DEF LeftBy
    <3> QED
      BY <1>5, <2>2, <3>1
  <2> QED
    BY <2>3, <2>4, <2>5
<1> HIDE DEF used
<1>9. ASSUME NEW p \in used
      PROVE  /\ RefundRow(p, x) \in Refund
             /\ \A k \in Kinds : Got(RefundRow(p, x), k) = x[<<p, k>>]
  <2> DEFINE row == RefundRow(p, x)
             external == x[<<p, Channel>>]
             portions == [b \in Batches |-> [principal |-> x[<<p, <<b, 1>>>>],
                                             gift      |-> x[<<p, <<b, 2>>>>]]]
  <2>1. row = [status |-> IF external = 0 THEN "SUCCEEDED" ELSE "REQUESTED",
               external |-> external, portions |-> portions, number |-> Nil]
    BY DEF RefundRow, Channel
  <2>2. \A k \in Kinds : <<p, k>> \in Sources /\ x[<<p, k>>] \in Nat
    BY <1>3, <1>5, <1>7, SourceFacts
  <2>3. external \in Nat
    BY <2>2, SourceFacts
  <2>4. portions \in [Batches -> Portion]
    <3>1. \A b \in Batches : x[<<p, <<b, 1>>>>] \in Nat /\ x[<<p, <<b, 2>>>>] \in Nat
      BY <2>2, SourceFacts
    <3> QED
      BY <3>1 DEF Portion
  <2> HIDE DEF row, external, portions
  <2>5. row \in Refund /\ row.external = external /\ row.portions = portions
    BY <2>1, <2>3, <2>4 DEF Refund
  <2>6. ASSUME NEW k \in Kinds PROVE Got(row, k) = x[<<p, k>>]
    <3>1. CASE k = Channel
      <4>1. k[1] \notin Batches
        BY <3>1, SourceFacts
      <4> QED
        BY <2>5, <3>1, <4>1 DEF Got, external
    <3>2. CASE k # Channel
      <4>1. k[1] \in Batches /\ k[2] \in {1, 2} /\ k = <<k[1], k[2]>>
        BY <3>2, SourceFacts
      <4>2. portions[k[1]][PartNo(k[2])] = x[<<p, <<k[1], k[2]>>>>]
        <5>1. CASE k[2] = 1
          BY <4>1, <5>1 DEF portions, PartNo
        <5>2. CASE k[2] = 2
          BY <4>1, <5>2 DEF portions, PartNo
        <5> QED
          BY <4>1, <5>1, <5>2
      <4> QED
        BY <2>5, <4>1, <4>2 DEF Got
    <3> QED
      BY <3>1, <3>2
  <2> QED
    BY <2>5, <2>6 DEF row
<1>10. /\ \A r \in RefundIds : rows[r] = IF r \in New(g, used) THEN RefundRow(r[2], x) ELSE refunds[r]
  BY DEF New
<1>11. rows \in [RefundIds -> Refund \cup {Nil}]
  <2>1. \A r \in RefundIds : rows[r] \in Refund \cup {Nil}
    BY <1>0, <1>9 DEF TypeOK
  <2>2. rows = [r \in RefundIds |-> rows[r]]
    OBVIOUS
  <2> HIDE DEF rows
  <2> QED
    BY <2>1, <2>2
<1>12. done = {r \in New(g, used) : RefundRow(r[2], x).status = "SUCCEEDED"}
  <2>1. ASSUME NEW r \in RefundIds, r[1] = g, r \notin New(g, used) PROVE rows[r] = Nil
    <3>1. rows[r] = refunds[r]
      BY <1>10, <2>1
    <3>2. r \notin Made
      BY <1>0, <1>1, <2>1, RefundRows
    <3> QED
      BY <3>1, <3>2 DEF Made
  <2>2. ASSUME NEW r \in New(g, used)
        PROVE r \in RefundIds /\ r[1] = g /\ rows[r] = RefundRow(r[2], x) /\ rows[r] # Nil
    <3>1. r \in RefundIds /\ r[1] = g /\ r[2] \in used
      BY DEF New
    <3> QED
      BY <1>9, <1>10, <3>1, RefundRowsAssumption
  <2> HIDE DEF rows
  <2>3. New(g, used) \subseteq RefundIds
    BY DEF New
  <2> QED
    BY <2>1, <2>2, <2>3
<1>13. order'.paid = Refreshed(rows, done)
  BY <1>0, <1>1 DEF OrderRow
<1> HIDE DEF rows, done
<1>14. RequestFacts(g, cents, x, used, done)
  BY <1>1, <1>2, <1>3, <1>5, <1>7, <1>8, <1>9, <1>10, <1>11, <1>12, <1>13 DEF RequestFacts, total
<1> QED
  BY <1>14

\* The refunds of the group are added to those that are made.
LEMMA RequestMade ==
  ASSUME TypeOK, NEW g \in Groups, NEW cents, NEW x, NEW used, NEW done,
         RequestFacts(g, cents, x, used, done), payments' = payments
  PROVE  /\ Made' = Made \cup New(g, used) /\ Made \cap New(g, used) = {}
         /\ done \in SUBSET RefundIds /\ IsFiniteSet(done) /\ New(g, used) \subseteq RefundIds
         /\ done \subseteq New(g, used)
         /\ \A r \in Made : refunds'[r] = refunds[r]
         /\ \A r \in New(g, used) : /\ r[1] = g /\ r[2] \in used
                                    /\ refunds'[r] = RefundRow(r[2], x) /\ refunds'[r] \in Refund
         /\ MadeIn("SUCCEEDED")' = MadeIn("SUCCEEDED") \cup done
         /\ MadeIn("SUCCEEDED") \cap done = {}
         /\ Captured' = Captured
         /\ \A p \in Payments : Of(p)' = Of(p) \cup (IF p \in used THEN {<<g, p>>} ELSE {})
         /\ \A p \in used : <<g, p>> \in New(g, used)
<1> DEFINE N == New(g, used)
<1>1. /\ \A r \in N : r \in RefundIds /\ r[1] = g /\ r[2] \in used /\ r = <<g, r[2]>>
  BY DEF New, RefundIds
<1>2. Made \cap N = {} /\ Made \subseteq RefundIds
  BY <1>1, RefundRows DEF RequestFacts
<1>3. \A r \in RefundIds : refunds'[r] = IF r \in N THEN RefundRow(r[2], x) ELSE refunds[r]
  BY DEF RequestFacts
<1>4. \A r \in N : refunds'[r] = RefundRow(r[2], x) /\ refunds'[r] \in Refund /\ refunds'[r] # Nil
  BY <1>1, <1>3, RefundRowsAssumption DEF RequestFacts
<1>5. \A r \in Made : refunds'[r] = refunds[r]
  BY <1>2, <1>3
<1>6. done = {r \in N : refunds'[r].status = "SUCCEEDED"}
  <2>1. done = {r \in N : RefundRow(r[2], x).status = "SUCCEEDED"}
    BY DEF RequestFacts
  <2> QED
    BY <1>4, <2>1
<1>7. \A p \in used : <<g, p>> \in N /\ p \in Payments
  <2>1. used \subseteq Payments
    BY PaymentRows DEF RequestFacts
  <2> QED
    BY <2>1 DEF New, RefundIds
<1> HIDE DEF N
<1>8. Made' = Made \cup N
  <2>1. \A r \in RefundIds : refunds'[r] # Nil <=> refunds[r] # Nil \/ r \in N
    BY <1>3, <1>4
  <2> QED
    BY <1>1, <2>1 DEF Made
<1>9. done \in SUBSET RefundIds /\ IsFiniteSet(done)
  <2>1. done \in SUBSET RefundIds
    BY <1>1, <1>6
  <2> QED
    BY <2>1, RefundRows, FS_Subset
<1>10. MadeIn("SUCCEEDED")' = MadeIn("SUCCEEDED") \cup done
  BY <1>5, <1>6, <1>8 DEF MadeIn
<1>11. MadeIn("SUCCEEDED") \cap done = {}
  BY <1>2, <1>6 DEF MadeIn
<1>12. \A p \in Payments : Of(p)' = Of(p) \cup (IF p \in used THEN {<<g, p>>} ELSE {})
  <2>1. SUFFICES ASSUME NEW p \in Payments
                 PROVE  Of(p)' = Of(p) \cup (IF p \in used THEN {<<g, p>>} ELSE {})
    OBVIOUS
  <2>2. {r \in N : r[2] = p} = IF p \in used THEN {<<g, p>>} ELSE {}
    BY <1>1, <1>7
  <2> QED
    BY <1>8, <2>2 DEF Of
<1>13. Captured' = Captured
  BY DEF Captured
<1> QED
  BY <1>1, <1>2, <1>4, <1>5, <1>6, <1>7, <1>8, <1>9, <1>10, <1>11, <1>12, <1>13 DEF N

\* Of each payment and kind, the new refunds ask back the portion.
LEMMA RequestAsksBack ==
  ASSUME TypeOK, NEW g \in Groups, NEW cents, NEW x, NEW used, NEW done,
         RequestFacts(g, cents, x, used, done), payments' = payments,
         NEW p \in Payments, NEW k \in Kinds
  PROVE  /\ BackTo(refunds, Of(p), k)' = BackTo(refunds, Of(p), k) + x[<<p, k>>]
         /\ BackTo(refunds, Of(p), k) \in Nat /\ x[<<p, k>>] \in Nat
<1> DEFINE R == Of(p)
           r == <<g, p>>
<1>1. /\ IsFiniteSet(R) /\ R \subseteq Made /\ \A q \in R : refunds[q] \in Refund
  BY RefundRows
<1>2. /\ Made \cap New(g, used) = {} /\ \A q \in Made : refunds'[q] = refunds[q]
      /\ Of(p)' = R \cup (IF p \in used THEN {r} ELSE {})
      /\ p \in used => r \in New(g, used)
      /\ \A q \in New(g, used) : refunds'[q] = RefundRow(q[2], x) /\ refunds'[q] \in Refund
  BY RequestMade
<1>3. BackTo(refunds, Of(p), k)' = BackTo(refunds', Of(p)', k)
  BY DEF BackTo, Got
<1>4. BackTo(refunds', R, k) = BackTo(refunds, R, k)
  BY <1>1, <1>2, BackSame
<1>5. BackTo(refunds, R, k) \in Nat
  BY <1>1, BackType
<1>6. x[<<p, k>>] \in Nat
  BY SourceFacts DEF RequestFacts
<1>7. CASE p \in used
  <2>1. /\ r \in New(g, used) /\ r \notin R /\ r[2] = p
        /\ refunds'[r] = RefundRow(p, x) /\ refunds'[r] \in Refund
    BY <1>1, <1>2, <1>7
  <2>2. Got(refunds'[r], k) = x[<<p, k>>]
    BY <1>7, <2>1 DEF RequestFacts
  <2>3. IsFiniteSet(R \cup {r}) /\ (R \cup {r}) \ {r} = R /\ r \in R \cup {r}
    BY <1>1, <2>1, FS_AddElement
  <2>4. \A q \in R \cup {r} : refunds'[q] \in Refund
    BY <1>1, <1>2, <2>1
  <2>5. BackTo(refunds', R \cup {r}, k) = Got(refunds'[r], k) + BackTo(refunds', R, k)
    BY <2>3, <2>4, BackMore
  <2>6. Of(p)' = R \cup {r}
    BY <1>2, <1>7
  <2> HIDE DEF R, r
  <2> QED
    BY <1>3, <1>4, <1>5, <1>6, <2>2, <2>5, <2>6 DEF R
<1>8. CASE p \notin used
  <2>1. Of(p)' = R
    BY <1>2, <1>8
  <2>2. x[<<p, k>>] = 0
    BY <1>8 DEF RequestFacts
  <2> QED
    BY <1>3, <1>4, <1>5, <2>1, <2>2
<1> QED
  BY <1>5, <1>6, <1>7, <1>8

\* A line's cents are no longer left of it.
LEMMA RequestTakesFromLines ==
  ASSUME TypeOK, NEW g \in Groups, groups[g] = Nil, NEW cents \in [Lines -> Nat], NEW drop,
         groups' = [groups EXCEPT ![g] = [lines |-> cents, drop |-> drop]],
         [lines |-> cents, drop |-> drop] # Nil,
         caps' = caps, NEW l \in Lines
  PROVE  /\ Remaining(l)' = Remaining(l) - cents[l]
         /\ Remaining(l) \in Int /\ cents[l] \in Nat
<1> DEFINE row == [lines |-> cents, drop |-> drop]
           f == [h \in GroupsMade |-> groups[h].lines[l]]
           e == [h \in GroupsMade' |-> groups'[h].lines[l]]
<1>1. /\ Remaining(l) \in Int /\ Remaining(l) = caps[l] - AskedOf(l)
      /\ caps[l] \in Nat /\ AskedOf(l) \in Nat /\ IsAmounts(f)
  BY RemainingType
<1>2. Remaining(l)' = caps[l] - AskedOf(l)'
  BY DEF Remaining, AskedOf, GroupsMade
<1>3. groups \in [Groups -> Group \cup {Nil}] /\ row.lines = cents
  BY DEF TypeOK
<1>4. groups' = [groups EXCEPT ![g] = row] /\ row # Nil
  OBVIOUS
<1> HIDE DEF row
<1>5. groups'[g] = row /\ \A h \in Groups \ {g} : groups'[h] = groups[h]
  BY <1>3, <1>4
<1>6. GroupsMade' = GroupsMade \cup {g} /\ g \notin GroupsMade
  BY <1>4, <1>5 DEF GroupsMade
<1>7. /\ DOMAIN f = GroupsMade /\ DOMAIN e = GroupsMade \cup {g} /\ e[g] = cents[l]
      /\ \A h \in GroupsMade : e[h] = f[h]
  BY <1>3, <1>5, <1>6 DEF GroupsMade
<1>8. AskedOf(l) = SumOf(f) /\ AskedOf(l)' = SumOf(e)
  BY DEF AskedOf
<1>9. cents[l] \in Nat
  OBVIOUS
<1> HIDE DEF f, e
<1>10. IsAmounts(e)
  <2>1. IsFiniteSet(GroupsMade \cup {g})
    BY <1>1, <1>7, FS_AddElement DEF IsAmounts
  <2>2. \A h \in GroupsMade \cup {g} : e[h] \in Int
    BY <1>1, <1>7, <1>9 DEF IsAmounts
  <2> QED
    BY <1>7, <2>1, <2>2 DEF IsAmounts
<1>11. SumOf(e) = e[g] + SumOf(f)
  <2>1. DOMAIN f = DOMAIN e \ {g} /\ g \in DOMAIN e
    BY <1>6, <1>7
  <2> QED
    BY <1>1, <1>7, <1>10, <2>1, SumOfMore
<1> QED
  BY <1>1, <1>2, <1>7, <1>8, <1>9, <1>11

LEMMA RequestLines ==
  ASSUME TypeOK, NEW g \in Groups, groups[g] = Nil, NEW cents \in [Lines -> Nat], NEW drop,
         groups' = [groups EXCEPT ![g] = [lines |-> cents, drop |-> drop]],
         [lines |-> cents, drop |-> drop] # Nil, caps' = caps,
         \A l \in Lines : cents[l] <= Remaining(l)
  PROVE  /\ \A l \in Lines : Remaining(l)' >= 0
         /\ RemainingOfAll = RemainingOfAll' + SumOf(cents)
<1> DEFINE f == [l \in Lines |-> Remaining(l)]
           h == [l \in Lines |-> Remaining(l)']
<1>1. \A l \in Lines : /\ Remaining(l)' = Remaining(l) - cents[l]
                       /\ Remaining(l) \in Int /\ cents[l] \in Nat
  BY RequestTakesFromLines
<1>2. \A l \in Lines : Remaining(l)' >= 0 /\ Remaining(l)' \in Int
                       /\ Remaining(l) = Remaining(l)' + cents[l]
  <2>1. SUFFICES ASSUME NEW l \in Lines
                 PROVE  /\ Remaining(l)' >= 0 /\ Remaining(l)' \in Int
                        /\ Remaining(l) = Remaining(l)' + cents[l]
    OBVIOUS
  <2>2. /\ Remaining(l)' = Remaining(l) - cents[l]
        /\ Remaining(l) \in Int /\ cents[l] \in Nat /\ cents[l] <= Remaining(l)
    BY <1>1
  <2> QED
    BY <2>2
<1>3. IsAmounts(f) /\ RemainingOfAll = SumOf(f) /\ RemainingOfAll' = SumOf(h)
  BY RemainingAmounts DEF RemainingOfAll
<1>4. /\ DOMAIN f = Lines /\ DOMAIN h = Lines /\ DOMAIN cents = Lines /\ IsFiniteSet(Lines)
      /\ \A l \in Lines : f[l] = h[l] + cents[l] /\ h[l] \in Int /\ cents[l] \in Int
  BY <1>2, RefundsAssumption
<1> HIDE DEF f, h
<1>5. IsAmounts(h) /\ IsAmounts(cents)
  BY <1>4 DEF IsAmounts
<1>6. SumOf(f) = SumOf(h) + SumOf(cents)
  BY <1>3, <1>4, <1>5, SumOfPlus
<1> QED
  BY <1>2, <1>3, <1>6

\* The portions are no longer left of the sources.
LEMMA RequestSources ==
  ASSUME TypeOK, TypeOK', PaidFromWallet, PaidFromWallet', ReturnsFit,
         NEW g \in Groups, NEW cents, NEW x, NEW used, NEW done,
         RequestFacts(g, cents, x, used, done), UNCHANGED <<payments, allocations>>,
         \A l \in Lines : Remaining(l)' >= 0
  PROVE  ReturnsFit' /\ LeftOfAll = LeftOfAll' + SumOf(cents)
<1>1. Captured' = Captured /\ Captured \subseteq Payments
  BY PaymentRows DEF Captured
<1>2. \A p \in Payments, k \in Kinds :
        /\ BackTo(refunds, Of(p), k)' = BackTo(refunds, Of(p), k) + x[<<p, k>>]
        /\ BackTo(refunds, Of(p), k) \in Nat /\ x[<<p, k>>] \in Nat
  BY RequestAsksBack
<1>3. \A p \in Captured, k \in Kinds : Gave(p, k)' = Gave(p, k) /\ Gave(p, k) \in Nat
  BY GaveType DEF Gave
<1>4. LeftFacts
  BY LeftAsFormula
<1>5. \A p \in Payments, k \in Kinds : x[<<p, k>>] <= LeftBy(p, k) /\ LeftBy(p, k) \in Nat
  <2>1. SUFFICES ASSUME NEW p \in Payments, NEW k \in Kinds
                 PROVE  x[<<p, k>>] <= LeftBy(p, k) /\ LeftBy(p, k) \in Nat
    OBVIOUS
  <2>2. <<p, k>> \in Sources
    BY SourceFacts
  <2>3. x[<<p, k>>] <= Left(<<p, k>>)
    BY <2>2 DEF RequestFacts
  <2> QED
    BY <1>4, <2>3 DEF LeftFacts
<1>6. ReturnsFit'
  <2>1. ASSUME NEW p \in Captured, NEW k \in Kinds
        PROVE  BackTo(refunds, Of(p), k)' <= Gave(p, k)'
    <3>1. LeftBy(p, k) = Gave(p, k) - BackTo(refunds, Of(p), k)
      BY DEF LeftBy
    <3>2. x[<<p, k>>] <= LeftBy(p, k)
      BY <1>1, <1>5
    <3>3. /\ BackTo(refunds, Of(p), k)' = BackTo(refunds, Of(p), k) + x[<<p, k>>]
          /\ BackTo(refunds, Of(p), k) \in Nat /\ x[<<p, k>>] \in Nat
      BY <1>1, <1>2
    <3>4. Gave(p, k)' = Gave(p, k) /\ Gave(p, k) \in Nat
      BY <1>3
    <3> QED
      BY <3>1, <3>2, <3>3, <3>4
  <2> QED
    BY <1>1, <2>1 DEF ReturnsFit
<1>7. LeftFacts'
  <2>1. (TypeOK /\ PaidFromWallet /\ ReturnsFit => LeftFacts)'
    BY LeftAsFormula, PTL
  <2> QED
    BY <1>6, <2>1
<1> DEFINE L == [s \in Sources |-> Left(s)]
           M == [s \in Sources |-> Left(s)']
<1>8. \A s \in Sources : Left(s) = Left(s)' + x[s]
  <2>1. SUFFICES ASSUME NEW s \in Sources PROVE Left(s) = Left(s)' + x[s]
    OBVIOUS
  <2>2. PICK p \in Payments, k \in Kinds : s = <<p, k>>
    BY SourceFacts
  <2>3. Left(s) = LeftBy(p, k) /\ LeftBy(p, k) \in Nat
    BY <1>4, <2>2 DEF LeftFacts
  <2>4. Left(s)' = LeftBy(p, k)'
    BY <1>7, <2>2 DEF LeftFacts
  <2>5. LeftBy(p, k) = LeftBy(p, k)' + x[<<p, k>>]
    <3>1. CASE p \in Captured
      <4>1. LeftBy(p, k) = Gave(p, k) - BackTo(refunds, Of(p), k)
        BY <3>1 DEF LeftBy
      <4>2. LeftBy(p, k)' = Gave(p, k)' - BackTo(refunds, Of(p), k)'
        BY <1>1, <3>1 DEF LeftBy
      <4>3. /\ BackTo(refunds, Of(p), k)' = BackTo(refunds, Of(p), k) + x[<<p, k>>]
            /\ BackTo(refunds, Of(p), k) \in Nat /\ x[<<p, k>>] \in Nat
        BY <1>2
      <4>4. Gave(p, k)' = Gave(p, k) /\ Gave(p, k) \in Nat
        BY <1>3, <3>1
      <4> QED
        BY <4>1, <4>2, <4>3, <4>4
    <3>2. CASE p \notin Captured
      <4>1. LeftBy(p, k) = 0 /\ LeftBy(p, k)' = 0
        BY <1>1, <3>2 DEF LeftBy
      <4>2. x[<<p, k>>] = 0
        BY <1>2, <1>5, <4>1
      <4> QED
        BY <4>1, <4>2
    <3> QED
      BY <3>1, <3>2
  <2> QED
    BY <2>2, <2>3, <2>4, <2>5
<1>9. IsAmounts(L) /\ LeftOfAll = SumOf(L)
  BY <1>4, LeftBySource DEF LeftOfAll
<1>10. IsAmounts(M) /\ LeftOfAll' = SumOf(M)
  <2>1. (LeftFacts => IsAmounts([s \in Sources |-> Left(s)]))'
    BY LeftAmountsAsFormula, PTL
  <2>2. LeftOfAll' = SumOf(M)
    BY DEF LeftOfAll
  <2> QED
    BY <1>7, <2>1, <2>2
<1>11. /\ IsAmounts(x) /\ DOMAIN x = Sources /\ SumOf(x) = SumOf(cents)
  <2>1. x \in [Sources -> Nat] /\ SumOf(x) = SumOf(cents)
    BY DEF RequestFacts
  <2> QED
    BY <2>1, SourceFacts DEF IsAmounts
<1>12. DOMAIN L = Sources /\ DOMAIN M = Sources /\ \A s \in Sources : L[s] = M[s] + x[s]
  BY <1>8
<1> HIDE DEF L, M
<1>13. SumOf(L) = SumOf(M) + SumOf(x)
  BY <1>9, <1>10, <1>11, <1>12, SumOfPlus
<1> QED
  BY <1>6, <1>9, <1>10, <1>11, <1>13

LEMMA RemainingAsFormula == TypeOK => RemainingOfAll \in Int
BY RemainingAmounts

LEMMA LeftSumAsFormula == TypeOK /\ PaidFromWallet /\ ReturnsFit => LeftOfAll \in Nat
BY LeftAsFormula, LeftBySource

LEMMA RequestStep ==
  ASSUME RefundsInv, NEW g \in Groups, NEW cents \in [Lines -> Asked], NEW drop \in SUBSET Lines,
         RequestRefund(g, cents, drop)
  PROVE  RefundsInv'
<1>0. /\ TypeOK /\ WalletInv /\ WalletTypeOK /\ PaidFromWallet /\ InTurn /\ ReturnsFit
      /\ LinesAndSourcesAgree /\ KindsAreConserved /\ PaidAsReturned /\ NumbersBackOneRefund
  BY TypeParts
<1>1. PICK x, used, done : RequestFacts(g, cents, x, used, done)
  BY RequestRows
<1> DEFINE row == [lines |-> cents, drop |-> drop]
<1>2. /\ Waiting = {} /\ groups[g] = Nil
      /\ groups' = [groups EXCEPT ![g] = row] /\ cancelled' = cancelled \cup drop
      /\ order'.status \in {order.status, "CANCELLED"} /\ order' \in OrderRow
      /\ UNCHANGED <<allocations, caps, payments, claims>>
      /\ \A l \in Lines : cents[l] <= Remaining(l)
  <2>1. order \in OrderRow
    BY <1>0 DEF TypeOK
  <2>2. PICK status \in {order.status, "CANCELLED"},
             paid \in {"UNPAID", "PAID", "PARTIALLY_REFUNDED", "REFUNDED"} :
          order' = [order EXCEPT !.revision = @ + 1, !.paid = paid, !.status = status]
    <3>1. \A rows, R : Refreshed(rows, R) \in {"UNPAID", "PAID", "PARTIALLY_REFUNDED", "REFUNDED"}
      BY <2>1, StatusType DEF Refreshed, OrderRow
    <3>2. \E rows, R : order' = [order EXCEPT !.revision = @ + 1, !.paid = Refreshed(rows, R),
                    !.status = IF cancelled \cup drop = Lines THEN "CANCELLED" ELSE @]
      BY DEF RequestRefund
    <3>3. PICK rows, R : order' = [order EXCEPT !.revision = @ + 1, !.paid = Refreshed(rows, R),
                    !.status = IF cancelled \cup drop = Lines THEN "CANCELLED" ELSE @]
      BY <3>2
    <3> DEFINE status == IF cancelled \cup drop = Lines THEN "CANCELLED" ELSE order.status
    <3>4. order' = [order EXCEPT !.revision = @ + 1, !.paid = Refreshed(rows, R), !.status = status]
      BY <2>1, <3>3 DEF OrderRow
    <3>5. status \in {order.status, "CANCELLED"}
      OBVIOUS
    <3> HIDE DEF status
    <3> QED
      BY <3>1, <3>4, <3>5
  <2>3. order.revision + 1 \in Nat \ {0}
    BY <2>1 DEF OrderRow
  <2>4. order' \in OrderRow /\ order'.status = status
    BY <2>1, <2>2, <2>3 DEF OrderRow
  <2> QED
    BY <2>4 DEF RequestRefund, Refundable
<1>3. cents \in [Lines -> Nat] /\ row \in Group /\ row # Nil
  <2>1. cents \in [Lines -> Nat]
    BY RefundsAssumption
  <2> QED
    BY <2>1, RefundRowsAssumption DEF Group
<1>4. /\ Made' = Made \cup New(g, used) /\ Made \cap New(g, used) = {}
      /\ done \in SUBSET RefundIds /\ IsFiniteSet(done) /\ New(g, used) \subseteq RefundIds
      /\ done \subseteq New(g, used)
      /\ \A r \in Made : refunds'[r] = refunds[r]
      /\ \A r \in New(g, used) : /\ r[1] = g /\ r[2] \in used
                                 /\ refunds'[r] = RefundRow(r[2], x) /\ refunds'[r] \in Refund
      /\ MadeIn("SUCCEEDED")' = MadeIn("SUCCEEDED") \cup done
      /\ MadeIn("SUCCEEDED") \cap done = {}
      /\ Captured' = Captured
  BY <1>0, <1>1, <1>2, RequestMade
<1>5. /\ refunds' \in [RefundIds -> Refund \cup {Nil}] /\ used \subseteq Captured /\ Captured # {}
      /\ batches' = Restore(refunds', done) /\ order'.paid = Refreshed(refunds', done)
  BY <1>1 DEF RequestFacts
<1>6. \A r \in done : refunds'[r] \in Refund
  BY <1>4
<1>7. WalletInv'
  BY <1>0, <1>2, <1>4, <1>5, <1>6, RestoreRows
<1>8. TypeOK'
  <2>1. WalletTypeOK'
    BY <1>7 DEF WalletInv
  <2>2. groups' \in [Groups -> Group \cup {Nil}] /\ groups'[g] # Nil
        /\ \A h \in Groups : groups[h] # Nil => groups'[h] # Nil
    <3> HIDE DEF row
    <3>1. groups \in [Groups -> Group \cup {Nil}]
      BY <1>0 DEF TypeOK
    <3> QED
      BY <1>2, <1>3, <3>1
  <2>3. \A r \in Made' : groups'[r[1]] # Nil /\ r[2] \in Captured'
    <3>1. ASSUME NEW r \in Made PROVE groups'[r[1]] # Nil /\ r[2] \in Captured'
      BY <1>0, <1>4, <2>2, RefundRows
    <3>2. ASSUME NEW r \in New(g, used) PROVE groups'[r[1]] # Nil /\ r[2] \in Captured'
      BY <1>4, <1>5, <2>2
    <3> QED
      BY <1>4, <3>1, <3>2
  <2> QED
    BY <1>0, <1>2, <1>5, <2>1, <2>2, <2>3 DEF TypeOK
<1>9. PaidFromWallet'
  BY <1>0, <1>2 DEF PaidFromWallet
<1>10. InTurn'
  <2>1. Waiting' = {} /\ Started' = Started
    BY <1>2 DEF Waiting, Started
  <2>2. order'.status # "HELD"
    BY <1>0, <1>2, <1>5 DEF InTurn
  <2>3. \A p \in Started : payments'[p] = payments[p] /\ Price(p)' = Price(p)
    BY <1>2 DEF Price
  <2> QED
    BY <1>0, <1>4, <1>5, <2>1, <2>2, <2>3 DEF InTurn
<1>11. /\ \A l \in Lines : Remaining(l)' >= 0
       /\ RemainingOfAll = RemainingOfAll' + SumOf(cents)
  BY <1>0, <1>2, <1>3, RequestLines
<1>12. ReturnsFit' /\ LeftOfAll = LeftOfAll' + SumOf(cents)
  BY <1>0, <1>1, <1>2, <1>8, <1>9, <1>11, RequestSources
<1>13. LinesAndSourcesAgree'
  <2>1. SumOf(cents) \in Nat
    BY <1>1 DEF RequestFacts
  <2>2. RemainingOfAll = LeftOfAll
    BY <1>0, <1>5 DEF LinesAndSourcesAgree
  <2>3. RemainingOfAll' \in Int
    <3>1. (TypeOK => RemainingOfAll \in Int)'
      BY RemainingAsFormula, PTL
    <3> QED
      BY <1>8, <3>1
  <2>4. LeftOfAll' \in Nat
    <3>1. (TypeOK /\ PaidFromWallet /\ ReturnsFit => LeftOfAll \in Nat)'
      BY LeftSumAsFormula, PTL
    <3> QED
      BY <1>8, <1>9, <1>12, <3>1
  <2>5. RemainingOfAll' = LeftOfAll'
    BY <1>11, <1>12, <2>1, <2>2, <2>3, <2>4
  <2> QED
    BY <2>5 DEF LinesAndSourcesAgree
<1>14. KindsAreConserved'
  <2>1. \A r \in MadeIn("SUCCEEDED") : refunds'[r] = refunds[r]
    BY <1>4 DEF MadeIn
  <2> QED
    BY <1>0, <1>2, <1>4, <1>5, <1>6, <1>8, <2>1, CompletionConserves
<1>15. PaidAsReturned'
  <2>1. CapturedCents' = CapturedCents
    BY <1>2, <1>4 DEF CapturedCents, Price
  <2>2. done = {} => ReturnedCents' = ReturnedCents
    <3>1. \A r \in MadeIn("SUCCEEDED") : Amount(r)' = Amount(r)
      BY <1>4 DEF MadeIn, Amount, WalletPart
    <3> QED
      BY <1>4, <3>1 DEF ReturnedCents
  <2> QED
    BY <1>0, <1>5, <2>1, <2>2, CompletionRefreshes
<1>16. NumbersBackOneRefund'
  <2>1. ASSUME NEW r \in MadeIn("SUCCEEDED")', refunds'[r].external > 0
        PROVE  refunds'[r].number # Nil /\ claims'[refunds'[r].number] = r
    <3>1. CASE r \in MadeIn("SUCCEEDED")
      <4>1. refunds'[r] = refunds[r]
        BY <1>4, <3>1 DEF MadeIn
      <4> QED
        BY <1>0, <1>2, <2>1, <3>1, <4>1 DEF NumbersBackOneRefund
    <3>2. CASE r \in done
      <4>1. refunds'[r] = RefundRow(r[2], x) /\ RefundRow(r[2], x).status = "SUCCEEDED"
        BY <1>1, <1>4, <3>2 DEF RequestFacts
      <4>2. refunds'[r].external = 0
        BY <4>1 DEF RefundRow
      <4> QED
        BY <2>1, <4>2
    <3> QED
      BY <1>4, <3>1, <3>2
  <2> QED
    BY <2>1 DEF NumbersBackOneRefund
<1> QED
  BY <1>7, <1>8, <1>9, <1>10, <1>12, <1>13, <1>14, <1>15, <1>16 DEF RefundsInv

(***************************************************************************)
(* The channel's answers for a refund.                                     *)
(***************************************************************************)
\* The answer changes only the state of one refund: amounts stay as they are.
LEMMA AnswerFacts ==
  ASSUME RefundsInv, SameRefunds, UNCHANGED <<allocations, caps, payments, groups>>,
         WalletInv', order' \in OrderRow, order'.status = order.status, cancelled' = cancelled,
         refunds' \in [RefundIds -> Refund \cup {Nil}],
         claims' \in [Numbers -> RefundIds \cup {Nil}]
  PROVE  /\ TypeOK' /\ PaidFromWallet' /\ InTurn' /\ ReturnsFit' /\ LinesAndSourcesAgree'
         /\ CapturedCents' = CapturedCents
<1>0. /\ TypeOK /\ PaidFromWallet /\ InTurn /\ ReturnsFit /\ LinesAndSourcesAgree
  BY TypeParts
<1>1. Captured' = Captured /\ Started' = Started /\ Waiting' = Waiting /\ Made' = Made
  BY <1>0, SameBack DEF Captured, Waiting, Started
<1>2. TypeOK'
  <2>1. WalletTypeOK'
    BY DEF WalletInv
  <2> QED
    BY <1>0, <1>1, <2>1 DEF TypeOK
<1>3. PaidFromWallet'
  BY <1>0 DEF PaidFromWallet
<1>4. InTurn'
  <2>1. \A p \in Started : Price(p)' = Price(p)
    BY DEF Price
  <2> QED
    BY <1>0, <1>1, <2>1 DEF InTurn
<1>5. ReturnsFit' /\ LinesAndSourcesAgree' /\ CapturedCents' = CapturedCents
  BY <1>0, <1>1, <1>2, <1>3, QuietStep
<1> QED
  BY <1>2, <1>3, <1>4, <1>5

LEMMA SuccessStep ==
  ASSUME RefundsInv, NEW r \in RefundIds, NEW n \in Numbers, SettleRefundSuccess(r, n)
  PROVE  RefundsInv'
<1> DEFINE row == [refunds[r] EXCEPT !.status = "SUCCEEDED", !.number = n]
<1>0. /\ TypeOK /\ WalletInv /\ KindsAreConserved /\ PaidAsReturned /\ NumbersBackOneRefund
      /\ refunds \in [RefundIds -> Refund \cup {Nil}]
      /\ claims \in [Numbers -> RefundIds \cup {Nil}] /\ order \in OrderRow
  BY TypeParts DEF TypeOK
<1>1. /\ r \in Made /\ refunds[r] \in Refund /\ refunds[r] # Nil /\ refunds[r].status # "SUCCEEDED"
      /\ claims[n] \in {Nil, r} /\ claims' = [claims EXCEPT ![n] = r]
      /\ refunds' = [refunds EXCEPT ![r].status = "SUCCEEDED", ![r].number = n]
      /\ batches' = Restore(refunds', {r})
      /\ order' = [order EXCEPT !.paid = Refreshed(refunds', {r})]
      /\ UNCHANGED <<allocations, cancelled, caps, payments, groups>>
  BY <1>0, RefundRows DEF SettleRefundSuccess, Claimable
<1>2. /\ refunds'[r] = row /\ \A q \in RefundIds \ {r} : refunds'[q] = refunds[q]
      /\ refunds' = [q \in RefundIds |-> refunds'[q]]
  BY <1>0, <1>1
<1>3. /\ row \in Refund /\ row # Nil /\ row.external = refunds[r].external
      /\ row.portions = refunds[r].portions /\ row.number = n /\ row.status = "SUCCEEDED"
  <2>1. /\ row \in Refund /\ row.external = refunds[r].external
        /\ row.portions = refunds[r].portions /\ row.number = n /\ row.status = "SUCCEEDED"
    BY <1>1 DEF Refund
  <2> QED
    BY <2>1, RefundRowsAssumption
<1> HIDE DEF row
<1>4. refunds' \in [RefundIds -> Refund \cup {Nil}]
  <2>1. \A q \in RefundIds : refunds'[q] \in Refund \cup {Nil}
    BY <1>0, <1>2, <1>3
  <2> QED
    BY <1>2, <2>1
<1>5. claims' \in [Numbers -> RefundIds \cup {Nil}]
  BY <1>0, <1>1
<1>6. SameRefunds
  BY <1>1, <1>2, <1>3 DEF SameRefunds
<1>7. WalletInv'
  <2>1. {r} \in SUBSET RefundIds /\ IsFiniteSet({r}) /\ \A q \in {r} : refunds'[q] \in Refund
    BY <1>2, <1>3, FS_Singleton
  <2> QED
    BY <1>0, <1>1, <2>1, RestoreRows
<1>8. /\ order' \in OrderRow /\ order'.status = order.status
      /\ order'.paid = Refreshed(refunds', {r})
  <2>1. Refreshed(refunds', {r}) \in {"UNPAID", "PAID", "PARTIALLY_REFUNDED", "REFUNDED"}
    BY StatusType DEF Refreshed
  <2> QED
    BY <1>0, <1>1, <2>1 DEF OrderRow
<1>9. /\ TypeOK' /\ PaidFromWallet' /\ InTurn' /\ ReturnsFit' /\ LinesAndSourcesAgree'
      /\ CapturedCents' = CapturedCents
  BY <1>1, <1>4, <1>5, <1>6, <1>7, <1>8, AnswerFacts
<1>10. Made' = Made
  BY <1>0, <1>6, SameBack
<1>11. /\ MadeIn("SUCCEEDED")' = MadeIn("SUCCEEDED") \cup {r} /\ r \notin MadeIn("SUCCEEDED")
       /\ \A q \in MadeIn("SUCCEEDED") : refunds'[q] = refunds[q]
  <2>1. r \notin MadeIn("SUCCEEDED") /\ MadeIn("SUCCEEDED") \subseteq RefundIds
    BY <1>1 DEF MadeIn, Made
  <2>2. \A q \in MadeIn("SUCCEEDED") : refunds'[q] = refunds[q]
    BY <1>2, <2>1
  <2>3. \A q \in Made : q \in MadeIn("SUCCEEDED")' <=> q \in MadeIn("SUCCEEDED") \cup {r}
    <3>1. \A q \in Made : q \in RefundIds
      BY DEF Made
    <3> QED
      BY <1>2, <1>3, <1>10, <3>1 DEF MadeIn
  <2>4. MadeIn("SUCCEEDED")' \subseteq Made /\ MadeIn("SUCCEEDED") \cup {r} \subseteq Made
    BY <1>1, <1>10 DEF MadeIn
  <2> QED
    BY <2>1, <2>2, <2>3, <2>4
<1>12. KindsAreConserved'
  <2>1. {r} \in SUBSET RefundIds /\ IsFiniteSet({r}) /\ \A q \in {r} : refunds'[q] \in Refund
    BY <1>2, <1>3, FS_Singleton
  <2>2. MadeIn("SUCCEEDED") \cap {r} = {}
    BY <1>11
  <2> QED
    BY <1>0, <1>1, <1>9, <1>11, <2>1, <2>2, CompletionConserves
<1>13. PaidAsReturned'
  BY <1>0, <1>8, <1>9, CompletionRefreshes
<1>14. NumbersBackOneRefund'
  <2>1. ASSUME NEW q \in MadeIn("SUCCEEDED")', refunds'[q].external > 0
        PROVE  refunds'[q].number # Nil /\ claims'[refunds'[q].number] = q
    <3>1. CASE q = r
      BY <1>0, <1>1, <1>2, <1>3, <3>1, RefundRowsAssumption
    <3>2. CASE q # r
      <4>1. q \in MadeIn("SUCCEEDED") /\ refunds'[q] = refunds[q]
        BY <1>11, <3>2
      <4>2. q \in RefundIds /\ refunds[q] \in Refund
        BY <1>0, <4>1, RefundRows
      <4>3. refunds[q].number # Nil /\ claims[refunds[q].number] = q
        BY <1>0, <2>1, <4>1 DEF NumbersBackOneRefund
      <4>4. refunds[q].number \in Numbers
        BY <4>2, <4>3 DEF Refund
      <4>5. refunds[q].number # n
        BY <1>1, <3>2, <4>2, <4>3, RefundRowsAssumption
      <4> QED
        BY <1>0, <1>1, <4>1, <4>3, <4>4, <4>5
    <3> QED
      BY <3>1, <3>2
  <2> QED
    BY <2>1 DEF NumbersBackOneRefund
<1> QED
  BY <1>7, <1>9, <1>12, <1>13, <1>14 DEF RefundsInv

\* A refund fails, or is asked for again: nothing comes back.
LEMMA OpenStep ==
  ASSUME RefundsInv, NEW r \in RefundIds, NEW status \in {"REQUESTED", "FAILED"},
         r \in Made, refunds[r].status # "SUCCEEDED",
         refunds' = [refunds EXCEPT ![r].status = status],
         UNCHANGED <<walletVars, order, cancelled, caps, payments, groups, claims>>
  PROVE  RefundsInv'
<1> DEFINE row == [refunds[r] EXCEPT !.status = status]
<1>0. /\ TypeOK /\ WalletInv /\ KindsAreConserved /\ PaidAsReturned /\ NumbersBackOneRefund
      /\ refunds \in [RefundIds -> Refund \cup {Nil}]
      /\ claims \in [Numbers -> RefundIds \cup {Nil}] /\ order \in OrderRow
  BY TypeParts DEF TypeOK
<1>1. refunds[r] \in Refund /\ refunds[r] # Nil
  BY <1>0, RefundRows
<1>2. /\ refunds'[r] = row /\ \A q \in RefundIds \ {r} : refunds'[q] = refunds[q]
      /\ refunds' = [q \in RefundIds |-> refunds'[q]]
  BY <1>0
<1>3. /\ row \in Refund /\ row # Nil /\ row.external = refunds[r].external
      /\ row.portions = refunds[r].portions /\ row.status = status
  <2>1. /\ row \in Refund /\ row.external = refunds[r].external
        /\ row.portions = refunds[r].portions /\ row.status = status
    BY <1>1 DEF Refund
  <2> QED
    BY <2>1, RefundRowsAssumption
<1> HIDE DEF row
<1>4. refunds' \in [RefundIds -> Refund \cup {Nil}]
  <2>1. \A q \in RefundIds : refunds'[q] \in Refund \cup {Nil}
    BY <1>0, <1>2, <1>3
  <2> QED
    BY <1>2, <2>1
<1>5. SameRefunds
  BY <1>1, <1>2, <1>3 DEF SameRefunds
<1>6. WalletInv' /\ Moves
  BY <1>0, StayingMoves
<1>7. /\ TypeOK' /\ PaidFromWallet' /\ InTurn' /\ ReturnsFit' /\ LinesAndSourcesAgree'
      /\ CapturedCents' = CapturedCents
  <2>1. UNCHANGED <<allocations, caps, payments, groups>>
    BY DEF walletVars
  <2> QED
    BY <1>0, <1>4, <1>5, <1>6, <2>1, AnswerFacts
<1>8. /\ MadeIn("SUCCEEDED")' = MadeIn("SUCCEEDED")
      /\ \A q \in MadeIn("SUCCEEDED") : refunds'[q] = refunds[q]
  <2>1. Made' = Made /\ Made \subseteq RefundIds
    BY <1>0, <1>5, SameBack, RefundRows
  <2>2. refunds'[r].status # "SUCCEEDED"
    BY <1>2, <1>3
  <2>3. \A q \in Made : q \in MadeIn("SUCCEEDED")' <=> q \in MadeIn("SUCCEEDED")
    BY <1>2, <2>1, <2>2 DEF MadeIn
  <2>4. MadeIn("SUCCEEDED")' \subseteq Made /\ MadeIn("SUCCEEDED") \subseteq Made
    BY <2>1 DEF MadeIn
  <2>5. r \notin MadeIn("SUCCEEDED")
    BY DEF MadeIn
  <2> QED
    BY <1>2, <2>1, <2>3, <2>4, <2>5
<1>9. KindsAreConserved'
  BY <1>0, <1>5, <1>6, <1>8, MovesConserve
<1>10. PaidAsReturned'
  <2>1. ReturnedCents' = ReturnedCents
    BY <1>0, <1>5, <1>8, ReturnedStays
  <2> QED
    BY <1>0, <1>7, <2>1 DEF PaidAsReturned
<1>11. NumbersBackOneRefund'
  BY <1>0, <1>8 DEF NumbersBackOneRefund
<1> QED
  BY <1>6, <1>7, <1>9, <1>10, <1>11 DEF RefundsInv

(***************************************************************************)
(* The invariant holds of every behaviour.                                 *)
(***************************************************************************)
LEMMA RefundsStart ==
  ASSUME Init
  PROVE  RefundsInv
<1>1. WalletInv /\ Credited = {}
  BY WalletStart DEF Init
<1>2. /\ Made = {} /\ Captured = {} /\ Started = {} /\ Waiting = {} /\ MadeIn("SUCCEEDED") = {}
      /\ allocations = [p \in Payments |-> Nil] /\ caps = LineCents
      /\ order = [status |-> "HELD", paid |-> "UNPAID", revision |-> 1]
      /\ \A p \in Payments : payments[p] = Nil
      /\ \A g \in Groups : groups[g] = Nil
  BY DEF Init, WalletInit, Made, MadeIn, Captured, Started, Waiting
<1>3. TypeOK
  <2>1. WalletTypeOK
    BY <1>1 DEF WalletInv
  <2>2. order \in OrderRow
    BY <1>2 DEF OrderRow
  <2> QED
    BY <1>2, <2>1, <2>2, RefundsAssumption DEF Init, TypeOK
<1>4. PaidFromWallet
  BY <1>2 DEF PaidFromWallet
<1>5. InTurn
  BY <1>2 DEF InTurn
<1>6. ReturnsFit /\ LinesAndSourcesAgree
  BY <1>2, <1>3, NothingAsked DEF ReturnsFit, LinesAndSourcesAgree
<1>7. KindsAreConserved /\ NumbersBackOneRefund
  BY <1>1, <1>2 DEF KindsAreConserved, NumbersBackOneRefund
<1>8. PaidAsReturned
  <2> DEFINE f == [p \in Captured |-> Price(p)]
  <2>1. DOMAIN f = {} /\ CapturedCents = SumOf(f)
    BY <1>2 DEF CapturedCents
  <2> HIDE DEF f
  <2>2. IsAmounts(f)
    BY <2>1, FS_EmptySet DEF IsAmounts
  <2>3. CapturedCents = 0
    BY <2>1, <2>2, SumOfType
  <2> QED
    BY <1>2, <2>3 DEF PaidAsReturned, PaidStatus
<1> QED
  BY <1>1, <1>3, <1>4, <1>5, <1>6, <1>7, <1>8 DEF RefundsInv

LEMMA RefundsStay ==
  ASSUME RefundsInv, UNCHANGED vars
  PROVE  RefundsInv'
<1>0. /\ TypeOK /\ WalletInv /\ WalletTypeOK /\ PaidFromWallet /\ InTurn /\ ReturnsFit
      /\ LinesAndSourcesAgree /\ KindsAreConserved /\ PaidAsReturned /\ NumbersBackOneRefund
  BY TypeParts
<1>1. /\ UNCHANGED walletVars /\ UNCHANGED refundVars
      /\ UNCHANGED <<allocations, order, cancelled, caps, payments, groups, refunds, claims>>
  BY DEF vars, walletVars, refundVars
<1>2. WalletInv' /\ Moves
  BY <1>0, <1>1, StayingMoves
<1>3. NumbersBackOneRefund' /\ SameRefunds
  BY <1>0, <1>1, NumbersStay
<1>4. /\ TypeOK' /\ PaidFromWallet' /\ InTurn' /\ ReturnsFit' /\ LinesAndSourcesAgree'
      /\ CapturedCents' = CapturedCents
  <2>1. /\ order' \in OrderRow /\ refunds' \in [RefundIds -> Refund \cup {Nil}]
        /\ claims' \in [Numbers -> RefundIds \cup {Nil}] /\ order'.status = order.status
    BY <1>0, <1>1 DEF TypeOK
  <2> QED
    BY <1>1, <1>2, <1>3, <2>1, AnswerFacts
<1>5. MadeIn("SUCCEEDED")' = MadeIn("SUCCEEDED")
  BY <1>1 DEF MadeIn, Made
<1>6. KindsAreConserved'
  BY <1>0, <1>2, <1>3, <1>5, MovesConserve
<1>7. PaidAsReturned'
  <2>1. ReturnedCents' = ReturnedCents
    BY <1>0, <1>3, <1>5, ReturnedStays
  <2> QED
    BY <1>0, <1>1, <1>4, <2>1 DEF PaidAsReturned
<1> QED
  BY <1>2, <1>3, <1>4, <1>6, <1>7 DEF RefundsInv

LEMMA RefundsStep ==
  ASSUME RefundsInv, Next
  PROVE  RefundsInv'
<1>1. CASE TopUp
  BY <1>1, TopUpStep
<1>2. ASSUME NEW p \in Payments, NEW w \in Amounts, PayOrder(p, w) PROVE RefundsInv'
  <2>1. w \in Nat /\ SumOf(LineCents) \in Nat
    BY WalletAssumption, LineSum
  <2>2. BeginPayment(p, Nil, SumOf(LineCents), w) /\ order.status = "HELD"
    BY <1>2 DEF PayOrder
  <2> QED
    BY <2>1, <2>2, BeginStep
<1>3. ASSUME NEW p \in Payments, NEW l \in Lines, NEW amount \in Supplements, NEW w \in Amounts,
             PaySupplement(p, l, amount, w)
      PROVE  RefundsInv'
  <2>1. w \in Nat /\ amount \in Nat /\ l # Nil
    BY WalletAssumption, RefundsAssumption, RefundRowsAssumption
  <2>2. BeginPayment(p, l, amount, w) /\ order.status = "CONFIRMED"
    BY <1>3 DEF PaySupplement
  <2> QED
    BY <2>1, <2>2, BeginStep
<1>4. ASSUME NEW p \in Payments, NEW succeeds \in BOOLEAN, SettlePayment(p, succeeds)
      PROVE  RefundsInv'
  BY <1>4, SettleStep
<1>5. ASSUME NEW g \in Groups, NEW cents \in [Lines -> Asked], NEW drop \in SUBSET Lines,
             RequestRefund(g, cents, drop)
      PROVE  RefundsInv'
  BY <1>5, RequestStep
<1>6. ASSUME NEW r \in RefundIds, NEW n \in Numbers, SettleRefundSuccess(r, n)
      PROVE  RefundsInv'
  BY <1>6, SuccessStep
<1>7. ASSUME NEW r \in RefundIds, SettleRefundFailure(r) PROVE RefundsInv'
  BY <1>7, OpenStep DEF SettleRefundFailure, Failable
<1>8. ASSUME NEW r \in RefundIds, RetryFailedRefund(r) PROVE RefundsInv'
  BY <1>8, OpenStep DEF RetryFailedRefund, MadeIn
<1> QED
  BY <1>1, <1>2, <1>3, <1>4, <1>5, <1>6, <1>7, <1>8 DEF Next

\* The invariant of an order's refunds: every kind of money a payment gave covers
\* what refunds ask back of it, the lines and the sources agree on what is left,
\* and batches are conserved kind by kind (refunds.ts, channel-refunds.ts,
\* wallet-store.ts).
THEOREM RefundsInvariant == Spec => []RefundsInv
<1>1. Init => RefundsInv
  BY RefundsStart
<1>2. RefundsInv /\ [Next]_vars => RefundsInv'
  BY RefundsStep, RefundsStay
<1> QED
  BY <1>1, <1>2, PTL DEF Spec

\* Every row stays a row of its table, and a refund returns money of a captured payment.
THEOREM TypesHold == Spec => []TypeOK
<1>1. RefundsInv => TypeOK
  BY TypeParts
<1> QED
  BY <1>1, RefundsInvariant, PTL

\* refunds.ts: however often refunds of an order fail and are asked for again, they
\* never ask more back of a source than it gave, nor of a line than was paid for it.
THEOREM NothingIsReturnedTwiceHolds == Spec => []NothingIsReturnedTwice
<1>1. RefundsInv => NothingIsReturnedTwice
  BY NothingTwice
<1> QED
  BY <1>1, RefundsInvariant, PTL

\* What refundableLines leaves to the lines is what is left of the sources: allocateCents
\* always finds room for the amount an employee may ask for.
THEOREM LinesAgreeWithSourcesHolds == Spec => []LinesAgreeWithSources
<1>1. RefundsInv => LinesAgreeWithSources
  BY Agree
<1> QED
  BY <1>1, RefundsInvariant, PTL

\* completeRefund brings principal and gift back to the batch they came from, once.
THEOREM BatchesAreConservedHolds == Spec => []BatchesAreConserved
<1>1. RefundsInv => BatchesAreConserved
  BY Conserved
<1> QED
  BY <1>1, RefundsInvariant, PTL

\* The balance stays within MaxCents although spent money returns after later top-ups.
THEOREM BalanceFitsHolds == Spec => []BalanceFits
<1>1. RefundsInv => BalanceFits
  BY Fits
<1> QED
  BY <1>1, RefundsInvariant, PTL

\* refreshOrderPaymentStatus is called wherever it must be: the status says what came back.
THEOREM StatusFollowsMoneyHolds == Spec => []StatusFollowsMoney
<1>1. RefundsInv => StatusFollowsMoney
  BY TypeParts DEF StatusFollowsMoney, PaidAsReturned
<1> QED
  BY <1>1, RefundsInvariant, PTL

\* A refund that needed the channel succeeded under a number that backs no other refund.
THEOREM NumbersBackOneRefundHolds == Spec => []NumbersBackOneRefund
<1>1. RefundsInv => NumbersBackOneRefund
  BY TypeParts
<1> QED
  BY <1>1, RefundsInvariant, PTL

(***************************************************************************)
(* How a payment takes from the batches.                                   *)
(***************************************************************************)
\* Only reserveWallet makes an allocation.
LEMMA OnlyReserving ==
  ASSUME RefundsInv, [Next]_vars, NEW q \in Payments, allocations[q] = Nil, allocations'[q] # Nil
  PROVE  \E amount \in Nat, atOnce \in BOOLEAN : ReserveWallet(q, amount, atOnce)
<1>0. TypeOK /\ WalletInv /\ WalletTypeOK
  BY TypeParts
<1>1. ASSUME NEW p \in Payments, NEW l, NEW amount \in Nat, NEW w \in Nat,
             BeginPayment(p, l, amount, w)
      PROVE  \E n \in Nat, atOnce \in BOOLEAN : ReserveWallet(q, n, atOnce)
  <2>1. IF w > 0 THEN ReserveWallet(p, w, w = amount) ELSE UNCHANGED walletVars
    BY <1>1 DEF BeginPayment
  <2>2. w > 0 /\ ReserveWallet(p, w, w = amount)
    BY <2>1 DEF walletVars
  <2>3. q = p
    BY <1>0, <2>2 DEF WalletTypeOK, ReserveWallet
  <2>4. (w = amount) \in BOOLEAN
    OBVIOUS
  <2> QED
    BY <2>2, <2>3, <2>4
<1>2. ASSUME NEW p \in Payments, NEW w \in Amounts, PayOrder(p, w)
      PROVE  \E n \in Nat, atOnce \in BOOLEAN : ReserveWallet(q, n, atOnce)
  <2>1. w \in Nat /\ SumOf(LineCents) \in Nat
    BY WalletAssumption, LineSum
  <2>2. BeginPayment(p, Nil, SumOf(LineCents), w)
    BY <1>2 DEF PayOrder
  <2> QED
    BY <1>1, <2>1, <2>2
<1>3. ASSUME NEW p \in Payments, NEW l \in Lines, NEW amount \in Supplements, NEW w \in Amounts,
             PaySupplement(p, l, amount, w)
      PROVE  \E n \in Nat, atOnce \in BOOLEAN : ReserveWallet(q, n, atOnce)
  <2>1. w \in Nat /\ amount \in Nat
    BY WalletAssumption, RefundsAssumption
  <2>2. BeginPayment(p, l, amount, w)
    BY <1>3 DEF PaySupplement
  <2> QED
    BY <1>1, <2>1, <2>2
<1>4. ASSUME NEW p \in Payments, NEW succeeds \in BOOLEAN, SettlePayment(p, succeeds)
      PROVE  FALSE
  <2>1. CASE payments[p].wallet > 0
    <3>1. SettleWalletReservation(p, succeeds)
      BY <1>4, <2>1 DEF SettlePayment
    <3>2. q # p /\ allocations'[q] = allocations[q]
      BY <1>0, <3>1 DEF WalletTypeOK, SettleWalletReservation, Settles
    <3> QED
      BY <3>2
  <2>2. CASE ~(payments[p].wallet > 0)
    BY <1>4, <2>2 DEF SettlePayment, walletVars
  <2> QED
    BY <2>1, <2>2
<1>5. ASSUME allocations' = allocations PROVE FALSE
  BY <1>5
<1>6. ASSUME TopUp PROVE FALSE
  BY <1>5, <1>6 DEF TopUp, CreditWalletBatch
<1>7. ASSUME NEW g \in Groups, NEW cents \in [Lines -> Asked], NEW drop \in SUBSET Lines,
             RequestRefund(g, cents, drop)
      PROVE  FALSE
  BY <1>5, <1>7 DEF RequestRefund
<1>8. ASSUME NEW r \in RefundIds, NEW n \in Numbers, SettleRefundSuccess(r, n)
      PROVE  FALSE
  BY <1>5, <1>8 DEF SettleRefundSuccess
<1>9. ASSUME NEW r \in RefundIds, SettleRefundFailure(r) \/ RetryFailedRefund(r)
      PROVE  FALSE
  BY <1>5, <1>9 DEF SettleRefundFailure, RetryFailedRefund, walletVars
<1>10. ASSUME UNCHANGED vars PROVE FALSE
  BY <1>5, <1>10 DEF vars, walletVars
<1> QED
  BY <1>2, <1>3, <1>4, <1>6, <1>7, <1>8, <1>9, <1>10 DEF Next

LEMMA StepTakesOldestFirst ==
  ASSUME RefundsInv, [Next]_vars
  PROVE  \A p \in Payments : allocations[p] = Nil /\ allocations'[p] # Nil =>
           \A b \in Credited : Cents(allocations'[p].portions[b]) > 0 =>
             \A a \in Credited : batches[a].credited < batches[b].credited =>
               Cents(batches'[a].available) = 0
<1> SUFFICES ASSUME NEW p \in Payments, allocations[p] = Nil, allocations'[p] # Nil,
                    NEW b \in Credited, Cents(allocations'[p].portions[b]) > 0,
                    NEW a \in Credited, batches[a].credited < batches[b].credited
             PROVE  Cents(batches'[a].available) = 0
  OBVIOUS
<1>1. PICK amount \in Nat, atOnce \in BOOLEAN : ReserveWallet(p, amount, atOnce)
  BY OnlyReserving
<1> QED
  BY <1>1, TypeParts, ReserveIsOldestFirst

LEMMA StepSharesFairly ==
  ASSUME RefundsInv, [Next]_vars
  PROVE  \A p \in Payments : allocations[p] = Nil /\ allocations'[p] # Nil =>
           \A b \in Credited :
             LET x     == allocations'[p].portions[b]
                 exact == Cents(x) * batches[b].granted.principal
                 whole == Cents(batches[b].granted)
             IN /\ x.principal * whole >= exact + whole => batches'[b].available.gift = 0
                /\ x.principal * whole <= exact - whole => batches'[b].available.principal = 0
<1> SUFFICES ASSUME NEW p \in Payments, allocations[p] = Nil, allocations'[p] # Nil, NEW b \in Credited
             PROVE  LET x     == allocations'[p].portions[b]
                        exact == Cents(x) * batches[b].granted.principal
                        whole == Cents(batches[b].granted)
                    IN /\ x.principal * whole >= exact + whole => batches'[b].available.gift = 0
                       /\ x.principal * whole <= exact - whole => batches'[b].available.principal = 0
  OBVIOUS
<1>1. PICK amount \in Nat, atOnce \in BOOLEAN : ReserveWallet(p, amount, atOnce)
  BY OnlyReserving
<1> QED
  BY <1>1, TypeParts, ReserveIsFair

\* wallet-payments.md, allocateWalletDebit: a payment touches a batch only when it
\* leaves nothing in the batches credited before.
THEOREM OldestFirstHolds == Spec => OldestFirst
<1>1. RefundsInv /\ [Next]_vars =>
        [\A p \in Payments : allocations[p] = Nil /\ allocations'[p] # Nil =>
           \A b \in Credited : Cents(allocations'[p].portions[b]) > 0 =>
             \A a \in Credited : batches[a].credited < batches[b].credited =>
               Cents(batches'[a].available) = 0]_walletVars
  BY StepTakesOldestFirst
<1> QED
  BY <1>1, RefundsInvariant, PTL DEF Spec, OldestFirst

\* allocateCents in allocateWalletDebit: principal and gift of a batch are taken in its
\* proportion, but for a cent, until one of them is used up.
THEOREM SharesAreFairHolds == Spec => SharesAreFair
<1>1. RefundsInv /\ [Next]_vars =>
        [\A p \in Payments : allocations[p] = Nil /\ allocations'[p] # Nil =>
           \A b \in Credited :
             LET x     == allocations'[p].portions[b]
                 exact == Cents(x) * batches[b].granted.principal
                 whole == Cents(batches[b].granted)
             IN /\ x.principal * whole >= exact + whole => batches'[b].available.gift = 0
                /\ x.principal * whole <= exact - whole => batches'[b].available.principal = 0]_walletVars
  BY StepSharesFairly
<1> QED
  BY <1>1, RefundsInvariant, PTL DEF Spec, SharesAreFair

(***************************************************************************)
(* The wallet its customer sees: OrderRefunds implements AbstractWallet.   *)
(*                                                                         *)
(* Each step is looked at per payment (what is held and spent for it and   *)
(* what was returned) and per batch (by how much it changes); the total    *)
(* stays what was granted because every abstract step keeps it.            *)
(***************************************************************************)
LEMMA AccountSum ==
  ASSUME NEW f
  PROVE  RefundedAccount!SumOf(f) = SumOf(f)
BY DEF RefundedAccount!SumOf, SumOf, MapThenSumSet, MapThenFoldSet,
       RefundedAccount!MapThenSumSet, RefundedAccount!MapThenFoldSet

\* What refunds of R return to the wallet, by batch.
BackToBatch(rows, R, b) == BackTo(rows, R, <<b, 1>>) + BackTo(rows, R, <<b, 2>>)
PortionCents(row) == SumOf([b \in Batches |-> Cents(row.portions[b])])

LEMMA PortionCentsType ==
  ASSUME NEW row \in Refund
  PROVE  PortionCents(row) \in Nat
<1> DEFINE f == [b \in Batches |-> Cents(row.portions[b])]
<1>1. \A b \in Batches : row.portions[b] \in Portion
  BY DEF Refund
<1>2. DOMAIN f = Batches /\ \A b \in Batches : f[b] \in Nat
  BY <1>1, PortionType
<1>3. PortionCents(row) = SumOf(f)
  BY DEF PortionCents
<1> HIDE DEF f
<1>4. IsFiniteSet(Batches)
  BY WalletAssumption
<1>5. IsAmounts(f) /\ \A b \in DOMAIN f : f[b] >= 0
  BY <1>2, <1>4 DEF IsAmounts
<1> QED
  BY <1>3, <1>5, SumOfType

LEMMA BackByBatch ==
  ASSUME NEW rows, NEW R, IsFiniteSet(R), \A r \in R : rows[r] \in Refund, NEW b \in Batches
  PROVE  /\ SumOf([r \in R |-> Cents(rows[r].portions[b])]) = BackToBatch(rows, R, b)
         /\ BackToBatch(rows, R, b) \in Nat
<1> DEFINE c == [r \in R |-> Cents(rows[r].portions[b])]
           f == [r \in R |-> Got(rows[r], <<b, 1>>)]
           g == [r \in R |-> Got(rows[r], <<b, 2>>)]
<1>1. <<b, 1>> \in Kinds /\ <<b, 2>> \in Kinds
  BY SourceFacts
<1>2. \A r \in R : rows[r].portions[b] \in Portion
  BY DEF Refund
<1>3. ASSUME NEW r \in R
      PROVE  c[r] = f[r] + g[r] /\ f[r] \in Nat /\ g[r] \in Nat
  <2> DEFINE x == rows[r].portions[b]
  <2>1. f[r] = x.principal /\ g[r] = x.gift
    BY DEF Got, PartNo
  <2>2. x \in Portion /\ c[r] = Cents(x)
    BY <1>2
  <2> HIDE DEF x, c, f, g
  <2> QED
    BY <2>1, <2>2, PortionType
<1>4. /\ BackTo(rows, R, <<b, 1>>) \in Nat /\ BackTo(rows, R, <<b, 2>>) \in Nat
      /\ IsAmounts(f) /\ IsAmounts(g)
  BY <1>1, BackType
<1>5. BackTo(rows, R, <<b, 1>>) = SumOf(f) /\ BackTo(rows, R, <<b, 2>>) = SumOf(g)
  BY DEF BackTo
<1>6. DOMAIN c = R /\ DOMAIN f = R /\ DOMAIN g = R
  OBVIOUS
<1> HIDE DEF c, f, g
<1>7. IsAmounts(c)
  BY <1>3, <1>6 DEF IsAmounts
<1>8. SumOf(c) = SumOf(f) + SumOf(g)
  BY <1>3, <1>4, <1>6, <1>7, SumOfPlus
<1> QED
  BY <1>4, <1>5, <1>8 DEF c, BackToBatch

\* By refund or by batch, the same comes back.
LEMMA BackByRefund ==
  ASSUME NEW rows, NEW R, IsFiniteSet(R), \A r \in R : rows[r] \in Refund
  PROVE  /\ SumOf([r \in R |-> PortionCents(rows[r])])
              = SumOf([b \in Batches |-> BackToBatch(rows, R, b)])
         /\ IsAmounts([b \in Batches |-> BackToBatch(rows, R, b)])
         /\ IsAmounts([r \in R |-> PortionCents(rows[r])])
<1> DEFINE m == [r \in R |-> [b \in Batches |-> Cents(rows[r].portions[b])]]
           t == [b \in Batches |-> [r \in R |-> Cents(rows[r].portions[b])]]
           byRefund == [r \in R |-> PortionCents(rows[r])]
           byBatch == [b \in Batches |-> BackToBatch(rows, R, b)]
<1>1. IsFiniteSet(Batches)
  BY WalletAssumption
<1>2. \A r \in R, b \in Batches : Cents(rows[r].portions[b]) \in Int
  <2>1. SUFFICES ASSUME NEW r \in R, NEW b \in Batches PROVE Cents(rows[r].portions[b]) \in Int
    OBVIOUS
  <2>2. rows[r].portions[b] \in Portion
    BY DEF Refund
  <2> QED
    BY <2>2, PortionType
<1>3. /\ m \in [R -> [Batches -> Int]] /\ t \in [Batches -> [R -> Int]]
      /\ \A r \in R, b \in Batches : m[r][b] = t[b][r]
  BY <1>2
<1>4. /\ DOMAIN byRefund = R /\ DOMAIN byBatch = Batches
      /\ \A r \in R : byRefund[r] = SumOf(m[r])
      /\ \A b \in Batches : byBatch[b] = SumOf(t[b])
  <2>1. \A r \in R : byRefund[r] = SumOf(m[r])
    BY DEF PortionCents
  <2>2. ASSUME NEW b \in Batches PROVE byBatch[b] = SumOf(t[b])
    <3>1. byBatch[b] = BackToBatch(rows, R, b) /\ t[b] = [r \in R |-> Cents(rows[r].portions[b])]
      OBVIOUS
    <3> HIDE DEF byBatch, t
    <3> QED
      BY <3>1, BackByBatch
  <2> QED
    BY <2>1, <2>2
<1>5. IsAmounts(byBatch)
  <2>1. ASSUME NEW b \in Batches PROVE byBatch[b] \in Int
    <3>1. BackToBatch(rows, R, b) \in Nat
      BY BackByBatch
    <3> QED
      BY <3>1
  <2> HIDE DEF byBatch
  <2> QED
    BY <1>1, <1>4, <2>1 DEF IsAmounts
<1>6. IsAmounts(byRefund)
  <2>1. \A r \in R : PortionCents(rows[r]) \in Int
    BY PortionCentsType
  <2> QED
    BY <2>1 DEF IsAmounts
<1> HIDE DEF m, t, byRefund, byBatch
<1>7. SumOf(byRefund) = SumOf(byBatch)
  <2>1. IsTable(m, t, byRefund, byBatch)
    BY <1>3, <1>4, <1>5, <1>6 DEF IsTable
  <2> QED
    BY <2>1, SumOfTable
<1> QED
  BY <1>5, <1>6, <1>7 DEF byRefund, byBatch

\* What is held and spent, from the rows of the payments.
LEMMA HeldAndSpent ==
  ASSUME TypeOK, PaidFromWallet, NEW p \in Payments
  PROVE  /\ Held(p) \in Nat /\ Spent(p) \in Nat
         /\ allocations[p] = Nil => Held(p) = 0 /\ Spent(p) = 0
         /\ allocations[p] # Nil =>
              /\ payments[p] # Nil /\ payments[p].wallet \in Nat /\ payments[p].wallet > 0
              /\ Held(p) = IF allocations[p].status = "RESERVED" THEN payments[p].wallet ELSE 0
              /\ Spent(p) = IF allocations[p].status = "CONSUMED" THEN payments[p].wallet ELSE 0
<1> DEFINE cents == SumOf([b \in Batches |-> Cents(allocations[p].portions[b])])
<1>1. /\ Held(p) = IF allocations[p] # Nil /\ allocations[p].status = "RESERVED" THEN cents ELSE 0
      /\ Spent(p) = IF allocations[p] # Nil /\ allocations[p].status = "CONSUMED" THEN cents ELSE 0
  BY DEF Held, Spent, With
<1>2. allocations[p] # Nil =>
        /\ payments[p] # Nil /\ payments[p].wallet > 0 /\ cents = payments[p].wallet
  BY DEF PaidFromWallet
<1>3. payments[p] # Nil => payments[p].wallet \in Nat
  BY DEF TypeOK, Payment
<1> HIDE DEF cents
<1> QED
  BY <1>1, <1>2, <1>3

\* What refunds that succeeded returned of a payment.
Returned(p) == Of(p) \cap MadeIn("SUCCEEDED")

LEMMA ReturnedRows ==
  ASSUME RefundsInv, NEW p \in Payments
  PROVE  /\ ReturnedTo(p) \in Nat /\ ReturnedTo(p) <= Spent(p)
         /\ p \notin Captured => ReturnedTo(p) = 0 /\ Of(p) = {}
<1> DEFINE R == Returned(p)
           f == [b \in Batches |-> BackToBatch(refunds, R, b)]
           c == [b \in Batches |-> IF allocations[p] = Nil THEN 0
                                   ELSE Cents(allocations[p].portions[b])]
<1>0. TypeOK /\ WalletTypeOK /\ PaidFromWallet /\ ReturnsFit
  BY TypeParts
<1>1. /\ IsFiniteSet(R) /\ R \subseteq Of(p) /\ IsFiniteSet(Of(p))
      /\ \A r \in Of(p) : refunds[r] \in Refund /\ r[2] \in Captured /\ r[2] = p
  BY <1>0, RefundRows, FS_Subset DEF Returned, Of
<1>2. ReturnedTo(p) = SumOf(f) /\ IsAmounts(f)
  <2> DEFINE g == [r \in R |-> PortionCents(refunds[r])]
  <2>1. ReturnedTo(p) = SumOf(g)
    BY DEF ReturnedTo, WalletPart, PortionCents, Returned
  <2>2. SumOf(g) = SumOf(f) /\ IsAmounts(f)
    BY <1>1, BackByRefund
  <2> HIDE DEF f, g
  <2> QED
    BY <2>1, <2>2
<1>3. \A b \in Batches : f[b] \in Nat
  <2>1. SUFFICES ASSUME NEW b \in Batches PROVE BackToBatch(refunds, R, b) \in Nat
    OBVIOUS
  <2>2. \A r \in R : refunds[r] \in Refund
    BY <1>1
  <2> HIDE DEF R
  <2> QED
    BY <1>1, <2>2, BackByBatch
<1>4. ReturnedTo(p) \in Nat
  <2>1. \A b \in DOMAIN f : f[b] >= 0
    BY <1>3
  <2> HIDE DEF f
  <2> QED
    BY <1>2, <2>1, SumOfType
<1>5. CASE p \notin Captured
  <2>1. Of(p) = {}
    BY <1>1, <1>5
  <2>2. ReturnedTo(p) = 0
    <3> DEFINE g == [r \in R |-> WalletPart(r)]
    <3>1. DOMAIN g = {} /\ ReturnedTo(p) = SumOf(g)
      BY <1>1, <2>1 DEF ReturnedTo, Returned
    <3> HIDE DEF g
    <3>2. IsAmounts(g)
      BY <3>1, FS_EmptySet DEF IsAmounts
    <3> QED
      BY <3>1, <3>2, SumOfType
  <2> QED
    BY <1>0, <2>1, <2>2, HeldAndSpent
<1>6. CASE p \in Captured
  <2>1. Spent(p) = SumOf(c) /\ \A b \in Batches : c[b] \in Nat
    <3>1. CASE allocations[p] = Nil
      <4>1. IsAmounts(c) /\ DOMAIN c = Batches /\ \A b \in Batches : c[b] = 0
        BY <3>1, WalletAssumption DEF IsAmounts
      <4> HIDE DEF c
      <4>2. SumOf(c) = 0
        BY <4>1, SumOfType
      <4> QED
        BY <1>0, <3>1, <4>1, <4>2, HeldAndSpent
    <3>2. CASE allocations[p] # Nil
      <4>1. allocations[p].status = "CONSUMED"
        BY <1>0, <1>6, <3>2 DEF PaidFromWallet, Captured
      <4>2. Spent(p) = SumOf([b \in Batches |-> Cents(allocations[p].portions[b])])
        BY <3>2, <4>1 DEF Spent, With
      <4>3. c = [b \in Batches |-> Cents(allocations[p].portions[b])]
        BY <3>2
      <4>4. \A b \in Batches : Cents(allocations[p].portions[b]) \in Nat
        BY <1>0, <3>2, AllocationRows, PortionType
      <4> QED
        BY <4>2, <4>3, <4>4
    <3> QED
      BY <3>1, <3>2
  <2>2. ASSUME NEW b \in Batches PROVE f[b] <= c[b]
    <3> DEFINE k1 == <<b, 1>>
               k2 == <<b, 2>>
               rest == Of(p) \ R
    <3>1. k1 \in Kinds /\ k2 \in Kinds
      BY SourceFacts
    <3>2. ASSUME NEW k \in Kinds
          PROVE  /\ BackTo(refunds, R, k) <= Gave(p, k)
                 /\ BackTo(refunds, R, k) \in Nat /\ Gave(p, k) \in Nat
      <4>1. Of(p) = R \cup rest /\ R \cap rest = {}
        BY <1>1
      <4>2. IsFiniteSet(rest) /\ \A r \in R \cup rest : refunds[r] \in Refund
        BY <1>1, FS_Subset
      <4> HIDE DEF R, rest
      <4>3. BackTo(refunds, R \cup rest, k) = BackTo(refunds, R, k) + BackTo(refunds, rest, k)
        BY <1>1, <4>1, <4>2, BackUnion
      <4>4. BackTo(refunds, R, k) \in Nat /\ BackTo(refunds, rest, k) \in Nat
        BY <1>1, <4>1, <4>2, BackType
      <4>5. BackTo(refunds, Of(p), k) <= Gave(p, k)
        BY <1>0, <1>6 DEF ReturnsFit
      <4>6. Gave(p, k) \in Nat
        BY <1>0, <1>6, GaveType
      <4> QED
        BY <4>1, <4>3, <4>4, <4>5, <4>6
    <3>3. Gave(p, k1) + Gave(p, k2) = c[b]
      <4>1. CASE allocations[p] = Nil
        <5>1. payments[p].wallet = 0
          <6>1. p \in Payments /\ payments[p] # Nil /\ payments[p].wallet \in Nat
            BY <1>0, <1>6, PaymentRows
          <6>2. ~(payments[p].wallet > 0)
            BY <1>0, <4>1, <6>1 DEF PaidFromWallet
          <6> QED
            BY <6>1, <6>2
        <5> QED
          BY <4>1, <5>1 DEF Gave
      <4>2. CASE allocations[p] # Nil
        <5>1. payments[p].wallet # 0
          BY <1>0, <4>2, HeldAndSpent
        <5>2. Gave(p, k1) = allocations[p].portions[b].principal
          BY <5>1 DEF Gave, PartNo
        <5>3. Gave(p, k2) = allocations[p].portions[b].gift
          BY <5>1 DEF Gave, PartNo
        <5> QED
          BY <4>2, <5>2, <5>3 DEF Cents
      <4> QED
        BY <4>1, <4>2
    <3>4. f[b] = BackTo(refunds, R, k1) + BackTo(refunds, R, k2)
      BY DEF BackToBatch
    <3> HIDE DEF k1, k2, R, f, c
    <3> QED
      BY <3>1, <3>2, <3>3, <3>4
  <2>3. IsAmounts(c) /\ DOMAIN f = Batches /\ DOMAIN c = Batches
    BY <2>1, WalletAssumption DEF IsAmounts
  <2> HIDE DEF f, c
  <2>4. SumOf(f) <= SumOf(c)
    BY <1>2, <2>2, <2>3, SumOfLeq
  <2> QED
    BY <1>2, <1>4, <1>6, <2>1, <2>4
<1> QED
  BY <1>4, <1>5, <1>6

\* The account is made of natural numbers, and its total is what was granted.
AccountType ==
  /\ Spendable(Credited) \in Nat
  /\ \A p \in Payments : /\ Held(p) \in Nat /\ Spent(p) \in Nat /\ ReturnedTo(p) \in Nat
                         /\ Spent(p) - ReturnedTo(p) \in Nat

HeldBy  == [p \in Payments |-> Held(p)]
SpentBy == [p \in Payments |-> Spent(p) - ReturnedTo(p)]

AccountInv ==
  /\ RefundsInv
  /\ Spendable(Credited) + SumOf(HeldBy) + SumOf(SpentBy) = GrantedCents

LEMMA SpendableType ==
  ASSUME WalletTypeOK
  PROVE  /\ Spendable(Credited) \in Nat
         /\ Spendable(Credited) = SumOf([b \in Credited |-> Cents(batches[b].available)])
         /\ IsAmounts([b \in Credited |-> Cents(batches[b].available)])
<1> DEFINE f == [b \in Credited |-> Cents(batches[b].available)]
<1>1. IsFiniteSet(Credited) /\ \A b \in Credited : batches[b].available \in Portion
  BY CreditedRows
<1>2. DOMAIN f = Credited /\ \A b \in Credited : f[b] \in Nat
  BY <1>1, PortionType
<1>3. Spendable(Credited) = SumOf(f)
  BY DEF Spendable
<1> HIDE DEF f
<1>4. IsAmounts(f) /\ \A b \in DOMAIN f : f[b] >= 0
  BY <1>1, <1>2 DEF IsAmounts
<1>5. Spendable(Credited) \in Nat
  BY <1>3, <1>4, SumOfType
<1> QED
  BY <1>3, <1>4, <1>5 DEF f

LEMMA BalanceAsFormula ==
  WalletTypeOK => IsAmounts([b \in Credited |-> Cents(batches[b].available)])
BY SpendableType

LEMMA AccountTypes == RefundsInv => AccountType
<1> SUFFICES ASSUME RefundsInv PROVE AccountType
  OBVIOUS
<1>1. TypeOK /\ WalletTypeOK /\ PaidFromWallet
  BY TypeParts
<1>2. Spendable(Credited) \in Nat
  BY <1>1, SpendableType
<1>3. ASSUME NEW p \in Payments
      PROVE  /\ Held(p) \in Nat /\ Spent(p) \in Nat /\ ReturnedTo(p) \in Nat
             /\ Spent(p) - ReturnedTo(p) \in Nat
  <2>1. Held(p) \in Nat /\ Spent(p) \in Nat
    BY <1>1, HeldAndSpent
  <2>2. ReturnedTo(p) \in Nat /\ ReturnedTo(p) <= Spent(p)
    BY ReturnedRows
  <2> QED
    BY <2>1, <2>2
<1> QED
  BY <1>2, <1>3 DEF AccountType

LEMMA AccountFunctions == AccountType => HeldBy \in [Payments -> Nat] /\ SpentBy \in [Payments -> Nat]
BY DEF AccountType, HeldBy, SpentBy

LEMMA AmountsOfPayments ==
  ASSUME NEW f \in [Payments -> Nat]
  PROVE  IsAmounts(f) /\ SumOf(f) \in Nat
<1>1. IsFiniteSet(DOMAIN f) /\ \A p \in DOMAIN f : f[p] \in Nat
  BY WalletAssumption
<1>2. IsAmounts(f) /\ \A p \in DOMAIN f : f[p] >= 0
  BY <1>1 DEF IsAmounts
<1> QED
  BY <1>2, SumOfType

\* The balance changes by what the batches change by.
LEMMA BalanceChanges ==
  ASSUME WalletTypeOK, WalletTypeOK', Credited' = Credited, NEW d \in [Batches -> Nat],
         \A b \in Batches \ Credited : d[b] = 0
  PROVE  /\ (\A b \in Credited : Cents(batches'[b].available) = Cents(batches[b].available) + d[b])
              => Spendable(Credited)' = Spendable(Credited) + SumOf(d)
         /\ (\A b \in Credited : Cents(batches[b].available) = Cents(batches'[b].available) + d[b])
              => Spendable(Credited) = Spendable(Credited)' + SumOf(d)
<1> DEFINE f == [b \in Credited |-> Cents(batches[b].available)]
           g == [b \in Credited |-> Cents(batches'[b].available)]
<1>1. IsAmounts(f) /\ Spendable(Credited) = SumOf(f)
  BY SpendableType
<1>2. IsAmounts(g) /\ Spendable(Credited)' = SumOf(g)
  <2>1. (WalletTypeOK => IsAmounts([b \in Credited |-> Cents(batches[b].available)]))'
    BY BalanceAsFormula, PTL
  <2>2. [b \in Credited |-> Cents(batches[b].available)]' = g
    OBVIOUS
  <2>3. Spendable(Credited)' = SumOf(g)
    BY DEF Spendable
  <2> QED
    BY <2>1, <2>2, <2>3
<1>3. IsAmounts(d) /\ DOMAIN d = Batches /\ DOMAIN f = Credited /\ DOMAIN g = Credited
  BY WalletAssumption DEF IsAmounts
<1>4. Credited \subseteq Batches
  BY CreditedRows
<1>5. ASSUME \A b \in Credited : Cents(batches'[b].available) = Cents(batches[b].available) + d[b]
      PROVE  SumOf(g) = SumOf(f) + SumOf(d)
  <2>1. \A b \in Credited : g[b] = f[b] + d[b]
    BY <1>5
  <2> HIDE DEF f, g
  <2> QED
    BY <1>1, <1>2, <1>3, <1>4, <2>1, SumOfChange
<1>6. ASSUME \A b \in Credited : Cents(batches[b].available) = Cents(batches'[b].available) + d[b]
      PROVE  SumOf(f) = SumOf(g) + SumOf(d)
  <2>1. \A b \in Credited : f[b] = g[b] + d[b]
    BY <1>6
  <2> HIDE DEF f, g
  <2> QED
    BY <1>1, <1>2, <1>3, <1>4, <2>1, SumOfChange
<1> QED
  BY <1>1, <1>2, <1>5, <1>6

(***************************************************************************)
(* What the wallet's promises are about, as natural numbers.               *)
(***************************************************************************)
AccountFacts ==
  /\ Spendable(Credited) \in Nat
  /\ HeldBy \in [Payments -> Nat] /\ SpentBy \in [Payments -> Nat]
  /\ SumOf(HeldBy) \in Nat /\ SumOf(SpentBy) \in Nat

LEMMA AccountIsNatural == RefundsInv => AccountFacts
<1> SUFFICES ASSUME RefundsInv PROVE AccountFacts
  OBVIOUS
<1>1. AccountType
  BY AccountTypes
<1>2. HeldBy \in [Payments -> Nat] /\ SpentBy \in [Payments -> Nat]
  BY <1>1, AccountFunctions
<1>3. SumOf(HeldBy) \in Nat /\ SumOf(SpentBy) \in Nat
  BY <1>2, AmountsOfPayments
<1> QED
  BY <1>1, <1>2, <1>3 DEF AccountType, AccountFacts

LEMMA AccountIsNaturalNext ==
  ASSUME RefundsInv'
  PROVE  AccountFacts'
<1>1. (RefundsInv => AccountFacts)'
  BY AccountIsNatural, PTL
<1> QED
  BY <1>1

Total == Spendable(Credited) + SumOf(HeldBy) + SumOf(SpentBy)

\* One payment's summand changes.
LEMMA SumOfOthers ==
  ASSUME NEW f \in [Payments -> Nat], NEW p \in Payments, NEW n \in Nat
  PROVE  SumOf([f EXCEPT ![p] = n]) = SumOf(f) - f[p] + n
<1>1. f \in [Payments -> Int] /\ n \in Int /\ IsFiniteSet(Payments)
  BY WalletAssumption
<1> QED
  BY <1>1, SumOfExcept

(***************************************************************************)
(* The steps of the account.                                               *)
(***************************************************************************)
LEMMA IsCredit ==
  ASSUME AccountInv, RefundsInv', NEW n \in Nat, n > 0,
         Spendable(Credited)' = Spendable(Credited) + n, HeldBy' = HeldBy, SpentBy' = SpentBy,
         GrantedCents' = GrantedCents + n
  PROVE  AccountInv' /\ RefundedAccount!Next
<1>1. AccountFacts /\ Total = GrantedCents
  BY AccountIsNatural DEF AccountInv, Total
<1>2. GrantedCents' <= MaxCents
  BY DEF RefundsInv, WalletInv
<1>3. Total' = Total + n
  BY <1>1 DEF Total, AccountFacts
<1>4. AccountInv'
  BY <1>1, <1>3 DEF AccountInv, Total
<1>5. Spendable(Credited)' + SumOf(HeldBy) + SumOf(SpentBy) <= MaxCents
  BY <1>1, <1>2, <1>3 DEF Total
<1>6. Spendable(Credited)' > Spendable(Credited)
  BY <1>1 DEF AccountFacts
<1>7. RefundedAccount!Credit
  BY <1>5, <1>6, AccountSum DEF RefundedAccount!Credit, HeldBy, SpentBy
<1> QED
  BY <1>4, <1>7 DEF RefundedAccount!Next

LEMMA IsHold ==
  ASSUME AccountInv, RefundsInv', NEW p \in Payments, NEW n \in Nat, n > 0,
         Spendable(Credited) = Spendable(Credited)' + n, HeldBy[p] = 0, SpentBy[p] = 0,
         HeldBy' = [HeldBy EXCEPT ![p] = n], SpentBy' = SpentBy, GrantedCents' = GrantedCents
  PROVE  AccountInv' /\ RefundedAccount!Next
<1>1. AccountFacts /\ AccountFacts' /\ Total = GrantedCents
  BY AccountIsNatural, AccountIsNaturalNext DEF AccountInv, Total
<1>2. SumOf(HeldBy') = SumOf(HeldBy) + n
  <2>1. HeldBy \in [Payments -> Nat] /\ SumOf(HeldBy) \in Nat
    BY <1>1 DEF AccountFacts
  <2>2. SumOf([HeldBy EXCEPT ![p] = n]) = SumOf(HeldBy) - HeldBy[p] + n
    BY <2>1, SumOfOthers
  <2> QED
    BY <2>1, <2>2
<1>3. Total' = Total
  BY <1>1, <1>2 DEF Total, AccountFacts
<1>4. AccountInv'
  BY <1>1, <1>3 DEF AccountInv, Total
<1>5. /\ n \in 1 .. Spendable(Credited) /\ n <= Spendable(Credited)
      /\ Spendable(Credited)' = Spendable(Credited) - n
  BY <1>1 DEF AccountFacts
<1>6. RefundedAccount!Hold(p, n)
  BY <1>5 DEF RefundedAccount!Hold, RefundedAccount!Unused, HeldBy, SpentBy
<1> QED
  BY <1>4, <1>5, <1>6 DEF RefundedAccount!Next

LEMMA IsPay ==
  ASSUME AccountInv, RefundsInv', NEW p \in Payments, NEW n \in Nat, n > 0,
         Spendable(Credited) = Spendable(Credited)' + n, HeldBy[p] = 0, SpentBy[p] = 0,
         SpentBy' = [SpentBy EXCEPT ![p] = n], HeldBy' = HeldBy, GrantedCents' = GrantedCents
  PROVE  AccountInv' /\ RefundedAccount!Next
<1>1. AccountFacts /\ AccountFacts' /\ Total = GrantedCents
  BY AccountIsNatural, AccountIsNaturalNext DEF AccountInv, Total
<1>2. SumOf(SpentBy') = SumOf(SpentBy) + n
  <2>1. SpentBy \in [Payments -> Nat] /\ SumOf(SpentBy) \in Nat
    BY <1>1 DEF AccountFacts
  <2>2. SumOf([SpentBy EXCEPT ![p] = n]) = SumOf(SpentBy) - SpentBy[p] + n
    BY <2>1, SumOfOthers
  <2> QED
    BY <2>1, <2>2
<1>3. Total' = Total
  BY <1>1, <1>2 DEF Total, AccountFacts
<1>4. AccountInv'
  BY <1>1, <1>3 DEF AccountInv, Total
<1>5. /\ n \in 1 .. Spendable(Credited) /\ n <= Spendable(Credited)
      /\ Spendable(Credited)' = Spendable(Credited) - n
  BY <1>1 DEF AccountFacts
<1>6. RefundedAccount!Pay(p, n)
  BY <1>5 DEF RefundedAccount!Pay, RefundedAccount!Unused, HeldBy, SpentBy
<1> QED
  BY <1>4, <1>5, <1>6 DEF RefundedAccount!Next

LEMMA IsRelease ==
  ASSUME AccountInv, RefundsInv', NEW p \in Payments,
         Spendable(Credited)' = Spendable(Credited) + HeldBy[p],
         HeldBy' = [HeldBy EXCEPT ![p] = 0], SpentBy' = SpentBy, GrantedCents' = GrantedCents
  PROVE  AccountInv' /\ RefundedAccount!Next
<1>1. AccountFacts /\ Total = GrantedCents
  BY AccountIsNatural DEF AccountInv, Total
<1>2. SumOf(HeldBy') = SumOf(HeldBy) - HeldBy[p] + 0
  BY <1>1, SumOfOthers DEF AccountFacts
<1>3. HeldBy[p] \in Nat
  BY <1>1 DEF AccountFacts
<1>4. Total' = Total
  BY <1>1, <1>2, <1>3 DEF Total, AccountFacts
<1>5. AccountInv'
  BY <1>1, <1>4 DEF AccountInv, Total
<1>6. RefundedAccount!Release(p)
  BY DEF RefundedAccount!Release, HeldBy, SpentBy
<1> QED
  BY <1>5, <1>6 DEF RefundedAccount!Next

LEMMA IsSpend ==
  ASSUME AccountInv, RefundsInv', NEW p \in Payments, HeldBy[p] > 0, SpentBy[p] = 0,
         Spendable(Credited)' = Spendable(Credited), HeldBy' = [HeldBy EXCEPT ![p] = 0],
         SpentBy' = [SpentBy EXCEPT ![p] = HeldBy[p]], GrantedCents' = GrantedCents
  PROVE  AccountInv' /\ RefundedAccount!Next
<1>1. AccountFacts /\ Total = GrantedCents
  BY AccountIsNatural DEF AccountInv, Total
<1>2. HeldBy[p] \in Nat
  BY <1>1 DEF AccountFacts
<1>3. SumOf(HeldBy') = SumOf(HeldBy) - HeldBy[p] + 0
  BY <1>1, SumOfOthers DEF AccountFacts
<1>4. SumOf(SpentBy') = SumOf(SpentBy) - SpentBy[p] + HeldBy[p]
  BY <1>1, <1>2, SumOfOthers DEF AccountFacts
<1>5. Total' = Total
  BY <1>1, <1>2, <1>3, <1>4 DEF Total, AccountFacts
<1>6. AccountInv'
  BY <1>1, <1>5 DEF AccountInv, Total
<1>7. RefundedAccount!Spend(p)
  BY DEF RefundedAccount!Spend, HeldBy, SpentBy
<1> QED
  BY <1>6, <1>7 DEF RefundedAccount!Next

LEMMA IsReturn ==
  ASSUME AccountInv, RefundsInv', NEW n \in Nat,
         \A p \in Payments : SpentBy'[p] \in 0 .. SpentBy[p],
         Spendable(Credited)' = Spendable(Credited) + n, SumOf(SpentBy) = SumOf(SpentBy') + n,
         HeldBy' = HeldBy, GrantedCents' = GrantedCents
  PROVE  AccountInv' /\ RefundedAccount!Next
<1>1. AccountFacts /\ AccountFacts' /\ Total = GrantedCents
  BY AccountIsNatural, AccountIsNaturalNext DEF AccountInv, Total
<1>2. Total' = Total
  BY <1>1 DEF Total, AccountFacts
<1>3. AccountInv'
  BY <1>1, <1>2 DEF AccountInv, Total
<1>4. Spendable(Credited)' + SumOf(SpentBy') = Spendable(Credited) + SumOf(SpentBy)
  BY <1>1 DEF AccountFacts
<1>5. RefundedAccount!Return
  BY <1>4, AccountSum DEF RefundedAccount!Return, HeldBy, SpentBy
<1> QED
  BY <1>3, <1>5 DEF RefundedAccount!Next

LEMMA IsStutter ==
  ASSUME AccountInv, RefundsInv',
         Spendable(Credited)' = Spendable(Credited), HeldBy' = HeldBy, SpentBy' = SpentBy,
         GrantedCents' = GrantedCents
  PROVE  AccountInv' /\ UNCHANGED RefundedAccount!vars
<1>1. AccountInv'
  BY DEF AccountInv
<1> QED
  BY <1>1 DEF RefundedAccount!vars, HeldBy, SpentBy

LEMMA GrantedType ==
  ASSUME WalletTypeOK
  PROVE  /\ GrantedCents \in Nat
         /\ GrantedCents = SumOf([b \in Credited |-> Cents(batches[b].granted)])
         /\ IsAmounts([b \in Credited |-> Cents(batches[b].granted)])
<1> DEFINE f == [b \in Credited |-> Cents(batches[b].granted)]
<1>1. IsFiniteSet(Credited) /\ \A b \in Credited : batches[b].granted \in Portion
  BY CreditedRows
<1>2. DOMAIN f = Credited /\ \A b \in Credited : f[b] \in Nat
  BY <1>1, PortionType
<1>3. GrantedCents = SumOf(f)
  BY DEF GrantedCents
<1> HIDE DEF f
<1>4. IsAmounts(f) /\ \A b \in DOMAIN f : f[b] >= 0
  BY <1>1, <1>2 DEF IsAmounts
<1>5. GrantedCents \in Nat
  BY <1>3, <1>4, SumOfType
<1> QED
  BY <1>3, <1>4, <1>5 DEF f

LEMMA GrantedAsFormula ==
  WalletTypeOK => IsAmounts([b \in Credited |-> Cents(batches[b].granted)])
BY GrantedType

LEMMA BalanceNext ==
  ASSUME WalletTypeOK'
  PROVE  IsAmounts([b \in Credited' |-> Cents(batches'[b].available)])
<1>1. (WalletTypeOK => IsAmounts([b \in Credited |-> Cents(batches[b].available)]))'
  BY BalanceAsFormula, PTL
<1> QED
  BY <1>1

LEMMA GrantedNext ==
  ASSUME WalletTypeOK'
  PROVE  IsAmounts([b \in Credited' |-> Cents(batches'[b].granted)])
<1>1. (WalletTypeOK => IsAmounts([b \in Credited |-> Cents(batches[b].granted)]))'
  BY GrantedAsFormula, PTL
<1> QED
  BY <1>1

(***************************************************************************)
(* The steps of the wallet, as steps of the account.                       *)
(***************************************************************************)
LEMMA AccountTopUp ==
  ASSUME AccountInv, RefundsInv', TopUp
  PROVE  AccountInv' /\ RefundedAccount!Next
<1>0. WalletInv /\ WalletTypeOK
  BY TypeParts DEF AccountInv
<1>1. PICK own \in Batches, grant \in Grants : CreditWalletBatch(own, grant)
  BY DEF TopUp
<1>2. UNCHANGED <<payments, refunds>>
  BY DEF TopUp, refundVars
<1>3. grant \in Portion /\ Cents(grant) \in Nat
  BY WalletAssumption, PortionType
<1>4. /\ WalletTypeOK' /\ Credited' = Credited \cup {own} /\ own \notin Credited
      /\ \A a \in Credited : batches'[a] = batches[a]
      /\ batches'[own].granted = grant /\ batches'[own].available = grant
      /\ allocations' = allocations /\ Cents(grant) > 0
  BY <1>0, <1>1, <1>3, CreditRow
<1>5. HeldBy' = HeldBy /\ SpentBy' = SpentBy
  BY <1>2, <1>4 DEF HeldBy, SpentBy, Held, Spent, With, ReturnedTo, Of, MadeIn, Made, WalletPart
<1>6. Spendable(Credited)' = Spendable(Credited) + Cents(grant)
  <2> DEFINE f == [a \in Credited |-> Cents(batches[a].available)]
             g == [a \in Credited' |-> Cents(batches'[a].available)]
  <2>1. IsAmounts(f) /\ Spendable(Credited) = SumOf(f) /\ Spendable(Credited) \in Nat
    BY <1>0, SpendableType
  <2>2. IsAmounts(g) /\ Spendable(Credited)' = SumOf(g)
    <3>1. IsAmounts(g)
      BY <1>4, BalanceNext
    <3>2. Spendable(Credited)' = SumOf(g)
      BY DEF Spendable
    <3> QED
      BY <3>1, <3>2
  <2>3. /\ own \in DOMAIN g /\ DOMAIN f = DOMAIN g \ {own} /\ g[own] = Cents(grant)
        /\ \A a \in DOMAIN f : f[a] = g[a]
    BY <1>4
  <2> HIDE DEF f, g
  <2>4. SumOf(g) = g[own] + SumOf(f)
    BY <2>1, <2>2, <2>3, SumOfMore
  <2> QED
    BY <1>3, <2>1, <2>2, <2>3, <2>4
<1>7. GrantedCents' = GrantedCents + Cents(grant)
  <2> DEFINE f == [a \in Credited |-> Cents(batches[a].granted)]
             g == [a \in Credited' |-> Cents(batches'[a].granted)]
  <2>1. IsAmounts(f) /\ GrantedCents = SumOf(f) /\ GrantedCents \in Nat
    BY <1>0, GrantedType
  <2>2. IsAmounts(g) /\ GrantedCents' = SumOf(g)
    <3>1. IsAmounts(g)
      BY <1>4, GrantedNext
    <3>2. GrantedCents' = SumOf(g)
      BY DEF GrantedCents
    <3> QED
      BY <3>1, <3>2
  <2>3. /\ own \in DOMAIN g /\ DOMAIN f = DOMAIN g \ {own} /\ g[own] = Cents(grant)
        /\ \A a \in DOMAIN f : f[a] = g[a]
    BY <1>4
  <2> HIDE DEF f, g
  <2>4. SumOf(g) = g[own] + SumOf(f)
    BY <2>1, <2>2, <2>3, SumOfMore
  <2> QED
    BY <1>3, <2>1, <2>2, <2>3, <2>4
<1> QED
  BY <1>3, <1>4, <1>5, <1>6, <1>7, IsCredit

\* What a payment does to the account, from its own row.
LEMMA OnePayment ==
  ASSUME NEW p \in Payments, UNCHANGED refunds,
         \A q \in Payments \ {p} : allocations'[q] = allocations[q]
  PROVE  /\ HeldBy' = [HeldBy EXCEPT ![p] = Held(p)']
         /\ SpentBy' = [SpentBy EXCEPT ![p] = Spent(p)' - ReturnedTo(p)]
<1>1. ASSUME NEW q \in Payments \ {p} PROVE Held(q)' = Held(q) /\ Spent(q)' = Spent(q)
  BY DEF Held, Spent, With
<1>2. \A q \in Payments : ReturnedTo(q)' = ReturnedTo(q)
  BY DEF ReturnedTo, Of, MadeIn, Made, WalletPart
<1> QED
  BY <1>1, <1>2 DEF HeldBy, SpentBy

LEMMA GrantedStays ==
  ASSUME Credited' = Credited, \A b \in Credited : batches'[b].granted = batches[b].granted
  PROVE  GrantedCents' = GrantedCents
BY DEF GrantedCents

\* A payment that has no allocation holds and spends nothing.
LEMMA NothingHeld ==
  ASSUME RefundsInv, NEW p \in Payments, allocations[p] = Nil
  PROVE  Held(p) = 0 /\ Spent(p) = 0 /\ ReturnedTo(p) = 0 /\ HeldBy[p] = 0 /\ SpentBy[p] = 0
<1>1. Held(p) = 0 /\ Spent(p) = 0
  BY TypeParts, HeldAndSpent
<1>2. ReturnedTo(p) \in Nat /\ ReturnedTo(p) <= Spent(p)
  BY ReturnedRows
<1>3. ReturnedTo(p) = 0
  BY <1>1, <1>2
<1> QED
  BY <1>1, <1>3 DEF HeldBy, SpentBy

LEMMA AccountBegin ==
  ASSUME AccountInv, RefundsInv', NEW p \in Payments, NEW l \in Lines \cup {Nil},
         NEW amount \in Nat, NEW w \in Nat, BeginPayment(p, l, amount, w)
  PROVE  AccountInv' /\ (RefundedAccount!Next \/ UNCHANGED RefundedAccount!vars)
<1> DEFINE now == w = amount
<1>0. RefundsInv /\ WalletInv /\ WalletTypeOK /\ PaidFromWallet /\ TypeOK
  BY TypeParts DEF AccountInv
<1>1. /\ p \notin Started /\ UNCHANGED refunds
      /\ IF w > 0 THEN ReserveWallet(p, w, now) ELSE UNCHANGED walletVars
  BY DEF BeginPayment, refundVars
<1> HIDE DEF now
<1>2. CASE w = 0
  <2>1. UNCHANGED <<batches, allocations, refunds>>
    BY <1>1, <1>2 DEF walletVars
  <2>2. /\ Spendable(Credited)' = Spendable(Credited) /\ HeldBy' = HeldBy /\ SpentBy' = SpentBy
        /\ GrantedCents' = GrantedCents
    BY <2>1 DEF Spendable, Credited, GrantedCents, HeldBy, SpentBy, Held, Spent, With,
                ReturnedTo, Of, MadeIn, Made, WalletPart
  <2> QED
    BY <2>2, IsStutter
<1>3. CASE w > 0
  <2> DEFINE x == AllocateWalletDebit(w)
             d == [b \in Batches |-> Cents(x[b])]
  <2>0. now \in BOOLEAN
    BY DEF now
  <2>1. ReserveWallet(p, w, now)
    BY <1>1, <1>3
  <2>2. /\ WalletTypeOK' /\ Credited' = Credited
        /\ allocations[p] = Nil /\ w <= Spendable(Credited)
        /\ allocations'[p] # Nil /\ allocations'[p].portions = x
        /\ allocations'[p].status = IF now THEN "CONSUMED" ELSE "RESERVED"
        /\ \A q \in Payments \ {p} : allocations'[q] = allocations[q]
        /\ \A b \in Credited : /\ batches'[b].granted = batches[b].granted
                               /\ batches'[b].available = batches[b].available -- x[b]
    BY <1>0, <2>0, <2>1, ReserveRows
  <2>3. /\ x \in [Batches -> Portion] /\ \A b \in Batches \ Credited : x[b] = Nothing
        /\ \A b \in Credited, part \in Parts : x[b][part] <= batches[b].available[part]
    BY <1>0, DebitType DEF WalletInv
  <2>4. SumOf(d) = w
    BY <1>0, <2>2, DebitIsExact DEF WalletInv
  <2>5. /\ Held(p)' = IF now THEN 0 ELSE w
        /\ Spent(p)' = IF now THEN w ELSE 0
    <3>1. SumOf([b \in Batches |-> Cents(allocations'[p].portions[b])]) = w
      BY <2>2, <2>4
    <3>2. /\ Held(p)' = IF now THEN 0
                        ELSE SumOf([b \in Batches |-> Cents(allocations'[p].portions[b])])
          /\ Spent(p)' = IF now THEN SumOf([b \in Batches |-> Cents(allocations'[p].portions[b])])
                         ELSE 0
      BY <2>0, <2>2 DEF Held, Spent, With
    <3> QED
      BY <3>1, <3>2
  <2>6. Held(p) = 0 /\ Spent(p) = 0 /\ ReturnedTo(p) = 0 /\ HeldBy[p] = 0 /\ SpentBy[p] = 0
    BY <1>0, <2>2, NothingHeld
  <2>7. Spendable(Credited) = Spendable(Credited)' + w
    <3> HIDE DEF x
    <3>1. d \in [Batches -> Nat] /\ \A b \in Batches \ Credited : d[b] = 0
      BY <2>3, PortionType, NoPortion
    <3>2. ASSUME NEW b \in Credited
          PROVE  Cents(batches[b].available) = Cents(batches'[b].available) + d[b]
      <4>1. /\ b \in Batches /\ batches[b].available \in Portion /\ x[b] \in Portion
            /\ \A part \in Parts : x[b][part] <= batches[b].available[part]
        BY <1>0, <2>3, CreditedRows
      <4>2. batches'[b].available = batches[b].available -- x[b]
        BY <2>2
      <4>3. d[b] = Cents(x[b])
        BY <4>1
      <4> HIDE DEF d
      <4> QED
        BY <4>1, <4>2, <4>3, PortionDifference, PortionType
    <3> HIDE DEF d
    <3> QED
      BY <1>0, <2>2, <2>4, <3>1, <3>2, BalanceChanges
  <2> HIDE DEF x, d
  <2>8. GrantedCents' = GrantedCents
    BY <2>2, GrantedStays
  <2>9. /\ HeldBy' = [HeldBy EXCEPT ![p] = Held(p)']
        /\ SpentBy' = [SpentBy EXCEPT ![p] = Spent(p)' - ReturnedTo(p)]
    BY <1>1, <2>2, OnePayment
  <2>10. HeldBy \in [Payments -> Nat] /\ SpentBy \in [Payments -> Nat]
    BY <1>0, AccountIsNatural DEF AccountFacts
  <2>11. CASE now
    <3>1. HeldBy' = HeldBy
      BY <2>5, <2>6, <2>9, <2>10, <2>11
    <3>2. SpentBy' = [SpentBy EXCEPT ![p] = w]
      BY <2>5, <2>6, <2>9, <2>11
    <3> QED
      BY <1>3, <2>6, <2>7, <2>8, <3>1, <3>2, IsPay
  <2>12. CASE ~now
    <3>1. SpentBy' = SpentBy
      BY <2>5, <2>6, <2>9, <2>10, <2>12
    <3>2. HeldBy' = [HeldBy EXCEPT ![p] = w]
      BY <2>5, <2>9, <2>12
    <3> QED
      BY <1>3, <2>6, <2>7, <2>8, <3>1, <3>2, IsHold
  <2> QED
    BY <2>11, <2>12
<1> QED
  BY <1>2, <1>3

LEMMA AccountSettle ==
  ASSUME AccountInv, RefundsInv', NEW p \in Payments, NEW succeeds \in BOOLEAN,
         SettlePayment(p, succeeds)
  PROVE  AccountInv' /\ (RefundedAccount!Next \/ UNCHANGED RefundedAccount!vars)
<1>0. RefundsInv /\ WalletInv /\ WalletTypeOK /\ PaidFromWallet /\ TypeOK
  BY TypeParts DEF AccountInv
<1>1. /\ p \in Waiting /\ UNCHANGED refunds
      /\ IF payments[p].wallet > 0 THEN SettleWalletReservation(p, succeeds)
         ELSE UNCHANGED walletVars
  BY DEF SettlePayment, refundVars
<1>2. CASE ~(payments[p].wallet > 0)
  <2>1. UNCHANGED <<batches, allocations, refunds>>
    BY <1>1, <1>2 DEF walletVars
  <2>2. /\ Spendable(Credited)' = Spendable(Credited) /\ HeldBy' = HeldBy /\ SpentBy' = SpentBy
        /\ GrantedCents' = GrantedCents
    BY <2>1 DEF Spendable, Credited, GrantedCents, HeldBy, SpentBy, Held, Spent, With,
                ReturnedTo, Of, MadeIn, Made, WalletPart
  <2> QED
    BY <2>2, IsStutter
<1>3. CASE payments[p].wallet > 0
  <2> DEFINE x == allocations[p].portions
             d == [b \in Batches |-> Cents(x[b])]
  <2>1. SettleWalletReservation(p, succeeds)
    BY <1>1, <1>3
  <2>2. /\ WalletTypeOK' /\ Credited' = Credited
        /\ allocations[p] # Nil /\ allocations[p].status = "RESERVED"
        /\ allocations'[p] # Nil /\ allocations'[p].portions = x
        /\ allocations'[p].status = IF succeeds THEN "CONSUMED" ELSE "RELEASED"
        /\ \A q \in Payments \ {p} : allocations'[q] = allocations[q]
        /\ x \in [Batches -> Portion]
        /\ \A b \in Credited : /\ batches'[b].granted = batches[b].granted
                               /\ batches'[b].available = IF succeeds THEN batches[b].available
                                                          ELSE batches[b].available ++ x[b]
    BY <1>0, <2>1, SettleRows
  <2>3. Held(p) = SumOf(d) /\ Spent(p) = 0 /\ SumOf(d) > 0 /\ SumOf(d) \in Nat
    <3>1. Held(p) = SumOf(d)
      BY <2>2 DEF Held, With
    <3>2. Held(p) = payments[p].wallet /\ Spent(p) = 0 /\ Held(p) \in Nat
      BY <1>0, <2>2, HeldAndSpent
    <3> QED
      BY <1>3, <3>1, <3>2
  <2>4. ReturnedTo(p) = 0 /\ HeldBy[p] = SumOf(d) /\ SpentBy[p] = 0
    <3>1. p \notin Captured
      BY <1>1 DEF Waiting, Captured
    <3>2. ReturnedTo(p) = 0
      BY <1>0, <3>1, ReturnedRows
    <3> QED
      BY <2>3, <3>2 DEF HeldBy, SpentBy
  <2>5. Held(p)' = 0 /\ Spent(p)' = IF succeeds THEN SumOf(d) ELSE 0
    BY <2>2 DEF Held, Spent, With
  <2>6. GrantedCents' = GrantedCents
    BY <2>2, GrantedStays
  <2>7. /\ HeldBy' = [HeldBy EXCEPT ![p] = Held(p)']
        /\ SpentBy' = [SpentBy EXCEPT ![p] = Spent(p)' - ReturnedTo(p)]
    BY <1>1, <2>2, OnePayment
  <2>8. HeldBy \in [Payments -> Nat] /\ SpentBy \in [Payments -> Nat]
    BY <1>0, AccountIsNatural DEF AccountFacts
  <2>9. CASE succeeds
    <3> HIDE DEF d
    <3>1. Spendable(Credited)' = Spendable(Credited)
      BY <2>2, <2>9 DEF Spendable
    <3>2. HeldBy' = [HeldBy EXCEPT ![p] = 0] /\ SpentBy' = [SpentBy EXCEPT ![p] = HeldBy[p]]
      <4>1. HeldBy' = [HeldBy EXCEPT ![p] = 0]
        BY <2>5, <2>7
      <4>2. Spent(p)' - ReturnedTo(p) = HeldBy[p]
        BY <2>3, <2>4, <2>5, <2>9
      <4> QED
        BY <2>7, <4>1, <4>2
    <3>3. HeldBy[p] > 0 /\ SpentBy[p] = 0
      BY <2>3, <2>4
    <3> QED
      BY <2>6, <3>1, <3>2, <3>3, IsSpend
  <2>10. CASE ~succeeds
    <3>1. Spendable(Credited)' = Spendable(Credited) + SumOf(d)
      <4>1. d \in [Batches -> Nat] /\ \A b \in Batches \ Credited : d[b] = 0
        <5>1. \A b \in Batches \ Credited : x[b] = Nothing
          BY <1>0, <2>2 DEF WalletInv, TakenWhereCredited
        <5> HIDE DEF x
        <5> QED
          BY <2>2, <5>1, PortionType, NoPortion
      <4>2. ASSUME NEW b \in Credited
            PROVE  Cents(batches'[b].available) = Cents(batches[b].available) + d[b]
        <5>1. b \in Batches /\ batches[b].available \in Portion /\ x[b] \in Portion
          BY <1>0, <2>2, CreditedRows
        <5>2. batches'[b].available = batches[b].available ++ x[b]
          BY <2>2, <2>10
        <5>3. d[b] = Cents(x[b])
          BY <5>1
        <5> HIDE DEF d, x
        <5> QED
          BY <5>1, <5>2, <5>3, PortionSum
      <4> HIDE DEF d
      <4> QED
        BY <1>0, <2>2, <4>1, <4>2, BalanceChanges
    <3> HIDE DEF d
    <3>2. HeldBy' = [HeldBy EXCEPT ![p] = 0]
      BY <2>5, <2>7
    <3>3. SpentBy' = SpentBy
      BY <2>4, <2>5, <2>7, <2>8, <2>10
    <3>4. Spendable(Credited)' = Spendable(Credited) + HeldBy[p]
      BY <2>4, <3>1
    <3> QED
      BY <2>6, <3>2, <3>3, <3>4, IsRelease
  <2> QED
    BY <2>9, <2>10
<1> QED
  BY <1>2, <1>3

(***************************************************************************)
(* Refunds that complete, as steps of the account.                         *)
(***************************************************************************)
RefundCents(rows, R) == SumOf([r \in R |-> PortionCents(rows[r])])

LEMMA RefundCentsType ==
  ASSUME NEW rows, NEW R, IsFiniteSet(R), \A r \in R : rows[r] \in Refund
  PROVE  RefundCents(rows, R) \in Nat /\ IsAmounts([r \in R |-> PortionCents(rows[r])])
<1> DEFINE f == [r \in R |-> PortionCents(rows[r])]
<1>1. DOMAIN f = R /\ \A r \in R : f[r] \in Nat
  BY PortionCentsType
<1>2. RefundCents(rows, R) = SumOf(f)
  BY DEF RefundCents
<1> HIDE DEF f
<1>3. IsAmounts(f) /\ \A r \in DOMAIN f : f[r] >= 0
  BY <1>1 DEF IsAmounts
<1> QED
  BY <1>2, <1>3, SumOfType DEF f

LEMMA RefundCentsUnion ==
  ASSUME NEW rows, NEW R, IsFiniteSet(R), NEW Q, IsFiniteSet(Q), R \cap Q = {},
         \A r \in R \cup Q : rows[r] \in Refund
  PROVE  RefundCents(rows, R \cup Q) = RefundCents(rows, R) + RefundCents(rows, Q)
<1> DEFINE h == [r \in R \cup Q |-> PortionCents(rows[r])]
           f == [r \in R |-> PortionCents(rows[r])]
           g == [r \in Q |-> PortionCents(rows[r])]
<1>1. IsFiniteSet(R \cup Q)
  BY FS_Union
<1>2. IsAmounts(h) /\ IsAmounts(f) /\ IsAmounts(g)
  BY <1>1, RefundCentsType
<1>3. /\ DOMAIN h = R \cup Q /\ DOMAIN f = R /\ DOMAIN g = Q
      /\ \A r \in R : f[r] = h[r]
      /\ \A r \in Q : g[r] = h[r]
  OBVIOUS
<1>4. /\ RefundCents(rows, R \cup Q) = SumOf(h) /\ RefundCents(rows, R) = SumOf(f)
      /\ RefundCents(rows, Q) = SumOf(g)
  BY DEF RefundCents
<1> HIDE DEF f, g, h
<1>5. SumOver(h, R \cup Q) = SumOver(h, R) + SumOver(h, Q)
  BY <1>2, <1>3, SumUnion
<1>6. SumOver(f, R) = SumOver(h, R) /\ SumOver(g, Q) = SumOver(h, Q)
  BY <1>2, <1>3, SumSame
<1> QED
  BY <1>3, <1>4, <1>5, <1>6, SumIsFold

\* What refunds of R return to payment p.
At(R, p) == {r \in R : r[2] = p}

LEMMA RefundCentsByPayment ==
  ASSUME NEW rows, NEW R \in SUBSET RefundIds, IsFiniteSet(R), \A r \in R : rows[r] \in Refund
  PROVE  /\ RefundCents(rows, R) = SumOf([p \in Payments |-> RefundCents(rows, At(R, p))])
         /\ [p \in Payments |-> RefundCents(rows, At(R, p))] \in [Payments -> Nat]
<1> DEFINE f == [r \in R |-> PortionCents(rows[r])]
           g == [p \in Payments |-> RefundCents(rows, At(R, p))]
           k == [r \in R |-> r[2]]
<1>1. IsAmounts(f) /\ DOMAIN f = R /\ RefundCents(rows, R) = SumOf(f)
  BY RefundCentsType DEF RefundCents
<1>2. ASSUME NEW p \in Payments
      PROVE  RefundCents(rows, At(R, p)) \in Nat /\ RefundCents(rows, At(R, p)) = SumOver(f, At(R, p))
  <2> DEFINE c == [r \in At(R, p) |-> PortionCents(rows[r])]
  <2>1. At(R, p) \subseteq R /\ IsFiniteSet(At(R, p)) /\ \A r \in At(R, p) : rows[r] \in Refund
    <3>1. At(R, p) \subseteq R
      BY DEF At
    <3> QED
      BY <3>1, FS_Subset
  <2>2. /\ RefundCents(rows, At(R, p)) \in Nat /\ IsAmounts(c)
        /\ RefundCents(rows, At(R, p)) = SumOf(c)
    BY <2>1, RefundCentsType DEF RefundCents
  <2>3. DOMAIN c = At(R, p) /\ \A r \in At(R, p) : c[r] = f[r]
    BY <2>1
  <2> HIDE DEF c, f
  <2>4. SumOver(c, At(R, p)) = SumOver(f, At(R, p))
    BY <1>1, <2>1, <2>2, <2>3, SumSame
  <2> QED
    BY <2>2, <2>3, <2>4, SumIsFold
<1>3. g \in [Payments -> Nat]
  BY <1>2
<1>4. k \in [R -> Payments]
  BY DEF RefundIds
<1>5. \A p \in Payments : At(R, p) = {r \in R : k[r] = p} /\ g[p] = SumOver(f, At(R, p))
  BY <1>2 DEF At
<1>6. DOMAIN g = Payments
  OBVIOUS
<1> HIDE DEF f, g, k
<1>7. IsAmounts(g)
  BY <1>3, AmountsOfPayments
<1>8. SumOf(f) = SumOf(g)
  <2>1. k \in [DOMAIN f -> DOMAIN g]
    BY <1>1, <1>4, <1>6
  <2>2. \A p \in DOMAIN g : g[p] = SumOver(f, {r \in DOMAIN f : k[r] = p})
    BY <1>1, <1>5, <1>6
  <2> QED
    BY <1>1, <1>7, <2>1, <2>2, SumOfGroups
<1> QED
  BY <1>1, <1>3, <1>8 DEF g

\* What came back of a payment, from the refunds that succeeded.
LEMMA ReturnedCentsOf ==
  ASSUME RefundsInv, NEW p \in Payments
  PROVE  Returned(p) = At(MadeIn("SUCCEEDED"), p) /\ ReturnedTo(p) = RefundCents(refunds, Returned(p))
BY DEF Returned, At, Of, MadeIn, ReturnedTo, RefundCents, WalletPart, PortionCents

\* Nothing came back to a batch that was not credited.
UncreditedGetNothing ==
  \A b \in Batches \ Credited, i \in {1, 2} : BackTo(refunds, MadeIn("SUCCEEDED"), <<b, i>>) = 0

LEMMA NothingUncredited == RefundsInv => UncreditedGetNothing
<1> SUFFICES ASSUME RefundsInv, NEW b \in Batches \ Credited, NEW i \in {1, 2}
             PROVE  BackTo(refunds, MadeIn("SUCCEEDED"), <<b, i>>) = 0
  BY DEF UncreditedGetNothing
<1>0. /\ TypeOK /\ WalletInv /\ WalletTypeOK /\ PaidFromWallet /\ ReturnsFit
      /\ TakenWhereCredited
  BY TypeParts DEF WalletInv
<1>1. BackTo(refunds, MadeIn("SUCCEEDED"), <<b, i>>) <= From(b, With("CONSUMED"), PartNo(i))
  BY <1>0, ReturnedWasSpent
<1>2. From(b, With("CONSUMED"), PartNo(i)) = 0
  <2>1. PartNo(i) \in Parts /\ With("CONSUMED") \in SUBSET Payments
        /\ \A p \in With("CONSUMED") : allocations[p] # Nil
    BY DEF PartNo, Parts, With
  <2> QED
    BY <1>0, <2>1, NothingTaken
<1>3. BackTo(refunds, MadeIn("SUCCEEDED"), <<b, i>>) \in Nat
  BY <1>0, RefundRows, BackType, SourceFacts
<1> QED
  BY <1>1, <1>2, <1>3

LEMMA NothingUncreditedNext ==
  ASSUME RefundsInv'
  PROVE  UncreditedGetNothing'
<1>1. (RefundsInv => UncreditedGetNothing)'
  BY NothingUncredited, PTL
<1> QED
  BY <1>1

LEMMA AccountReturn ==
  ASSUME AccountInv, RefundsInv', NEW R \in SUBSET RefundIds, IsFiniteSet(R),
         \A r \in R : refunds'[r] \in Refund,
         batches' = Restore(refunds', R), allocations' = allocations,
         MadeIn("SUCCEEDED")' = MadeIn("SUCCEEDED") \cup R, MadeIn("SUCCEEDED") \cap R = {},
         \A r \in MadeIn("SUCCEEDED") : refunds'[r] = refunds[r]
  PROVE  AccountInv' /\ RefundedAccount!Next
<1> DEFINE S == MadeIn("SUCCEEDED")
           n == RefundCents(refunds', R)
           d == [b \in Batches |-> BackToBatch(refunds', R, b)]
           more == [p \in Payments |-> RefundCents(refunds', At(R, p))]
<1>0. RefundsInv /\ TypeOK /\ WalletInv /\ WalletTypeOK
  BY TypeParts DEF AccountInv
<1>1. /\ WalletTypeOK' /\ Credited' = Credited
      /\ \A b \in Credited, i \in {1, 2} :
           /\ batches'[b].granted = batches[b].granted
           /\ batches'[b].available[PartNo(i)]
                = batches[b].available[PartNo(i)] + BackTo(refunds', R, <<b, i>>)
  BY <1>0, RestoreRows DEF WalletInv
<1>2. HeldBy' = HeldBy /\ GrantedCents' = GrantedCents /\ \A p \in Payments : Spent(p)' = Spent(p)
  <2>1. \A b \in Credited : batches'[b].granted = batches[b].granted
    BY <1>1
  <2> QED
    BY <1>1, <2>1, GrantedStays DEF HeldBy, Held, Spent, With
<1>3. AccountFacts /\ AccountFacts'
  BY <1>0, AccountIsNatural, AccountIsNaturalNext
<1>4. IsFiniteSet(S) /\ S \subseteq RefundIds /\ \A r \in S : refunds[r] \in Refund
  BY <1>0, RefundRows DEF MadeIn, Made
<1>5. n \in Nat /\ SumOf(d) = n /\ \A b \in Batches : d[b] \in Nat
  <2>1. n \in Nat
    BY RefundCentsType
  <2>2. SumOf([r \in R |-> PortionCents(refunds'[r])]) = SumOf(d)
    BY BackByRefund
  <2>3. ASSUME NEW b \in Batches PROVE d[b] \in Nat
    BY BackByBatch
  <2> QED
    BY <2>1, <2>2, <2>3 DEF RefundCents
<1>6. Spendable(Credited)' = Spendable(Credited) + n
  <2>1. ASSUME NEW b \in Batches \ Credited PROVE d[b] = 0
    <3>1. ASSUME NEW i \in {1, 2} PROVE BackTo(refunds', R, <<b, i>>) = 0
      <4> DEFINE k == <<b, i>>
      <4>1. k \in Kinds
        BY SourceFacts
      <4>2. BackTo(refunds', S \cup R, k) = 0
        <5>1. BackTo(refunds, MadeIn("SUCCEEDED"), <<b, i>>)' = 0
          BY <1>1, NothingUncreditedNext DEF UncreditedGetNothing
        <5> QED
          BY <5>1 DEF BackTo, Got
      <4>3. \A r \in S \cup R : refunds'[r] \in Refund
        BY <1>4
      <4> HIDE DEF S, k
      <4>4. BackTo(refunds', S \cup R, k) = BackTo(refunds', S, k) + BackTo(refunds', R, k)
        BY <1>4, <4>1, <4>3, BackUnion DEF S
      <4>5. BackTo(refunds', S, k) \in Nat /\ BackTo(refunds', R, k) \in Nat
        BY <1>4, <4>1, <4>3, BackType
      <4>6. BackTo(refunds', R, k) = 0
        BY <4>2, <4>4, <4>5
      <4> QED
        BY <4>6 DEF k
    <3>2. BackTo(refunds', R, <<b, 1>>) = 0 /\ BackTo(refunds', R, <<b, 2>>) = 0
      BY <3>1
    <3> QED
      BY <3>2 DEF BackToBatch
  <2>2. ASSUME NEW b \in Credited
        PROVE  Cents(batches'[b].available) = Cents(batches[b].available) + d[b]
    <3> DEFINE x == batches[b].available
               y == batches'[b].available
               i1 == BackTo(refunds', R, <<b, 1>>)
               i2 == BackTo(refunds', R, <<b, 2>>)
    <3>1. /\ b \in Batches /\ x \in Portion
          /\ <<b, 1>> \in Kinds /\ <<b, 2>> \in Kinds
      BY <1>0, CreditedRows, SourceFacts
    <3>2. i1 \in Nat /\ i2 \in Nat
      BY <3>1, BackType
    <3>3. y.principal = x.principal + i1
      <4>1. y[PartNo(1)] = x[PartNo(1)] + i1
        BY <1>1
      <4> QED
        BY <4>1 DEF PartNo
    <3>4. y.gift = x.gift + i2
      <4>1. y[PartNo(2)] = x[PartNo(2)] + i2
        BY <1>1
      <4> QED
        BY <4>1 DEF PartNo
    <3>5. d[b] = i1 + i2
      BY <3>1 DEF BackToBatch
    <3> HIDE DEF d, x, y, i1, i2
    <3>6. Cents(y) = Cents(x) + d[b]
      BY <3>1, <3>2, <3>3, <3>4, <3>5, PortionType DEF Cents
    <3> QED
      BY <3>6 DEF x, y
  <2>3. d \in [Batches -> Nat]
    BY <1>5
  <2> HIDE DEF d, n
  <2>4. Spendable(Credited)' = Spendable(Credited) + SumOf(d)
    BY <1>0, <1>1, <2>1, <2>2, <2>3, BalanceChanges
  <2> QED
    BY <1>5, <2>4
<1>7. more \in [Payments -> Nat] /\ SumOf(more) = n
  BY RefundCentsByPayment
<1>8. ASSUME NEW p \in Payments
      PROVE  SpentBy[p] = SpentBy'[p] + more[p] /\ more[p] \in Nat
  <2> DEFINE old == At(S, p)
             new == At(R, p)
  <2>1. ReturnedTo(p) = RefundCents(refunds, old)
    BY <1>0, ReturnedCentsOf
  <2>2. ReturnedTo(p)' = RefundCents(refunds', old \cup new)
    <3>1. Returned(p)' = old \cup new
      BY DEF Returned, At, Of, MadeIn
    <3>2. ReturnedTo(p)' = RefundCents(refunds', Returned(p)')
      BY DEF Returned, ReturnedTo, RefundCents, WalletPart, PortionCents
    <3> QED
      BY <3>1, <3>2
  <2>3. /\ IsFiniteSet(old) /\ IsFiniteSet(new) /\ old \cap new = {}
        /\ old \subseteq S /\ new \subseteq R
    <3>1. old \subseteq S /\ new \subseteq R
      BY DEF At
    <3> QED
      BY <1>4, <3>1, FS_Subset
  <2>4. \A r \in old \cup new : refunds'[r] \in Refund
    BY <1>4, <2>3
  <2>5. RefundCents(refunds', old) = RefundCents(refunds, old)
    <3>1. \A r \in old : refunds'[r] = refunds[r]
      BY <2>3
    <3> QED
      BY <3>1 DEF RefundCents
  <2>6. more[p] = RefundCents(refunds', new) /\ more[p] \in Nat
    BY <1>7
  <2> HIDE DEF old, new, more
  <2>7. RefundCents(refunds', old \cup new) = RefundCents(refunds', old) + RefundCents(refunds', new)
    BY <2>3, <2>4, RefundCentsUnion
  <2>8. Spent(p) \in Nat /\ ReturnedTo(p) \in Nat
    BY <1>0, AccountTypes DEF AccountType
  <2>9. SpentBy[p] = Spent(p) - ReturnedTo(p) /\ SpentBy'[p] = Spent(p) - ReturnedTo(p)'
    BY <1>2 DEF SpentBy
  <2> QED
    BY <2>1, <2>2, <2>5, <2>6, <2>7, <2>8, <2>9
<1> HIDE DEF n, d, more, S
<1>9. SumOf(SpentBy) = SumOf(SpentBy') + n
  <2>1. SpentBy \in [Payments -> Nat] /\ SpentBy' \in [Payments -> Nat]
    BY <1>3 DEF AccountFacts
  <2>2. /\ IsAmounts(SpentBy) /\ IsAmounts(SpentBy') /\ IsAmounts(more)
        /\ DOMAIN SpentBy = Payments /\ DOMAIN SpentBy' = Payments /\ DOMAIN more = Payments
    BY <1>7, <2>1, AmountsOfPayments
  <2>3. SumOf(SpentBy) = SumOf(SpentBy') + SumOf(more)
    BY <1>8, <2>2, SumOfPlus
  <2> QED
    BY <1>7, <2>3
<1>10. \A p \in Payments : SpentBy'[p] \in 0 .. SpentBy[p]
  <2>1. \A p \in Payments : SpentBy[p] \in Nat /\ SpentBy'[p] \in Nat
    BY <1>3 DEF AccountFacts
  <2> QED
    BY <1>8, <2>1
<1> QED
  BY <1>2, <1>5, <1>6, <1>9, <1>10, IsReturn

LEMMA AccountRequest ==
  ASSUME AccountInv, RefundsInv', NEW g \in Groups, NEW cents \in [Lines -> Asked],
         NEW drop \in SUBSET Lines, RequestRefund(g, cents, drop)
  PROVE  AccountInv' /\ RefundedAccount!Next
<1>0. RefundsInv /\ TypeOK /\ UNCHANGED <<allocations, payments>>
  BY TypeParts DEF AccountInv, RequestRefund
<1>1. PICK x, used, done : RequestFacts(g, cents, x, used, done)
  BY <1>0, RequestRows
<1>2. /\ done \in SUBSET RefundIds /\ IsFiniteSet(done) /\ done \subseteq New(g, used)
      /\ \A r \in Made : refunds'[r] = refunds[r]
      /\ \A r \in New(g, used) : refunds'[r] \in Refund
      /\ MadeIn("SUCCEEDED")' = MadeIn("SUCCEEDED") \cup done
      /\ MadeIn("SUCCEEDED") \cap done = {}
  BY <1>0, <1>1, RequestMade
<1>3. batches' = Restore(refunds', done)
  BY <1>1 DEF RequestFacts
<1>4. \A r \in done : refunds'[r] \in Refund
  BY <1>2
<1>5. \A r \in MadeIn("SUCCEEDED") : refunds'[r] = refunds[r]
  BY <1>2 DEF MadeIn
<1> QED
  BY <1>0, <1>2, <1>3, <1>4, <1>5, AccountReturn

LEMMA AccountSuccess ==
  ASSUME AccountInv, RefundsInv', NEW r \in RefundIds, NEW n \in Numbers, SettleRefundSuccess(r, n)
  PROVE  AccountInv' /\ RefundedAccount!Next
<1>0. /\ RefundsInv /\ TypeOK /\ TypeOK' /\ refunds \in [RefundIds -> Refund \cup {Nil}]
      /\ allocations' = allocations
  BY TypeParts DEF AccountInv, RefundsInv, TypeOK, SettleRefundSuccess
<1>1. /\ r \in Made /\ refunds[r].status # "SUCCEEDED" /\ refunds[r] \in Refund
      /\ refunds' = [refunds EXCEPT ![r].status = "SUCCEEDED", ![r].number = n]
      /\ batches' = Restore(refunds', {r})
  BY <1>0, RefundRows DEF SettleRefundSuccess, Claimable
<1>2. /\ refunds'[r].status = "SUCCEEDED" /\ refunds'[r] \in Refund
      /\ \A q \in RefundIds \ {r} : refunds'[q] = refunds[q]
  BY <1>0, <1>1 DEF Refund
<1>3. refunds'[r] # Nil
  BY <1>2, RefundRowsAssumption
<1>4. MadeIn("SUCCEEDED")' = MadeIn("SUCCEEDED") \cup {r} /\ r \notin MadeIn("SUCCEEDED")
  BY <1>1, <1>2, <1>3 DEF MadeIn, Made
<1>5. \A q \in MadeIn("SUCCEEDED") : refunds'[q] = refunds[q]
  BY <1>2, <1>4 DEF MadeIn, Made
<1>6. /\ {r} \in SUBSET RefundIds /\ IsFiniteSet({r}) /\ MadeIn("SUCCEEDED") \cap {r} = {}
      /\ \A q \in {r} : refunds'[q] \in Refund
  BY <1>2, <1>4, FS_Singleton
<1> QED
  BY <1>0, <1>1, <1>4, <1>5, <1>6, AccountReturn

LEMMA AccountOpen ==
  ASSUME AccountInv, RefundsInv', NEW r \in Made, NEW status \in {"REQUESTED", "FAILED"},
         refunds[r].status # "SUCCEEDED",
         refunds' = [refunds EXCEPT ![r].status = status], UNCHANGED walletVars
  PROVE  AccountInv' /\ UNCHANGED RefundedAccount!vars
<1>0. /\ refunds \in [RefundIds -> Refund \cup {Nil}] /\ UNCHANGED <<batches, allocations>>
      /\ r \in RefundIds /\ refunds[r] \in Refund
  BY TypeParts, RefundRows DEF AccountInv, TypeOK, walletVars, Made
<1>1. refunds'[r].status = status /\ \A q \in RefundIds \ {r} : refunds'[q] = refunds[q]
  BY <1>0 DEF Refund
<1>2. /\ MadeIn("SUCCEEDED")' = MadeIn("SUCCEEDED")
      /\ \A q \in MadeIn("SUCCEEDED") : refunds'[q] = refunds[q]
  BY <1>0, <1>1 DEF MadeIn, Made
<1>3. ASSUME NEW p \in Payments PROVE ReturnedTo(p)' = ReturnedTo(p)
  <2>1. (Of(p) \cap MadeIn("SUCCEEDED"))' = Of(p) \cap MadeIn("SUCCEEDED")
    BY <1>2 DEF Of, MadeIn
  <2>2. \A q \in Of(p) \cap MadeIn("SUCCEEDED") : WalletPart(q)' = WalletPart(q)
    BY <1>2 DEF WalletPart
  <2> QED
    BY <2>1, <2>2 DEF ReturnedTo
<1>4. /\ Spendable(Credited)' = Spendable(Credited) /\ HeldBy' = HeldBy /\ SpentBy' = SpentBy
      /\ GrantedCents' = GrantedCents
  BY <1>0, <1>3 DEF Spendable, Credited, GrantedCents, HeldBy, SpentBy, Held, Spent, With
<1> QED
  BY <1>4, IsStutter

LEMMA AccountStart ==
  ASSUME Init
  PROVE  AccountInv /\ RefundedAccount!Init
<1>0. RefundsInv /\ WalletTypeOK
  BY RefundsStart, TypeParts
<1>1. Credited = {} /\ \A p \in Payments : allocations[p] = Nil
  BY DEF Init, WalletInit, Credited
<1>2. ASSUME NEW f, IsAmounts(f), DOMAIN f = {} PROVE SumOf(f) = 0
  BY <1>2, SumOfType
<1>3. Spendable(Credited) = 0
  <2> DEFINE f == [b \in Credited |-> Cents(batches[b].available)]
  <2>1. IsAmounts(f) /\ Spendable(Credited) = SumOf(f)
    BY <1>0, SpendableType
  <2>2. DOMAIN f = {}
    BY <1>1
  <2> HIDE DEF f
  <2> QED
    BY <1>2, <2>1, <2>2
<1>4. GrantedCents = 0
  <2> DEFINE f == [b \in Credited |-> Cents(batches[b].granted)]
  <2>1. IsAmounts(f) /\ GrantedCents = SumOf(f)
    BY <1>0, GrantedType
  <2>2. DOMAIN f = {}
    BY <1>1
  <2> HIDE DEF f
  <2> QED
    BY <1>2, <2>1, <2>2
<1>5. \A p \in Payments : Held(p) = 0 /\ Spent(p) - ReturnedTo(p) = 0
  BY <1>0, <1>1, NothingHeld
<1>6. SumOf(HeldBy) = 0 /\ SumOf(SpentBy) = 0
  <2>1. HeldBy \in [Payments -> Nat] /\ SpentBy \in [Payments -> Nat]
    BY <1>0, AccountIsNatural DEF AccountFacts
  <2>2. IsAmounts(HeldBy) /\ IsAmounts(SpentBy)
    BY <2>1, AmountsOfPayments
  <2>3. \A p \in Payments : HeldBy[p] = 0 /\ SpentBy[p] = 0
    BY <1>5 DEF HeldBy, SpentBy
  <2> QED
    BY <2>1, <2>2, <2>3, SumOfType
<1>7. AccountInv
  BY <1>0, <1>3, <1>4, <1>6 DEF AccountInv
<1>8. RefundedAccount!Init
  BY <1>3, <1>5 DEF RefundedAccount!Init
<1> QED
  BY <1>7, <1>8

LEMMA AccountStays ==
  ASSUME AccountInv, UNCHANGED vars
  PROVE  AccountInv' /\ UNCHANGED RefundedAccount!vars
<1>1. RefundsInv'
  BY RefundsStay DEF AccountInv
<1>2. UNCHANGED <<batches, allocations, payments, refunds>>
  BY DEF vars, walletVars, refundVars
<1>3. /\ Spendable(Credited)' = Spendable(Credited) /\ HeldBy' = HeldBy /\ SpentBy' = SpentBy
      /\ GrantedCents' = GrantedCents
  BY <1>2 DEF Spendable, Credited, GrantedCents, HeldBy, SpentBy, Held, Spent, With,
              ReturnedTo, Of, MadeIn, Made, WalletPart
<1> QED
  BY <1>1, <1>3, IsStutter

LEMMA AccountStep ==
  ASSUME AccountInv, Next
  PROVE  AccountInv' /\ (RefundedAccount!Next \/ UNCHANGED RefundedAccount!vars)
<1> DEFINE Done == AccountInv' /\ (RefundedAccount!Next \/ UNCHANGED RefundedAccount!vars)
<1>0. RefundsInv' /\ TypeOK
  BY RefundsStep, TypeParts DEF AccountInv
<1>1. CASE TopUp
  BY <1>0, <1>1, AccountTopUp
<1>2. ASSUME NEW p \in Payments, NEW w \in Amounts, PayOrder(p, w) PROVE Done
  <2>1. w \in Nat /\ SumOf(LineCents) \in Nat
    BY WalletAssumption, LineSum
  <2>2. BeginPayment(p, Nil, SumOf(LineCents), w)
    BY <1>2 DEF PayOrder
  <2> QED
    BY <1>0, <2>1, <2>2, AccountBegin
<1>3. ASSUME NEW p \in Payments, NEW l \in Lines, NEW amount \in Supplements, NEW w \in Amounts,
             PaySupplement(p, l, amount, w)
      PROVE  Done
  <2>1. w \in Nat /\ amount \in Nat
    BY WalletAssumption, RefundsAssumption
  <2>2. BeginPayment(p, l, amount, w)
    BY <1>3 DEF PaySupplement
  <2> QED
    BY <1>0, <2>1, <2>2, AccountBegin
<1>4. ASSUME NEW p \in Payments, NEW succeeds \in BOOLEAN, SettlePayment(p, succeeds) PROVE Done
  BY <1>0, <1>4, AccountSettle
<1>5. ASSUME NEW g \in Groups, NEW cents \in [Lines -> Asked], NEW drop \in SUBSET Lines,
             RequestRefund(g, cents, drop)
      PROVE  Done
  BY <1>0, <1>5, AccountRequest
<1>6. ASSUME NEW r \in RefundIds, NEW n \in Numbers, SettleRefundSuccess(r, n) PROVE Done
  BY <1>0, <1>6, AccountSuccess
<1>7. ASSUME NEW r \in RefundIds, SettleRefundFailure(r) PROVE Done
  <2>1. /\ r \in Made /\ refunds[r].status # "SUCCEEDED" /\ UNCHANGED walletVars
        /\ refunds' = [refunds EXCEPT ![r].status = "FAILED"]
    BY <1>7 DEF SettleRefundFailure, Failable
  <2> QED
    BY <1>0, <2>1, AccountOpen
<1>8. ASSUME NEW r \in RefundIds, RetryFailedRefund(r) PROVE Done
  <2>1. /\ r \in Made /\ refunds[r].status # "SUCCEEDED" /\ UNCHANGED walletVars
        /\ refunds' = [refunds EXCEPT ![r].status = "REQUESTED"]
    BY <1>8 DEF RetryFailedRefund, MadeIn
  <2> QED
    BY <1>0, <2>1, AccountOpen
<1> QED
  BY <1>1, <1>2, <1>3, <1>4, <1>5, <1>6, <1>7, <1>8 DEF Next

\* wallet-store.ts, refunds.ts: with all its batches, portions and refunds under way,
\* the wallet keeps the promises of a plain account: money is available, held or
\* spent, moves only by whole amounts, and what was spent comes back at most once.
THEOREM RefundedWalletIsAnAccount == Spec => ImplementsRefundedWallet
<1>1. Init => AccountInv /\ RefundedAccount!Init
  BY AccountStart
<1>2. AccountInv /\ [Next]_vars => AccountInv' /\ [RefundedAccount!Next]_(RefundedAccount!vars)
  BY AccountStep, AccountStays
<1> QED
  BY <1>1, <1>2, PTL DEF Spec, ImplementsRefundedWallet, RefundedAccount!Spec
=============================================================================
