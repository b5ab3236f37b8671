------------------------- MODULE WalletStore_proofs -------------------------
(***************************************************************************)
(* Proofs about the wallet: an amount is split exactly and within what the *)
(* batches hold, the oldest first, and every operation keeps the reserved  *)
(* part of a batch equal to what waiting payments took of it.              *)
(*                                                                         *)
(* The operations are steps of OrderRefunds, which returns money to the    *)
(* batches as well; OrderRefunds_proofs composes the facts proved here.    *)
(***************************************************************************)
EXTENDS WalletStore, TennisCents_proofs

Parts == {"principal", "gift"}

LEMMA PairMax ==
  ASSUME NEW a \in Int, NEW b \in Int
  PROVE  Max({a, b}) = IF a >= b THEN a ELSE b
<1>1. \A x \in {a, b} : (\A y \in {a, b} : x >= y) => x = IF a >= b THEN a ELSE b
  OBVIOUS
<1>2. \E x \in {a, b} : \A y \in {a, b} : x >= y
  OBVIOUS
<1> QED
  BY <1>1, <1>2 DEF Max

LEMMA PairMin ==
  ASSUME NEW a \in Int, NEW b \in Int
  PROVE  Min({a, b}) = IF a <= b THEN a ELSE b
<1>1. \A x \in {a, b} : (\A y \in {a, b} : x <= y) => x = IF a <= b THEN a ELSE b
  OBVIOUS
<1>2. \E x \in {a, b} : \A y \in {a, b} : x <= y
  OBVIOUS
<1> QED
  BY <1>1, <1>2 DEF Min

LEMMA PortionType ==
  ASSUME NEW x \in Portion
  PROVE  /\ x.principal \in Nat /\ x.gift \in Nat /\ Cents(x) \in Nat
         /\ Cents(x) = x.principal + x.gift
         /\ \A part \in Parts : x[part] \in Nat
BY DEF Portion, Cents, Parts

LEMMA PortionSum ==
  ASSUME NEW x \in Portion, NEW y \in Portion
  PROVE  /\ x ++ y \in Portion /\ Cents(x ++ y) = Cents(x) + Cents(y)
         /\ \A part \in Parts : (x ++ y)[part] = x[part] + y[part]
<1>1. /\ x ++ y \in Portion /\ (x ++ y).principal = x.principal + y.principal
      /\ (x ++ y).gift = x.gift + y.gift
  BY DEF ++, Portion
<1>2. Cents(x ++ y) = Cents(x) + Cents(y)
  BY <1>1, PortionType
<1> QED
  BY <1>1, <1>2 DEF Parts

LEMMA PortionDifference ==
  ASSUME NEW x \in Portion, NEW y \in Portion, \A part \in Parts : y[part] <= x[part]
  PROVE  /\ x -- y \in Portion /\ Cents(x -- y) = Cents(x) - Cents(y)
         /\ \A part \in Parts : (x -- y)[part] = x[part] - y[part]
<1>0. y.principal <= x.principal /\ y.gift <= x.gift
  BY DEF Parts
<1>1. /\ x -- y \in Portion /\ (x -- y).principal = x.principal - y.principal
      /\ (x -- y).gift = x.gift - y.gift
  BY <1>0 DEF --, Portion
<1>2. Cents(x -- y) = Cents(x) - Cents(y)
  BY <1>1, PortionType
<1> QED
  BY <1>1, <1>2 DEF Parts

LEMMA NoPortion ==
  Nothing \in Portion /\ Cents(Nothing) = 0 /\ \A part \in Parts : Nothing[part] = 0
BY DEF Nothing, Portion, Cents, Parts

(***************************************************************************)
(* How an amount is split.                                                 *)
(***************************************************************************)
\* allocateCents over the principal and the gift a batch was credited with.
LEMMA TwoShares ==
  ASSUME NEW g \in Portion, NEW take \in Nat, Cents(g) > 0
  PROVE  LET shares == AllocateCents(take, <<g.principal, g.gift>>) IN
         /\ shares[1] \in 0 .. take
         /\ Cents(g) * shares[1] - take * g.principal \in 1 - Cents(g) .. Cents(g) - 1
<1> DEFINE w == <<g.principal, g.gift>>
           x == AllocateCents(take, w)
<1>1. /\ DOMAIN w = {1, 2} /\ w[1] = g.principal /\ w[2] = g.gift
      /\ g.principal \in Nat /\ g.gift \in Nat
  BY PortionType
<1> HIDE DEF w
<1>2. IsWeights(w) /\ IsAmounts(w)
  <2>1. IsFiniteSet({1, 2})
    <3>1. IsFiniteSet({1}) /\ {1} \cup {2} = {1, 2}
      BY FS_Singleton
    <3>2. IsFiniteSet({1} \cup {2})
      BY <3>1, FS_AddElement
    <3> QED
      BY <3>1, <3>2
  <2> QED
    BY <1>1, <2>1 DEF IsWeights, IsAmounts
<1>3. ASSUME NEW f, IsAmounts(f), DOMAIN f = {1, 2} PROVE SumOf(f) = f[1] + f[2]
  <2>1. SumOver(f, {}) = 0
    BY <1>3, SumOfNothing DEF IsAmounts
  <2>2. SumOver(f, {} \cup {2}) = f[2] + SumOver(f, {})
    BY <1>3, SumAdd
  <2>3. SumOver(f, ({} \cup {2}) \cup {1}) = f[1] + SumOver(f, {} \cup {2})
    BY <1>3, SumAdd
  <2>4. ({} \cup {2}) \cup {1} = DOMAIN f /\ f[1] \in Int /\ f[2] \in Int
    BY <1>3 DEF IsAmounts
  <2> QED
    BY <2>1, <2>2, <2>3, <2>4, SumIsFold
<1>4. SumOf(w) = Cents(g)
  BY <1>1, <1>2, <1>3, PortionType
<1>5. IsExactDivision(x, take, w)
  BY <1>2, <1>4, CentsAreAllocatedExactly
<1> HIDE DEF x
<1>6. x[1] \in Nat /\ x[2] \in Nat /\ IsAmounts(x) /\ DOMAIN x = {1, 2}
  BY <1>1, <1>2, <1>5 DEF IsExactDivision, IsAmounts
<1>7. x[1] + x[2] = take
  BY <1>3, <1>5, <1>6 DEF IsExactDivision
<1>8. Cents(g) * x[1] - take * g.principal \in 1 - Cents(g) .. Cents(g) - 1
  BY <1>1, <1>4, <1>5 DEF IsExactDivision
<1> QED
  BY <1>6, <1>7, <1>8 DEF x, w

\* A batch gives exactly `take` cents, no part of it more than is available; its
\* principal is within one cent of its share unless a part is used up.
LEMMA SplitFits ==
  ASSUME NEW row \in Batch, Cents(row.granted) > 0,
         NEW take \in 0 .. Cents(row.available)
  PROVE  LET x == Split(row, take)
             whole == Cents(row.granted)
             exact == take * row.granted.principal
         IN  /\ x \in Portion /\ Cents(x) = take
             /\ \A part \in Parts : x[part] <= row.available[part]
             /\ x.principal * whole >= exact + whole => x.gift = row.available.gift
             /\ x.principal * whole <= exact - whole => x.principal = row.available.principal
<1> DEFINE share == AllocateCents(take, <<row.granted.principal, row.granted.gift>>)[1]
           principal == Max({take - row.available.gift, Min({share, row.available.principal})})
           x == Split(row, take)
           whole == Cents(row.granted)
           ap == row.available.principal
           ag == row.available.gift
           gp == row.granted.principal
<1>1. /\ row.available \in Portion /\ row.granted \in Portion
      /\ ap \in Nat /\ ag \in Nat /\ gp \in Nat /\ whole \in Nat \ {0}
      /\ Cents(row.available) = ap + ag /\ take \in Nat /\ take <= ap + ag
  <2>1. row.available \in Portion /\ row.granted \in Portion
    BY DEF Batch
  <2>2. ap \in Nat /\ ag \in Nat /\ Cents(row.available) = ap + ag
    BY <2>1, PortionType
  <2>3. gp \in Nat /\ whole \in Nat
    BY <2>1, PortionType
  <2> QED
    BY <2>1, <2>2, <2>3
<1>2. share \in 0 .. take /\ whole * share - take * gp \in 1 - whole .. whole - 1
  BY <1>1, TwoShares
<1>3. x = [principal |-> principal, gift |-> take - principal]
  BY DEF Split
<1> HIDE DEF share, x, ap, ag, gp, whole
<1>4. principal = IF share <= ap THEN IF take - ag >= share THEN take - ag ELSE share
                  ELSE IF take - ag >= ap THEN take - ag ELSE ap
  <2>1. share \in Int /\ ap \in Int /\ take - ag \in Int
    BY <1>1, <1>2
  <2>2. Min({share, ap}) = IF share <= ap THEN share ELSE ap
    BY <2>1, PairMin
  <2>3. principal = Max({take - ag, Min({share, ap})})
    BY DEF ap, ag
  <2> QED
    BY <2>1, <2>2, <2>3, PairMax
<1> HIDE DEF principal
<1>5. principal \in Nat /\ principal <= ap /\ take - principal \in Nat /\ take - principal <= ag
  BY <1>1, <1>2, <1>4
<1>6. /\ x.principal = principal /\ x.gift = take - principal /\ x \in Portion
  BY <1>3, <1>5 DEF Portion
<1>7. Cents(x) = take
  BY <1>1, <1>5, <1>6 DEF Cents
<1>8. \A part \in Parts : x[part] <= row.available[part]
  BY <1>5, <1>6 DEF Parts, ap, ag
<1>9. ASSUME principal * whole >= take * gp + whole PROVE take - principal = ag
  <2>1. SUFFICES ASSUME principal <= share PROVE FALSE
    BY <1>1, <1>2, <1>4
  <2>2. principal * whole <= whole * share
    BY <2>1, <1>1, <1>2, <1>5
  <2>3. whole * share \in Int /\ take * gp \in Int /\ principal * whole \in Int
    BY <1>1, <1>2, <1>5
  <2>4. whole * share - take * gp <= whole - 1
    BY <1>1, <1>2
  <2> QED
    BY <1>1, <1>9, <2>2, <2>3, <2>4
<1>10. ASSUME principal * whole <= take * gp - whole PROVE principal = ap
  <2>1. SUFFICES ASSUME principal >= share PROVE FALSE
    BY <1>1, <1>2, <1>4
  <2>2. principal * whole >= whole * share
    BY <2>1, <1>1, <1>2, <1>5
  <2>3. whole * share \in Int /\ take * gp \in Int /\ principal * whole \in Int
    BY <1>1, <1>2, <1>5
  <2> QED
    BY <1>1, <1>2, <1>10, <2>2, <2>3
<1> QED
  BY <1>6, <1>7, <1>8, <1>9, <1>10 DEF x, whole, ap, ag, gp

(***************************************************************************)
(* The batches of a wallet: numbered from 1 in the order they were         *)
(* credited.                                                               *)
(***************************************************************************)
Numbered ==
  /\ \A b \in Credited : /\ Cents(batches[b].granted) > 0
                         /\ batches[b].credited <= Cardinality(Credited)
  /\ \A a, b \in Credited : batches[a].credited = batches[b].credited => a = b

Available == [b \in Credited |-> Cents(batches[b].available)]

LEMMA CreditedRows ==
  ASSUME WalletTypeOK
  PROVE  /\ IsFiniteSet(Batches) /\ IsFiniteSet(Credited) /\ Credited \subseteq Batches
         /\ Cardinality(Credited) \in Nat
         /\ \A b \in Credited :
              /\ batches[b] \in Batch /\ batches[b] # Nil
              /\ batches[b].granted \in Portion /\ batches[b].available \in Portion
              /\ batches[b].reserved \in Portion /\ batches[b].credited \in Nat \ {0}
         /\ \A b \in Batches : b \notin Credited => batches[b] = Nil
<1>1. IsFiniteSet(Batches) /\ Credited \subseteq Batches
  BY WalletAssumption DEF Credited
<1>2. IsFiniteSet(Credited) /\ Cardinality(Credited) \in Nat
  BY <1>1, FS_Subset, FS_CardinalityType
<1>3. \A b \in Credited : batches[b] \in Batch /\ batches[b] # Nil
  BY DEF WalletTypeOK, Credited
<1>4. \A b \in Credited :
        /\ batches[b].granted \in Portion /\ batches[b].available \in Portion
        /\ batches[b].reserved \in Portion /\ batches[b].credited \in Nat \ {0}
  BY <1>3 DEF Batch
<1>5. \A b \in Batches : b \notin Credited => batches[b] = Nil
  BY DEF Credited
<1> QED
  BY <1>1, <1>2, <1>3, <1>4, <1>5

LEMMA AvailableAmounts ==
  ASSUME WalletTypeOK
  PROVE  /\ IsAmounts(Available) /\ DOMAIN Available = Credited
         /\ \A b \in Credited : /\ Available[b] \in Nat
                                /\ Available[b] = Cents(batches[b].available)
         /\ \A B \in SUBSET Credited : Spendable(B) = SumOver(Available, B)
<1>1. /\ DOMAIN Available = Credited /\ IsFiniteSet(Credited)
      /\ \A b \in Credited : Available[b] = Cents(batches[b].available)
  BY CreditedRows DEF Available
<1>2. \A b \in Credited : Available[b] \in Nat
  BY <1>1, CreditedRows, PortionType
<1>3. IsAmounts(Available)
  BY <1>1, <1>2 DEF IsAmounts
<1>4. ASSUME NEW B \in SUBSET Credited PROVE Spendable(B) = SumOver(Available, B)
  <2> DEFINE f == [b \in B |-> Cents(batches[b].available)]
  <2>1. DOMAIN f = B /\ \A b \in B : f[b] = Available[b] /\ f[b] \in Int
    BY <1>1, <1>2
  <2>2. IsFiniteSet(B)
    BY <1>1, FS_Subset
  <2>3. Spendable(B) = SumOf(f)
    BY DEF Spendable
  <2> HIDE DEF f
  <2>4. IsAmounts(f)
    BY <2>1, <2>2 DEF IsAmounts
  <2>5. SumOver(f, B) = SumOver(Available, B)
    BY <1>1, <1>3, <2>1, <2>4, SumSame
  <2> QED
    BY <2>1, <2>3, <2>5, SumIsFold
<1> QED
  BY <1>1, <1>2, <1>3, <1>4

\* What allocateWalletDebit takes of a batch: what the earlier batches leave of the
\* amount, as far as it reaches.
Take(amount) ==
  [b \in Credited |-> Min({Max({0, amount - Spendable(Earlier(b))}), Available[b]})]

LEMMA TakeIsWhatIsLeft ==
  ASSUME WalletTypeOK, NEW amount \in Nat
  PROVE  /\ IsAmounts(Take(amount)) /\ DOMAIN Take(amount) = Credited
         /\ \A b \in Credited :
              LET F == SumOver(Available, Earlier(b)) IN
              /\ Earlier(b) \subseteq Credited /\ F \in Nat
              /\ Take(amount)[b] \in 0 .. Available[b]
              /\ Take(amount)[b] = IF amount <= F THEN 0
                                   ELSE IF amount - F <= Available[b] THEN amount - F
                                   ELSE Available[b]
<1> DEFINE T == Take(amount)
<1>0. /\ IsAmounts(Available) /\ DOMAIN Available = Credited /\ IsFiniteSet(Credited)
      /\ \A b \in Credited : Available[b] \in Nat
  BY AvailableAmounts, CreditedRows
<1>1. ASSUME NEW b \in Credited, NEW F, F = SumOver(Available, Earlier(b))
      PROVE  /\ Earlier(b) \subseteq Credited /\ F \in Nat
             /\ T[b] \in 0 .. Available[b]
             /\ T[b] = IF amount <= F THEN 0
                       ELSE IF amount - F <= Available[b] THEN amount - F ELSE Available[b]
  <2>1. Earlier(b) \in SUBSET Credited
    BY DEF Earlier
  <2>2. F \in Nat
    BY <1>0, <1>1, <2>1, SumOfNaturals
  <2>3. Spendable(Earlier(b)) = F
    BY <1>1, <2>1, AvailableAmounts
  <2> DEFINE left == Max({0, amount - F})
  <2>4. left = IF 0 >= amount - F THEN 0 ELSE amount - F
    BY <2>2, PairMax
  <2>5. left \in Nat /\ Available[b] \in Nat
    BY <1>0, <2>2, <2>4
  <2>6. T[b] = Min({left, Available[b]})
    BY <2>3 DEF Take
  <2> HIDE DEF left, T
  <2>7. T[b] = IF left <= Available[b] THEN left ELSE Available[b]
    BY <2>5, <2>6, PairMin
  <2> QED
    BY <2>1, <2>2, <2>4, <2>5, <2>7
<1>2. DOMAIN T = Credited
  BY DEF Take
<1> HIDE DEF T
<1>3. IsAmounts(T)
  BY <1>0, <1>1, <1>2 DEF IsAmounts
<1> QED
  BY <1>1, <1>2, <1>3 DEF T

\* In the order they were credited, the batches give exactly the amount, as far as
\* they reach.
LEMMA TakesAddUp ==
  ASSUME WalletTypeOK, Numbered, NEW amount \in Nat, amount <= SumOver(Available, Credited)
  PROVE  SumOver(Take(amount), Credited) = amount
<1> DEFINE f == Available
           T == Take(amount)
           Closed(S) == \A b \in S : Earlier(b) \subseteq S
           Exact(S) == SumOver(T, S) = IF amount <= SumOver(f, S) THEN amount ELSE SumOver(f, S)
           N == {n \in Nat : \A S \in SUBSET Credited :
                               Cardinality(S) = n /\ Closed(S) => Exact(S)}
<1>0. /\ IsAmounts(f) /\ DOMAIN f = Credited /\ IsFiniteSet(Credited)
      /\ IsAmounts(T) /\ DOMAIN T = Credited
      /\ \A b \in Credited : f[b] \in Nat
      /\ \A b \in Credited : batches[b].credited \in Nat
  BY AvailableAmounts, CreditedRows, TakeIsWhatIsLeft
<1>1. \A b \in Credited :
         /\ Earlier(b) \subseteq Credited /\ SumOver(f, Earlier(b)) \in Nat
         /\ T[b] = IF amount <= SumOver(f, Earlier(b)) THEN 0
                   ELSE IF amount - SumOver(f, Earlier(b)) <= f[b]
                        THEN amount - SumOver(f, Earlier(b)) ELSE f[b]
  BY TakeIsWhatIsLeft
<1> HIDE DEF f, T
<1>2. 0 \in N
  <2>1. SUFFICES ASSUME NEW S \in SUBSET Credited, Cardinality(S) = 0 PROVE Exact(S)
    OBVIOUS
  <2>2. S = {}
    BY <1>0, <2>1, FS_Subset, FS_EmptySet
  <2>3. SumOver(f, S) = 0 /\ SumOver(T, S) = 0
    BY <1>0, <2>2, SumOfNothing
  <2> QED
    BY <2>3
<1>3. ASSUME NEW n \in N PROVE n + 1 \in N
  <2>1. SUFFICES ASSUME NEW S \in SUBSET Credited, Cardinality(S) = n + 1, Closed(S)
                 PROVE Exact(S)
    OBVIOUS
  <2>2. IsFiniteSet(S) /\ S # {} /\ n \in Nat
    <3>1. IsFiniteSet(S) /\ n \in Nat /\ n + 1 # 0
      BY <1>0, FS_Subset
    <3> QED
      BY <2>1, <3>1, FS_EmptySet
  <2>3. PICK b \in S : \A a \in S : batches[a].credited <= batches[b].credited
    <3> DEFINE c == Cardinality(Credited)
               M == {c - batches[a].credited : a \in S}
    <3>1. c \in Nat /\ \A a \in S : batches[a].credited \in Nat /\ c - batches[a].credited \in Nat
      BY <1>0, CreditedRows DEF Numbered
    <3>2. M \in SUBSET Nat /\ M # {}
      BY <2>2, <3>1
    <3>3. PICK m \in M : \A k \in M : m <= k
      <4> HIDE DEF M
      <4> QED
        BY <3>2, LeastOf
    <3>4. PICK b \in S : m = c - batches[b].credited
      BY <3>3
    <3>5. ASSUME NEW a \in S PROVE batches[a].credited <= batches[b].credited
      <4>1. c - batches[b].credited <= c - batches[a].credited
        BY <3>3, <3>4
      <4> HIDE DEF c
      <4> QED
        BY <3>1, <4>1
    <3> QED
      BY <3>5
  <2>4. S \ {b} = Earlier(b)
    <3>1. ASSUME NEW a \in S \ {b} PROVE a \in Earlier(b)
      <4>1. batches[a].credited # batches[b].credited
        BY <3>1 DEF Numbered
      <4>2. batches[a].credited < batches[b].credited
        BY <1>0, <2>3, <4>1
      <4> QED
        BY <4>2 DEF Earlier
    <3>2. ASSUME NEW a \in Earlier(b) PROVE a \in S \ {b}
      <4>1. a \in S
        BY <2>1, <3>2
      <4>2. batches[a].credited < batches[b].credited
        BY <3>2 DEF Earlier
      <4> QED
        BY <1>0, <4>1, <4>2
    <3> QED
      BY <3>1, <3>2
  <2>5. Closed(Earlier(b))
    <3>1. ASSUME NEW a \in Earlier(b), NEW d \in Earlier(a) PROVE d \in Earlier(b)
      <4>1. /\ d \in Credited /\ batches[d].credited < batches[a].credited
            /\ a \in Credited /\ batches[a].credited < batches[b].credited /\ b \in Credited
        BY <2>3, <3>1 DEF Earlier
      <4>2. batches[d].credited < batches[b].credited
        BY <1>0, <4>1
      <4> QED
        BY <4>1, <4>2 DEF Earlier
    <3> QED
      BY <3>1
  <2>6. Cardinality(Earlier(b)) = n
    BY <2>1, <2>2, <2>4, FS_RemoveElement
  <2>7. Exact(Earlier(b))
    BY <1>1, <2>5, <2>6
  <2>8. /\ SumOver(T, S) = T[b] + SumOver(T, S \ {b}) /\ SumOver(T, S) \in Int
        /\ SumOver(f, S) = f[b] + SumOver(f, S \ {b}) /\ SumOver(f, S) \in Int
    BY <1>0, SumTakeOut
  <2>9. /\ SumOver(T, S) = T[b] + SumOver(T, Earlier(b))
        /\ SumOver(f, S) = f[b] + SumOver(f, Earlier(b))
    BY <2>4, <2>8
  <2>10. /\ SumOver(f, Earlier(b)) \in Nat /\ f[b] \in Nat
         /\ T[b] = IF amount <= SumOver(f, Earlier(b)) THEN 0
                   ELSE IF amount - SumOver(f, Earlier(b)) <= f[b]
                        THEN amount - SumOver(f, Earlier(b)) ELSE f[b]
    BY <1>0, <1>1
  <2> QED
    BY <2>7, <2>9, <2>10
<1>4. N = Nat
  <2> HIDE DEF N
  <2>1. N \in SUBSET Nat
    BY DEF N
  <2> QED
    BY <1>2, <1>3, <2>1, SetInduction
<1>5. Closed(Credited) /\ Cardinality(Credited) \in N
  BY <1>1, <1>4, CreditedRows
<1>6. Exact(Credited)
  BY <1>5
<1> QED
  BY <1>6 DEF f, T

\* The rows of what a payment takes of each batch.
LEMMA DebitRow ==
  ASSUME WalletTypeOK, Numbered, NEW amount \in Nat, NEW b \in Credited
  PROVE  LET x == AllocateWalletDebit(amount)[b]
             take == Take(amount)[b]
             row == batches[b]
             whole == Cents(row.granted)
             exact == take * row.granted.principal
         IN  /\ x \in Portion /\ Cents(x) = take /\ take \in 0 .. Cents(row.available)
             /\ \A part \in Parts : x[part] <= row.available[part]
             /\ x.principal * whole >= exact + whole => x.gift = row.available.gift
             /\ x.principal * whole <= exact - whole => x.principal = row.available.principal
<1> DEFINE take == Take(amount)[b]
<1>1. b \in Batches /\ batches[b] \in Batch /\ Cents(batches[b].granted) > 0
  BY CreditedRows DEF Numbered
<1>2. AllocateWalletDebit(amount)[b] = Split(batches[b], take)
  BY <1>1, AvailableAmounts DEF AllocateWalletDebit, Take
<1>3. take \in 0 .. Cents(batches[b].available)
  BY TakeIsWhatIsLeft, AvailableAmounts
<1> HIDE DEF take
<1>4. LET x == Split(batches[b], take)
          whole == Cents(batches[b].granted)
          exact == take * batches[b].granted.principal
      IN  /\ x \in Portion /\ Cents(x) = take
          /\ \A part \in Parts : x[part] <= batches[b].available[part]
          /\ x.principal * whole >= exact + whole => x.gift = batches[b].available.gift
          /\ x.principal * whole <= exact - whole => x.principal = batches[b].available.principal
  BY <1>1, <1>3, SplitFits
<1> QED
  BY <1>2, <1>3, <1>4 DEF take

LEMMA DebitType ==
  ASSUME WalletTypeOK, Numbered, NEW amount \in Nat
  PROVE  LET x == AllocateWalletDebit(amount) IN
         /\ x \in [Batches -> Portion]
         /\ \A b \in Batches \ Credited : x[b] = Nothing
         /\ \A b \in Credited, part \in Parts : x[b][part] <= batches[b].available[part]
<1> DEFINE x == AllocateWalletDebit(amount)
<1>1. DOMAIN x = Batches /\ x = [b \in Batches |-> x[b]]
  BY DEF AllocateWalletDebit
<1>2. \A b \in Batches \ Credited : x[b] = Nothing
  BY DEF AllocateWalletDebit
<1>3. \A b \in Credited : x[b] \in Portion /\ \A part \in Parts : x[b][part] <= batches[b].available[part]
  BY DebitRow
<1> HIDE DEF x
<1>4. \A b \in Batches : x[b] \in Portion
  BY <1>2, <1>3, NoPortion
<1> QED
  BY <1>1, <1>2, <1>3, <1>4 DEF x

\* allocateWalletDebit: the portions are together the amount asked for.
LEMMA DebitIsExact ==
  ASSUME WalletTypeOK, Numbered, NEW amount \in Nat, amount <= Spendable(Credited)
  PROVE  SumOf([b \in Batches |-> Cents(AllocateWalletDebit(amount)[b])]) = amount
<1> DEFINE x == AllocateWalletDebit(amount)
           f == [b \in Batches |-> Cents(x[b])]
           T == Take(amount)
<1>1. x \in [Batches -> Portion] /\ \A b \in Batches \ Credited : x[b] = Nothing
  BY DebitType
<1>2. \A b \in Credited : Cents(x[b]) = T[b]
  BY DebitRow
<1>3. IsAmounts(T) /\ DOMAIN T = Credited
  BY TakeIsWhatIsLeft
<1>4. IsFiniteSet(Batches) /\ Credited \subseteq Batches
  BY CreditedRows
<1>5. SumOver(T, Credited) = amount
  BY TakesAddUp, AvailableAmounts
<1> HIDE DEF x, T
<1>6. DOMAIN f = Batches /\ \A b \in Batches : f[b] = Cents(x[b]) /\ f[b] \in Int
  BY <1>1, PortionType
<1>7. \A b \in Batches \ Credited : f[b] = 0
  BY <1>1, <1>6, NoPortion
<1>8. \A b \in Credited : f[b] = T[b]
  BY <1>2, <1>4, <1>6
<1> HIDE DEF f
<1>9. IsAmounts(f)
  BY <1>4, <1>6 DEF IsAmounts
<1>10. SumOf(f) = SumOf(T)
  BY <1>3, <1>4, <1>6, <1>7, <1>8, <1>9, SumOfWider
<1>11. SumOf(f) = amount
  BY <1>3, <1>5, <1>10, SumIsFold
<1> QED
  BY <1>11 DEF f, x

\* What is taken of a batch is taken of the earlier ones first.
LEMMA DebitIsOldestFirst ==
  ASSUME WalletTypeOK, Numbered, NEW amount \in Nat, NEW b \in Credited, NEW a \in Credited,
         batches[a].credited < batches[b].credited,
         Cents(AllocateWalletDebit(amount)[b]) > 0
  PROVE  Cents(AllocateWalletDebit(amount)[a]) = Cents(batches[a].available)
<1> DEFINE T == Take(amount)
           f == Available
           A == SumOver(f, Earlier(a))
           B == SumOver(f, Earlier(b))
<1>1. IsAmounts(f) /\ DOMAIN f = Credited /\ \A c \in Credited : f[c] \in Nat
  BY AvailableAmounts
<1>2. /\ Earlier(a) \subseteq Credited /\ A \in Nat
      /\ T[a] = IF amount <= A THEN 0 ELSE IF amount - A <= f[a] THEN amount - A ELSE f[a]
  BY TakeIsWhatIsLeft
<1>3. /\ Earlier(b) \subseteq Credited /\ B \in Nat
      /\ T[b] = IF amount <= B THEN 0 ELSE IF amount - B <= f[b] THEN amount - B ELSE f[b]
  BY TakeIsWhatIsLeft
<1>4. T[b] > 0
  BY DebitRow
<1>5. /\ Earlier(a) \cup {a} \in SUBSET Earlier(b) /\ a \notin Earlier(a)
  <2>1. \A c \in Credited : batches[c].credited \in Nat
    BY CreditedRows
  <2> QED
    BY <2>1 DEF Earlier
<1>6. Cents(AllocateWalletDebit(amount)[a]) = T[a] /\ f[a] = Cents(batches[a].available)
  BY DebitRow, AvailableAmounts
<1> HIDE DEF f, T
<1>7. SumOver(f, Earlier(a) \cup {a}) = f[a] + A
  BY <1>1, <1>2, <1>5, SumAdd
<1>8. SumOver(f, Earlier(a) \cup {a}) <= B
  BY <1>1, <1>3, <1>5, SumOfNaturals
<1> HIDE DEF A, B
<1>9. f[a] + A <= B /\ f[a] \in Nat /\ f[b] \in Nat
  BY <1>1, <1>7, <1>8
<1>10. amount > B
  BY <1>3, <1>4, <1>9
<1>11. T[a] = f[a]
  BY <1>2, <1>3, <1>9, <1>10
<1> QED
  BY <1>6, <1>11

(***************************************************************************)
(* What payments took of a batch.                                          *)
(***************************************************************************)
TakenBy(rows, b, P, part) == SumOf([p \in P |-> rows[p].portions[b][part]])

LEMMA TakenSame ==
  ASSUME NEW rows, NEW more, NEW P, NEW b, NEW part,
         \A p \in P : more[p].portions[b][part] = rows[p].portions[b][part]
  PROVE  TakenBy(more, b, P, part) = TakenBy(rows, b, P, part)
<1>1. [p \in P |-> more[p].portions[b][part]] = [p \in P |-> rows[p].portions[b][part]]
  OBVIOUS
<1> QED
  BY <1>1 DEF TakenBy

LEMMA TakenType ==
  ASSUME NEW rows, NEW P, IsFiniteSet(P), NEW b, NEW part,
         \A p \in P : rows[p].portions[b][part] \in Nat
  PROVE  /\ TakenBy(rows, b, P, part) \in Nat
         /\ IsAmounts([p \in P |-> rows[p].portions[b][part]])
<1> DEFINE f == [p \in P |-> rows[p].portions[b][part]]
<1>1. DOMAIN f = P /\ \A p \in P : f[p] \in Nat
  OBVIOUS
<1>2. TakenBy(rows, b, P, part) = SumOf(f)
  BY DEF TakenBy
<1> HIDE DEF f
<1>3. IsAmounts(f) /\ \A p \in DOMAIN f : f[p] >= 0
  BY <1>1 DEF IsAmounts
<1> QED
  BY <1>2, <1>3, SumOfType DEF f

LEMMA TakenMore ==
  ASSUME NEW rows, NEW P, IsFiniteSet(P), NEW p \in P, NEW b, NEW part,
         \A q \in P : rows[q].portions[b][part] \in Nat
  PROVE  TakenBy(rows, b, P, part)
           = rows[p].portions[b][part] + TakenBy(rows, b, P \ {p}, part)
<1> DEFINE g == [q \in P |-> rows[q].portions[b][part]]
           f == [q \in P \ {p} |-> rows[q].portions[b][part]]
<1>1. IsAmounts(g)
  BY TakenType
<1>2. IsFiniteSet(P \ {p})
  BY FS_Subset
<1>3. IsAmounts(f)
  BY <1>2 DEF IsAmounts
<1>4. /\ DOMAIN g = P /\ DOMAIN f = P \ {p} /\ g[p] = rows[p].portions[b][part]
      /\ \A q \in P \ {p} : f[q] = g[q]
  OBVIOUS
<1>5. TakenBy(rows, b, P, part) = SumOf(g) /\ TakenBy(rows, b, P \ {p}, part) = SumOf(f)
  BY DEF TakenBy
<1> HIDE DEF f, g
<1>6. SumOf(g) = g[p] + SumOf(f)
  BY <1>1, <1>3, <1>4, SumOfMore
<1> QED
  BY <1>4, <1>5, <1>6

\* Payments whose money is out of the available part of the batches.
Holding == With("RESERVED") \cup With("CONSUMED")
Taken(b, part) == From(b, Holding, part)

(***************************************************************************)
(* The invariant of the wallet.  What is reserved of a batch is what       *)
(* waiting payments took of it, and nothing is taken of a batch before it  *)
(* is credited: a release never adds to a batch what it did not lose.      *)
(***************************************************************************)
GrantedCents == SumOf([b \in Credited |-> Cents(batches[b].granted)])

ReservedIsHeld ==
  \A b \in Credited, part \in Parts :
    batches[b].reserved[part] = From(b, With("RESERVED"), part)

TakenWhereCredited ==
  \A p \in Payments : allocations[p] # Nil =>
    \A b \in Batches \ Credited : allocations[p].portions[b] = Nothing

WalletInv ==
  /\ WalletTypeOK
  /\ Numbered
  /\ TakenWhereCredited
  /\ ReservedIsHeld
  /\ GrantedCents <= MaxCents

\* What a payment does to the batches: it moves their money, part by part.
Moves ==
  /\ Credited' = Credited
  /\ \A b \in Credited : /\ batches'[b].granted = batches[b].granted
                         /\ batches'[b].credited = batches[b].credited
  /\ \A b \in Credited, part \in Parts :
       batches'[b].available[part] + Taken(b, part)' = batches[b].available[part] + Taken(b, part)

LEMMA AllocationRows ==
  ASSUME WalletTypeOK
  PROVE  /\ IsFiniteSet(Payments)
         /\ \A S : IsFiniteSet(With(S)) /\ With(S) \subseteq Payments
         /\ IsFiniteSet(Holding) /\ Holding \subseteq Payments
         /\ \A p \in Payments : allocations[p] # Nil =>
              /\ allocations[p] \in Allocation
              /\ allocations[p].portions \in [Batches -> Portion]
              /\ \A b \in Batches, part \in Parts : allocations[p].portions[b][part] \in Nat
<1>1. IsFiniteSet(Payments)
  BY WalletAssumption
<1>2. \A S : With(S) \in SUBSET Payments /\ IsFiniteSet(With(S))
  BY <1>1, FS_Subset DEF With
<1>3. Holding \in SUBSET Payments /\ IsFiniteSet(Holding)
  BY <1>1, <1>2, FS_Subset DEF Holding
<1>4. ASSUME NEW p \in Payments, allocations[p] # Nil
      PROVE  allocations[p] \in Allocation /\ allocations[p].portions \in [Batches -> Portion]
  BY <1>4 DEF WalletTypeOK, Allocation
<1>5. ASSUME NEW p \in Payments, allocations[p] # Nil, NEW b \in Batches, NEW part \in Parts
      PROVE  allocations[p].portions[b][part] \in Nat
  BY <1>4, <1>5, PortionType
<1> QED
  BY <1>1, <1>2, <1>3, <1>4, <1>5

LEMMA FromType ==
  ASSUME WalletTypeOK, NEW b \in Batches, NEW part \in Parts,
         NEW P \in SUBSET Payments, \A p \in P : allocations[p] # Nil
  PROVE  From(b, P, part) \in Nat /\ From(b, P, part) = TakenBy(allocations, b, P, part)
<1>1. IsFiniteSet(P) /\ \A p \in P : allocations[p].portions[b][part] \in Nat
  BY AllocationRows, FS_Subset
<1>2. TakenBy(allocations, b, P, part) \in Nat
  BY <1>1, TakenType
<1>3. From(b, P, part) = TakenBy(allocations, b, P, part)
  BY DEF From, TakenBy
<1> QED
  BY <1>2, <1>3

\* Nothing is taken of a batch that was not credited yet.
LEMMA NothingTaken ==
  ASSUME WalletTypeOK, TakenWhereCredited, NEW b \in Batches \ Credited, NEW part \in Parts,
         NEW P \in SUBSET Payments, \A p \in P : allocations[p] # Nil
  PROVE  From(b, P, part) = 0
<1> DEFINE f == [p \in P |-> allocations[p].portions[b][part]]
<1>1. IsFiniteSet(P)
  BY AllocationRows, FS_Subset
<1>2. \A p \in P : f[p] = 0
  BY NoPortion DEF TakenWhereCredited
<1>3. DOMAIN f = P /\ From(b, P, part) = SumOf(f)
  BY DEF From
<1> HIDE DEF f
<1>4. IsAmounts(f)
  BY <1>1, <1>2, <1>3 DEF IsAmounts
<1> QED
  BY <1>2, <1>3, <1>4, SumOfType

(***************************************************************************)
(* creditWalletBatch                                                       *)
(***************************************************************************)
LEMMA CreditRow ==
  ASSUME WalletInv, NEW b \in Batches, NEW grant \in Portion, CreditWalletBatch(b, grant)
  PROVE  /\ WalletTypeOK' /\ Credited' = Credited \cup {b} /\ b \notin Credited
         /\ Cardinality(Credited') = Cardinality(Credited) + 1
         /\ \A a \in Credited : batches'[a] = batches[a]
         /\ batches'[b].granted = grant /\ batches'[b].available = grant
         /\ batches'[b].reserved = Nothing /\ batches'[b].credited = Cardinality(Credited) + 1
         /\ allocations' = allocations /\ Cents(grant) > 0
<1> DEFINE row == [granted |-> grant, available |-> grant, reserved |-> Nothing,
                   credited |-> Cardinality(Credited) + 1]
<1>0. WalletTypeOK
  BY DEF WalletInv
<1>1. /\ b \notin Credited /\ Cents(grant) > 0 /\ allocations' = allocations
      /\ batches' = [batches EXCEPT ![b] = row]
  BY DEF CreditWalletBatch
<1>2. row \in Batch
  BY <1>0, CreditedRows, NoPortion DEF Batch
<1>3. row # Nil
  BY <1>2, WalletRowsAssumption
<1>4. /\ row.granted = grant /\ row.available = grant /\ row.reserved = Nothing
      /\ row.credited = Cardinality(Credited) + 1
  OBVIOUS
<1> HIDE DEF row
<1>5. batches \in [Batches -> Batch \cup {Nil}]
  BY <1>0 DEF WalletTypeOK
<1>6. batches'[b] = row /\ \A a \in Batches \ {b} : batches'[a] = batches[a]
  BY <1>1, <1>5
<1>7. WalletTypeOK'
  BY <1>0, <1>1, <1>2, <1>5 DEF WalletTypeOK
<1>8. Credited' = Credited \cup {b}
  BY <1>3, <1>6 DEF Credited
<1>9. \A a \in Credited : batches'[a] = batches[a]
  BY <1>1, <1>6 DEF Credited
<1>10. Cardinality(Credited') = Cardinality(Credited) + 1
  BY <1>0, <1>1, <1>8, CreditedRows, FS_AddElement
<1> QED
  BY <1>1, <1>4, <1>6, <1>7, <1>8, <1>9, <1>10

LEMMA CreditKeepsWalletInv ==
  ASSUME WalletInv, NEW b \in Batches, NEW grant \in Portion, CreditWalletBatch(b, grant)
  PROVE  WalletInv'
<1> DEFINE n == Cardinality(Credited)
<1>0. WalletTypeOK /\ Numbered /\ TakenWhereCredited /\ ReservedIsHeld /\ GrantedCents <= MaxCents
  BY DEF WalletInv
<1>1. /\ WalletTypeOK' /\ Credited' = Credited \cup {b} /\ b \notin Credited
      /\ Cardinality(Credited') = n + 1
      /\ \A a \in Credited : batches'[a] = batches[a]
      /\ batches'[b].granted = grant /\ batches'[b].available = grant
      /\ batches'[b].reserved = Nothing /\ batches'[b].credited = n + 1
      /\ allocations' = allocations /\ Cents(grant) > 0
  BY CreditRow
<1>2. /\ n \in Nat /\ IsFiniteSet(Credited) /\ Credited \subseteq Batches
      /\ \A a \in Credited : batches[a].credited \in Nat
  BY <1>0, CreditedRows
<1>3. Numbered'
  <2>1. \A a \in Credited : batches[a].credited <= n /\ Cents(batches[a].granted) > 0
    BY <1>0 DEF Numbered
  <2>2. \A a, c \in Credited : batches[a].credited = batches[c].credited => a = c
    BY <1>0 DEF Numbered
  <2> HIDE DEF n
  <2>3. \A a \in Credited' : /\ Cents(batches'[a].granted) > 0
                             /\ batches'[a].credited <= n + 1
    BY <1>1, <1>2, <2>1
  <2>4. \A a, c \in Credited' : batches'[a].credited = batches'[c].credited => a = c
    BY <1>1, <1>2, <2>1, <2>2
  <2> QED
    BY <1>1, <2>3, <2>4 DEF Numbered
<1>4. TakenWhereCredited'
  BY <1>0, <1>1 DEF TakenWhereCredited
<1>5. ReservedIsHeld'
  <2>1. \A a, part : From(a, With("RESERVED"), part)' = From(a, With("RESERVED"), part)
    BY <1>1 DEF From, With
  <2>2. \A part \in Parts : From(b, With("RESERVED"), part) = 0
    BY <1>0, <1>1, NothingTaken DEF With
  <2>3. ASSUME NEW a \in Credited, NEW part \in Parts
        PROVE  batches'[a].reserved[part] = From(a, With("RESERVED"), part)
    BY <1>0, <1>1 DEF ReservedIsHeld
  <2>4. ASSUME NEW part \in Parts PROVE batches'[b].reserved[part] = From(b, With("RESERVED"), part)
    BY <1>1, <2>2, NoPortion
  <2> QED
    BY <1>1, <2>1, <2>3, <2>4 DEF ReservedIsHeld
<1>6. GrantedCents' <= MaxCents
  <2> DEFINE f == [a \in Credited |-> Cents(batches[a].granted)]
             g == [a \in Credited' |-> Cents(batches'[a].granted)]
  <2>1. SumOf(f) + Cents(grant) <= MaxCents
    BY DEF CreditWalletBatch, Creditable
  <2>2. /\ DOMAIN f = Credited /\ DOMAIN g = Credited \cup {b} /\ g[b] = Cents(grant)
        /\ \A a \in Credited : f[a] = g[a] /\ f[a] \in Int
        /\ Cents(grant) \in Int
    BY <1>0, <1>1, CreditedRows, PortionType
  <2>3. GrantedCents' = SumOf(g)
    BY DEF GrantedCents
  <2> HIDE DEF f, g
  <2>4. IsFiniteSet(Credited \cup {b})
    BY <1>2, FS_AddElement
  <2>5. IsAmounts(f) /\ IsAmounts(g)
    BY <1>2, <2>2, <2>4 DEF IsAmounts
  <2>6. SumOf(g) = g[b] + SumOf(f)
    BY <1>1, <2>2, <2>5, SumOfMore
  <2>7. SumOf(f) \in Int
    BY <2>5, SumOfType
  <2> QED
    BY <2>1, <2>2, <2>3, <2>6, <2>7
<1> QED
  BY <1>1, <1>3, <1>4, <1>5, <1>6 DEF WalletInv

(***************************************************************************)
(* reserveWallet                                                           *)
(***************************************************************************)
LEMMA ReserveRows ==
  ASSUME WalletInv, NEW p \in Payments, NEW amount \in Nat, NEW atOnce \in BOOLEAN,
         ReserveWallet(p, amount, atOnce)
  PROVE  LET x == AllocateWalletDebit(amount) IN
         /\ WalletTypeOK' /\ Credited' = Credited
         /\ allocations[p] = Nil /\ amount > 0 /\ amount <= Spendable(Credited)
         /\ allocations'[p] # Nil /\ allocations'[p].portions = x
         /\ allocations'[p].status = IF atOnce THEN "CONSUMED" ELSE "RESERVED"
         /\ \A q \in Payments \ {p} : allocations'[q] = allocations[q]
         /\ \A b \in Credited :
              /\ batches'[b].granted = batches[b].granted
              /\ batches'[b].credited = batches[b].credited
              /\ batches'[b].available = batches[b].available -- x[b]
              /\ batches'[b].reserved = IF atOnce THEN batches[b].reserved
                                        ELSE batches[b].reserved ++ x[b]
<1> DEFINE x == AllocateWalletDebit(amount)
           new == [status |-> IF atOnce THEN "CONSUMED" ELSE "RESERVED", portions |-> x]
           row(b) == [batches[b] EXCEPT !.available = @ -- x[b],
                                        !.reserved = IF atOnce THEN @ ELSE @ ++ x[b]]
<1>0. WalletTypeOK /\ Numbered
  BY DEF WalletInv
<1>1. /\ allocations[p] = Nil /\ amount > 0 /\ amount <= Spendable(Credited)
      /\ allocations' = [allocations EXCEPT ![p] = new]
      /\ batches' = [b \in Batches |-> IF b \notin Credited THEN Nil ELSE row(b)]
  BY DEF ReserveWallet
<1>2. /\ x \in [Batches -> Portion]
      /\ \A b \in Credited, part \in Parts : x[b][part] <= batches[b].available[part]
  BY <1>0, DebitType
<1> HIDE DEF x
<1>3. new \in Allocation /\ new # Nil
  BY <1>2, WalletRowsAssumption DEF Allocation
<1>4. ASSUME NEW b \in Credited
      PROVE  /\ row(b) \in Batch /\ row(b) # Nil
             /\ row(b).granted = batches[b].granted /\ row(b).credited = batches[b].credited
             /\ row(b).available = batches[b].available -- x[b]
             /\ row(b).reserved = IF atOnce THEN batches[b].reserved ELSE batches[b].reserved ++ x[b]
  <2>1. /\ batches[b] \in Batch /\ batches[b].granted \in Portion
        /\ batches[b].available \in Portion /\ batches[b].reserved \in Portion
        /\ batches[b].credited \in Nat \ {0} /\ b \in Batches
    BY <1>0, CreditedRows
  <2>2. x[b] \in Portion /\ \A part \in Parts : x[b][part] <= batches[b].available[part]
    BY <1>2, <2>1
  <2>3. batches[b].available -- x[b] \in Portion
    BY <2>1, <2>2, PortionDifference
  <2>4. (IF atOnce THEN batches[b].reserved ELSE batches[b].reserved ++ x[b]) \in Portion
    BY <2>1, <2>2, PortionSum
  <2>5. /\ row(b).granted = batches[b].granted /\ row(b).credited = batches[b].credited
        /\ row(b).available = batches[b].available -- x[b]
        /\ row(b).reserved = IF atOnce THEN batches[b].reserved ELSE batches[b].reserved ++ x[b]
    BY <2>1 DEF Batch
  <2>6. row(b) \in Batch
    BY <2>1, <2>3, <2>4 DEF Batch
  <2> QED
    BY <2>5, <2>6, WalletRowsAssumption
<1> HIDE DEF row
<1>5. \A b \in Credited : b \in Batches
  BY DEF Credited
<1>6. batches' \in [Batches -> Batch \cup {Nil}]
  BY <1>1, <1>4
<1>7. Credited' = Credited
  <2>1. \A b \in Batches : batches'[b] # Nil <=> b \in Credited
    BY <1>1, <1>4
  <2> QED
    BY <2>1 DEF Credited
<1>8. \A b \in Credited : batches'[b] = row(b)
  BY <1>1, <1>5
<1>9. /\ allocations'[p] = new /\ allocations' \in [Payments -> Allocation \cup {Nil}]
      /\ \A q \in Payments \ {p} : allocations'[q] = allocations[q]
  BY <1>0, <1>1, <1>3 DEF WalletTypeOK
<1>10. WalletTypeOK'
  BY <1>6, <1>9 DEF WalletTypeOK
<1>11. /\ \A b \in Credited :
            /\ batches'[b].granted = batches[b].granted
            /\ batches'[b].credited = batches[b].credited
            /\ batches'[b].available = batches[b].available -- x[b]
            /\ batches'[b].reserved = IF atOnce THEN batches[b].reserved
                                      ELSE batches[b].reserved ++ x[b]
  BY <1>4, <1>8
<1>12. new.portions = x /\ new.status = IF atOnce THEN "CONSUMED" ELSE "RESERVED"
  OBVIOUS
<1> HIDE DEF new
<1> QED
  BY <1>1, <1>3, <1>7, <1>9, <1>10, <1>11, <1>12 DEF x

LEMMA KeepsNumbered ==
  ASSUME Numbered, Credited' = Credited,
         \A b \in Credited : /\ batches'[b].granted = batches[b].granted
                             /\ batches'[b].credited = batches[b].credited
  PROVE  Numbered' /\ GrantedCents' = GrantedCents
<1>1. Numbered'
  BY DEF Numbered
<1>2. [b \in Credited |-> Cents(batches'[b].granted)] = [b \in Credited |-> Cents(batches[b].granted)]
  OBVIOUS
<1> QED
  BY <1>1, <1>2 DEF GrantedCents

LEMMA ReserveKeepsWalletInv ==
  ASSUME WalletInv, NEW p \in Payments, NEW amount \in Nat, NEW atOnce \in BOOLEAN,
         ReserveWallet(p, amount, atOnce)
  PROVE  WalletInv' /\ Moves
<1> DEFINE x == AllocateWalletDebit(amount)
<1>0. /\ WalletTypeOK /\ Numbered /\ TakenWhereCredited /\ ReservedIsHeld /\ GrantedCents <= MaxCents
      /\ Credited \subseteq Batches
  BY DEF WalletInv, Credited
<1>1. /\ WalletTypeOK' /\ Credited' = Credited
      /\ allocations[p] = Nil /\ amount > 0
      /\ allocations'[p] # Nil /\ allocations'[p].portions = x
      /\ allocations'[p].status = IF atOnce THEN "CONSUMED" ELSE "RESERVED"
      /\ \A q \in Payments \ {p} : allocations'[q] = allocations[q]
      /\ \A b \in Credited :
           /\ batches'[b].granted = batches[b].granted
           /\ batches'[b].credited = batches[b].credited
           /\ batches'[b].available = batches[b].available -- x[b]
           /\ batches'[b].reserved = IF atOnce THEN batches[b].reserved
                                     ELSE batches[b].reserved ++ x[b]
  BY ReserveRows
<1>2. /\ x \in [Batches -> Portion]
      /\ \A b \in Batches \ Credited : x[b] = Nothing
      /\ \A b \in Credited, part \in Parts : x[b][part] <= batches[b].available[part]
  BY <1>0, DebitType
<1> HIDE DEF x
<1>3. Numbered' /\ GrantedCents' = GrantedCents
  BY <1>0, <1>1, KeepsNumbered
<1>4. TakenWhereCredited'
  BY <1>0, <1>1, <1>2 DEF TakenWhereCredited
<1>5. /\ With("RESERVED")' = IF atOnce THEN With("RESERVED") ELSE With("RESERVED") \cup {p}
      /\ With("CONSUMED")' = IF atOnce THEN With("CONSUMED") \cup {p} ELSE With("CONSUMED")
      /\ p \notin With("RESERVED") /\ p \notin With("CONSUMED")
  BY <1>1 DEF With
<1>6. Holding' = Holding \cup {p} /\ p \notin Holding
  BY <1>5 DEF Holding
\* A set of payments that p joins.
<1>7. ASSUME NEW P \in SUBSET Payments, \A q \in P : allocations[q] # Nil, p \notin P,
             NEW b \in Batches, NEW part \in Parts
      PROVE  TakenBy(allocations', b, P \cup {p}, part) = x[b][part] + TakenBy(allocations, b, P, part)
  <2>1. IsFiniteSet(P \cup {p})
    BY <1>0, AllocationRows, FS_Subset, FS_AddElement
  <2>2. \A q \in P : allocations'[q] = allocations[q]
    BY <1>1, <1>7
  <2>3. \A q \in P \cup {p} : allocations'[q].portions[b][part] \in Nat
    <3>1. \A q \in P : allocations[q].portions[b][part] \in Nat
      BY <1>0, <1>7, AllocationRows
    <3>2. x[b][part] \in Nat
      BY <1>2, <1>7, PortionType
    <3> QED
      BY <1>1, <2>2, <3>1, <3>2
  <2>4. TakenBy(allocations', b, P \cup {p}, part)
          = allocations'[p].portions[b][part] + TakenBy(allocations', b, (P \cup {p}) \ {p}, part)
    BY <2>1, <2>3, TakenMore
  <2>5. (P \cup {p}) \ {p} = P
    BY <1>7
  <2>6. TakenBy(allocations', b, P, part) = TakenBy(allocations, b, P, part)
    BY <2>2, TakenSame
  <2> QED
    BY <1>1, <2>4, <2>5, <2>6
<1>8. /\ With("RESERVED") \in SUBSET Payments /\ Holding \in SUBSET Payments
      /\ \A q \in With("RESERVED") : allocations[q] # Nil
      /\ \A q \in Holding : allocations[q] # Nil
  BY DEF With, Holding
<1>9. ASSUME NEW b \in Credited, NEW part \in Parts
      PROVE  /\ batches'[b].reserved[part] = From(b, With("RESERVED"), part)'
             /\ batches'[b].available[part] + Taken(b, part)' = batches[b].available[part] + Taken(b, part)
  <2>1. /\ b \in Batches /\ x[b] \in Portion /\ x[b][part] \in Nat
        /\ batches[b].available \in Portion /\ batches[b].reserved \in Portion
        /\ batches[b].available[part] \in Nat
    BY <1>0, <1>2, CreditedRows, PortionType
  <2>2. /\ (batches[b].available -- x[b])[part] = batches[b].available[part] - x[b][part]
        /\ (batches[b].reserved ++ x[b])[part] = batches[b].reserved[part] + x[b][part]
    BY <1>2, <2>1, PortionDifference, PortionSum
  <2>3. Taken(b, part)' = x[b][part] + Taken(b, part)
    <3>1. TakenBy(allocations', b, Holding \cup {p}, part) = x[b][part] + TakenBy(allocations, b, Holding, part)
      BY <1>6, <1>7, <1>8, <2>1
    <3>2. Taken(b, part) = TakenBy(allocations, b, Holding, part)
      BY DEF Taken, From, TakenBy
    <3>3. Taken(b, part)' = TakenBy(allocations', b, Holding', part)
      BY DEF Taken, From, TakenBy
    <3> QED
      BY <1>6, <3>1, <3>2, <3>3
  <2>4. Taken(b, part) \in Nat
    BY <1>0, <1>8, <2>1, FromType DEF Taken
  <2>5. batches[b].reserved[part] = From(b, With("RESERVED"), part)
    BY <1>0 DEF ReservedIsHeld
  <2>6. CASE atOnce
    <3>1. From(b, With("RESERVED"), part)' = From(b, With("RESERVED"), part)
      <4>1. From(b, With("RESERVED"), part)' = TakenBy(allocations', b, With("RESERVED")', part)
        BY DEF From, TakenBy
      <4>2. From(b, With("RESERVED"), part) = TakenBy(allocations, b, With("RESERVED"), part)
        BY DEF From, TakenBy
      <4>3. TakenBy(allocations', b, With("RESERVED"), part) = TakenBy(allocations, b, With("RESERVED"), part)
        <5>1. \A q \in With("RESERVED") : allocations'[q] = allocations[q]
          BY <1>1, <1>5, <1>8
        <5> QED
          BY <5>1, TakenSame
      <4> QED
        BY <1>5, <2>6, <4>1, <4>2, <4>3
    <3> QED
      BY <1>1, <2>1, <2>2, <2>3, <2>4, <2>5, <2>6, <3>1
  <2>7. CASE ~atOnce
    <3>1. From(b, With("RESERVED"), part)' = x[b][part] + From(b, With("RESERVED"), part)
      <4>1. From(b, With("RESERVED"), part)' = TakenBy(allocations', b, With("RESERVED")', part)
        BY DEF From, TakenBy
      <4>2. From(b, With("RESERVED"), part) = TakenBy(allocations, b, With("RESERVED"), part)
        BY DEF From, TakenBy
      <4>3. TakenBy(allocations', b, With("RESERVED") \cup {p}, part)
              = x[b][part] + TakenBy(allocations, b, With("RESERVED"), part)
        BY <1>5, <1>7, <1>8, <2>1
      <4> QED
        BY <1>5, <2>7, <4>1, <4>2, <4>3
    <3>2. batches[b].reserved[part] \in Nat
      BY <2>1, PortionType
    <3> QED
      BY <1>1, <2>1, <2>2, <2>3, <2>4, <2>5, <2>7, <3>1, <3>2
  <2> QED
    BY <2>6, <2>7
<1>10. ReservedIsHeld'
  BY <1>1, <1>9 DEF ReservedIsHeld
<1>11. Moves
  BY <1>1, <1>9 DEF Moves
<1> QED
  BY <1>0, <1>1, <1>3, <1>4, <1>10, <1>11 DEF WalletInv

(***************************************************************************)
(* settleWalletReservation                                                 *)
(***************************************************************************)
LEMMA SettleRows ==
  ASSUME WalletInv, NEW p \in Payments, NEW consume \in BOOLEAN,
         SettleWalletReservation(p, consume)
  PROVE  LET x == allocations[p].portions IN
         /\ WalletTypeOK' /\ Credited' = Credited
         /\ allocations[p] # Nil /\ allocations[p].status = "RESERVED"
         /\ allocations'[p] # Nil /\ allocations'[p].portions = x
         /\ allocations'[p].status = IF consume THEN "CONSUMED" ELSE "RELEASED"
         /\ \A q \in Payments \ {p} : allocations'[q] = allocations[q]
         /\ x \in [Batches -> Portion]
         /\ \A b \in Credited, part \in Parts : x[b][part] <= batches[b].reserved[part]
         /\ \A b \in Credited :
              /\ batches'[b].granted = batches[b].granted
              /\ batches'[b].credited = batches[b].credited
              /\ batches'[b].reserved = batches[b].reserved -- x[b]
              /\ batches'[b].available = IF consume THEN batches[b].available
                                         ELSE batches[b].available ++ x[b]
<1> DEFINE x == allocations[p].portions
           status == IF consume THEN "CONSUMED" ELSE "RELEASED"
           new == [allocations[p] EXCEPT !.status = status]
           row(b) == [batches[b] EXCEPT !.reserved = @ -- x[b],
                                        !.available = IF consume THEN @ ELSE @ ++ x[b]]
<1>0. WalletTypeOK /\ ReservedIsHeld
  BY DEF WalletInv
<1>1. /\ allocations[p] # Nil /\ allocations[p].status = "RESERVED"
      /\ allocations' = [allocations EXCEPT ![p] = new]
      /\ batches' = [b \in Batches |-> IF b \notin Credited THEN Nil ELSE row(b)]
  BY DEF SettleWalletReservation, Settles
<1>2. x \in [Batches -> Portion] /\ allocations[p] \in Allocation
  BY <1>0, <1>1, AllocationRows
<1>3. /\ new \in Allocation /\ new # Nil /\ new.portions = x /\ new.status = status
  <2>1. status \in {"RESERVED", "CONSUMED", "RELEASED"}
    OBVIOUS
  <2> HIDE DEF status
  <2>2. new \in Allocation /\ new.portions = x /\ new.status = status
    BY <1>2, <2>1 DEF Allocation
  <2> QED
    BY <2>2, WalletRowsAssumption
<1>4. ASSUME NEW b \in Credited, NEW part \in Parts PROVE x[b][part] <= batches[b].reserved[part]
  <2> DEFINE P == With("RESERVED")
             f == [q \in P |-> allocations[q].portions[b][part]]
  <2>1. /\ b \in Batches /\ p \in P /\ P \in SUBSET Payments /\ IsFiniteSet(P)
        /\ \A q \in P : allocations[q] # Nil
    BY <1>0, <1>1, AllocationRows DEF With, Credited
  <2>2. \A q \in P : f[q] \in Nat
    BY <1>0, <2>1, AllocationRows
  <2>3. DOMAIN f = P /\ f[p] = x[b][part] /\ From(b, P, part) = SumOf(f)
    BY <2>1 DEF From
  <2> HIDE DEF f, P, x
  <2>4. IsAmounts(f)
    BY <2>1, <2>2, <2>3 DEF IsAmounts
  <2>5. f[p] <= SumOf(f)
    <3>1. \A q \in P : f[q] >= 0
      BY <2>2
    <3>2. f[p] <= SumOver(f, P)
      BY <2>1, <2>3, <2>4, <3>1, SumOfNaturals
    <3> QED
      BY <2>3, <3>2, SumIsFold
  <2> QED
    BY <1>0, <2>3, <2>5 DEF ReservedIsHeld, P
<1> HIDE DEF x, new
<1>5. ASSUME NEW b \in Credited
      PROVE  /\ row(b) \in Batch /\ row(b) # Nil
             /\ row(b).granted = batches[b].granted /\ row(b).credited = batches[b].credited
             /\ row(b).reserved = batches[b].reserved -- x[b]
             /\ row(b).available = IF consume THEN batches[b].available ELSE batches[b].available ++ x[b]
  <2>1. /\ batches[b] \in Batch /\ batches[b].granted \in Portion
        /\ batches[b].available \in Portion /\ batches[b].reserved \in Portion
        /\ batches[b].credited \in Nat \ {0} /\ b \in Batches
    BY <1>0, CreditedRows
  <2>2. x[b] \in Portion /\ \A part \in Parts : x[b][part] <= batches[b].reserved[part]
    BY <1>2, <1>4, <2>1
  <2>3. batches[b].reserved -- x[b] \in Portion
    BY <2>1, <2>2, PortionDifference
  <2>4. (IF consume THEN batches[b].available ELSE batches[b].available ++ x[b]) \in Portion
    BY <2>1, <2>2, PortionSum
  <2>5. /\ row(b).granted = batches[b].granted /\ row(b).credited = batches[b].credited
        /\ row(b).reserved = batches[b].reserved -- x[b]
        /\ row(b).available = IF consume THEN batches[b].available ELSE batches[b].available ++ x[b]
    BY <2>1 DEF Batch
  <2>6. row(b) \in Batch
    BY <2>1, <2>3, <2>4 DEF Batch
  <2> QED
    BY <2>5, <2>6, WalletRowsAssumption
<1> HIDE DEF row
<1>6. \A b \in Credited : b \in Batches
  BY DEF Credited
<1>7. batches' \in [Batches -> Batch \cup {Nil}]
  BY <1>1, <1>5
<1>8. Credited' = Credited
  <2>1. \A b \in Batches : batches'[b] # Nil <=> b \in Credited
    BY <1>1, <1>5
  <2> QED
    BY <2>1 DEF Credited
<1>9. \A b \in Credited : batches'[b] = row(b)
  BY <1>1, <1>6
<1>10. /\ allocations'[p] = new /\ allocations' \in [Payments -> Allocation \cup {Nil}]
       /\ \A q \in Payments \ {p} : allocations'[q] = allocations[q]
  BY <1>0, <1>1, <1>3 DEF WalletTypeOK
<1>11. WalletTypeOK'
  BY <1>7, <1>10 DEF WalletTypeOK
<1>12. \A b \in Credited :
         /\ batches'[b].granted = batches[b].granted
         /\ batches'[b].credited = batches[b].credited
         /\ batches'[b].reserved = batches[b].reserved -- x[b]
         /\ batches'[b].available = IF consume THEN batches[b].available
                                    ELSE batches[b].available ++ x[b]
  BY <1>5, <1>9
<1> QED
  BY <1>1, <1>2, <1>3, <1>4, <1>8, <1>10, <1>11, <1>12 DEF x

LEMMA SettleKeepsWalletInv ==
  ASSUME WalletInv, NEW p \in Payments, NEW consume \in BOOLEAN,
         SettleWalletReservation(p, consume)
  PROVE  WalletInv' /\ Moves
<1> DEFINE x == allocations[p].portions
<1>0. /\ WalletTypeOK /\ Numbered /\ TakenWhereCredited /\ ReservedIsHeld /\ GrantedCents <= MaxCents
      /\ Credited \subseteq Batches
  BY DEF WalletInv, Credited
<1>1. /\ WalletTypeOK' /\ Credited' = Credited
      /\ allocations[p] # Nil /\ allocations[p].status = "RESERVED"
      /\ allocations'[p] # Nil /\ allocations'[p].portions = x
      /\ allocations'[p].status = IF consume THEN "CONSUMED" ELSE "RELEASED"
      /\ \A q \in Payments \ {p} : allocations'[q] = allocations[q]
      /\ x \in [Batches -> Portion]
      /\ \A b \in Credited, part \in Parts : x[b][part] <= batches[b].reserved[part]
      /\ \A b \in Credited :
           /\ batches'[b].granted = batches[b].granted
           /\ batches'[b].credited = batches[b].credited
           /\ batches'[b].reserved = batches[b].reserved -- x[b]
           /\ batches'[b].available = IF consume THEN batches[b].available
                                      ELSE batches[b].available ++ x[b]
  BY SettleRows
<1>2. \A q \in Payments : /\ (allocations'[q] # Nil <=> allocations[q] # Nil)
                          /\ allocations[q] # Nil => allocations'[q].portions = allocations[q].portions
  BY <1>1
<1> HIDE DEF x
<1>3. Numbered' /\ GrantedCents' = GrantedCents
  BY <1>0, <1>1, KeepsNumbered
<1>4. TakenWhereCredited'
  BY <1>0, <1>1, <1>2 DEF TakenWhereCredited
<1>5. /\ With("RESERVED")' = With("RESERVED") \ {p} /\ p \in With("RESERVED")
      /\ With("CONSUMED")' = IF consume THEN With("CONSUMED") \cup {p} ELSE With("CONSUMED")
      /\ p \notin With("CONSUMED")
  BY <1>1 DEF With
<1>6. Holding' = IF consume THEN Holding ELSE Holding \ {p}
  BY <1>5 DEF Holding
<1>7. /\ With("RESERVED") \in SUBSET Payments /\ Holding \in SUBSET Payments /\ p \in Holding
      /\ \A q \in With("RESERVED") : allocations[q] # Nil
      /\ \A q \in Holding : allocations[q] # Nil
  BY <1>5 DEF With, Holding
\* A set of payments that p leaves.
<1>8. ASSUME NEW P \in SUBSET Payments, \A q \in P : allocations[q] # Nil, p \in P,
             NEW b \in Batches, NEW part \in Parts
      PROVE  TakenBy(allocations, b, P, part)
               = x[b][part] + TakenBy(allocations', b, P \ {p}, part)
  <2>1. IsFiniteSet(P) /\ \A q \in P : allocations[q].portions[b][part] \in Nat
    BY <1>0, <1>8, AllocationRows, FS_Subset
  <2>2. TakenBy(allocations, b, P, part)
          = allocations[p].portions[b][part] + TakenBy(allocations, b, P \ {p}, part)
    BY <1>8, <2>1, TakenMore
  <2>3. \A q \in P \ {p} : allocations'[q] = allocations[q]
    BY <1>1
  <2>4. TakenBy(allocations', b, P \ {p}, part) = TakenBy(allocations, b, P \ {p}, part)
    BY <2>3, TakenSame
  <2> QED
    BY <2>2, <2>4 DEF x
<1>9. ASSUME NEW b \in Credited, NEW part \in Parts
      PROVE  /\ batches'[b].reserved[part] = From(b, With("RESERVED"), part)'
             /\ batches'[b].available[part] + Taken(b, part)' = batches[b].available[part] + Taken(b, part)
  <2>1. /\ b \in Batches /\ x[b] \in Portion /\ x[b][part] \in Nat
        /\ batches[b].available \in Portion /\ batches[b].reserved \in Portion
        /\ batches[b].available[part] \in Nat /\ batches[b].reserved[part] \in Nat
    BY <1>0, <1>1, CreditedRows, PortionType
  <2>2. /\ (batches[b].reserved -- x[b])[part] = batches[b].reserved[part] - x[b][part]
        /\ (batches[b].available ++ x[b])[part] = batches[b].available[part] + x[b][part]
    BY <1>1, <2>1, PortionDifference, PortionSum
  <2>3. batches[b].reserved[part] = From(b, With("RESERVED"), part)
    BY <1>0 DEF ReservedIsHeld
  <2>4. From(b, With("RESERVED"), part) = x[b][part] + From(b, With("RESERVED"), part)'
    <3>1. From(b, With("RESERVED"), part)' = TakenBy(allocations', b, With("RESERVED")', part)
      BY DEF From, TakenBy
    <3>2. From(b, With("RESERVED"), part) = TakenBy(allocations, b, With("RESERVED"), part)
      BY DEF From, TakenBy
    <3>3. TakenBy(allocations, b, With("RESERVED"), part)
            = x[b][part] + TakenBy(allocations', b, With("RESERVED") \ {p}, part)
      BY <1>5, <1>7, <1>8, <2>1
    <3> QED
      BY <1>5, <3>1, <3>2, <3>3
  <2>5. From(b, With("RESERVED"), part)' \in Nat
    <3>1. With("RESERVED")' \in SUBSET Payments /\ \A q \in With("RESERVED")' : allocations[q] # Nil
      BY <1>5, <1>7
    <3>2. IsFiniteSet(With("RESERVED")') /\ \A q \in With("RESERVED")' : allocations'[q].portions[b][part] \in Nat
      BY <1>0, <1>2, <2>1, <3>1, AllocationRows, FS_Subset
    <3>3. TakenBy(allocations', b, With("RESERVED")', part) \in Nat
      BY <3>2, TakenType
    <3> QED
      BY <3>3 DEF From, TakenBy
  <2>6. Taken(b, part) = IF consume THEN Taken(b, part)' ELSE x[b][part] + Taken(b, part)'
    <3>1. Taken(b, part)' = TakenBy(allocations', b, Holding', part)
      BY DEF Taken, From, TakenBy
    <3>2. Taken(b, part) = TakenBy(allocations, b, Holding, part)
      BY DEF Taken, From, TakenBy
    <3>3. TakenBy(allocations, b, Holding, part)
            = x[b][part] + TakenBy(allocations', b, Holding \ {p}, part)
      BY <1>7, <1>8, <2>1
    <3>4. TakenBy(allocations', b, Holding, part) = TakenBy(allocations, b, Holding, part)
      <4>1. \A q \in Holding : allocations'[q].portions[b][part] = allocations[q].portions[b][part]
        BY <1>2, <1>7
      <4> QED
        BY <4>1, TakenSame
    <3> QED
      BY <1>6, <3>1, <3>2, <3>3, <3>4
  <2>7. Taken(b, part)' \in Nat
    <3>1. Holding' \in SUBSET Payments /\ \A q \in Holding' : allocations[q] # Nil
      BY <1>6, <1>7
    <3>2. IsFiniteSet(Holding') /\ \A q \in Holding' : allocations'[q].portions[b][part] \in Nat
      BY <1>0, <1>2, <2>1, <3>1, AllocationRows, FS_Subset
    <3>3. TakenBy(allocations', b, Holding', part) \in Nat
      BY <3>2, TakenType
    <3> QED
      BY <3>3 DEF Taken, From, TakenBy
  <2>8. batches'[b].reserved[part] = From(b, With("RESERVED"), part)'
    BY <1>1, <2>1, <2>2, <2>3, <2>4, <2>5
  <2>9. CASE consume
    BY <1>1, <2>6, <2>8, <2>9
  <2>10. CASE ~consume
    BY <1>1, <2>1, <2>2, <2>6, <2>7, <2>8, <2>10
  <2> QED
    BY <2>9, <2>10
<1>10. ReservedIsHeld'
  BY <1>1, <1>9 DEF ReservedIsHeld
<1>11. Moves
  BY <1>1, <1>9 DEF Moves
<1> QED
  BY <1>0, <1>1, <1>3, <1>4, <1>10, <1>11 DEF WalletInv

(***************************************************************************)
(* The order and the shares of a reservation, as the properties state them *)
(***************************************************************************)
LEMMA ReserveIsOldestFirst ==
  ASSUME WalletInv, NEW p \in Payments, NEW amount \in Nat, NEW atOnce \in BOOLEAN,
         ReserveWallet(p, amount, atOnce),
         NEW b \in Credited, Cents(allocations'[p].portions[b]) > 0,
         NEW a \in Credited, batches[a].credited < batches[b].credited
  PROVE  Cents(batches'[a].available) = 0
<1> DEFINE x == AllocateWalletDebit(amount)
<1>0. WalletTypeOK /\ Numbered
  BY DEF WalletInv
<1>1. allocations'[p].portions = x /\ batches'[a].available = batches[a].available -- x[a]
  BY ReserveRows
<1>2. Cents(x[a]) = Cents(batches[a].available)
  BY <1>0, <1>1, DebitIsOldestFirst
<1>3. /\ x[a] \in Portion /\ batches[a].available \in Portion
      /\ \A part \in Parts : x[a][part] <= batches[a].available[part]
  BY <1>0, CreditedRows, DebitRow
<1> HIDE DEF x
<1>4. Cents(batches'[a].available) = Cents(batches[a].available) - Cents(x[a])
  BY <1>1, <1>3, PortionDifference
<1> QED
  BY <1>2, <1>3, <1>4, PortionType

LEMMA ReserveIsFair ==
  ASSUME WalletInv, NEW p \in Payments, NEW amount \in Nat, NEW atOnce \in BOOLEAN,
         ReserveWallet(p, amount, atOnce), NEW b \in Credited
  PROVE  LET x     == allocations'[p].portions[b]
             exact == Cents(x) * batches[b].granted.principal
             whole == Cents(batches[b].granted)
         IN /\ x.principal * whole >= exact + whole => batches'[b].available.gift = 0
            /\ x.principal * whole <= exact - whole => batches'[b].available.principal = 0
<1> DEFINE x == AllocateWalletDebit(amount)[b]
           row == batches[b]
           whole == Cents(row.granted)
           exact == Cents(x) * row.granted.principal
<1>0. WalletTypeOK /\ Numbered
  BY DEF WalletInv
<1>1. allocations'[p].portions[b] = x /\ batches'[b].available = row.available -- x
  BY ReserveRows
<1>2. /\ x \in Portion
      /\ \A part \in Parts : x[part] <= row.available[part]
      /\ x.principal * whole >= exact + whole => x.gift = row.available.gift
      /\ x.principal * whole <= exact - whole => x.principal = row.available.principal
  BY <1>0, DebitRow
<1>3. row.available \in Portion
  BY <1>0, CreditedRows
<1> HIDE DEF x
<1>4. (row.available -- x).gift = row.available.gift - x.gift
  BY DEF --
<1>5. (row.available -- x).principal = row.available.principal - x.principal
  BY DEF --
<1>6. x.gift \in Nat /\ x.principal \in Nat
  BY <1>2, PortionType
<1>7. ASSUME x.principal * whole >= exact + whole PROVE batches'[b].available.gift = 0
  BY <1>1, <1>2, <1>4, <1>6, <1>7
<1>8. ASSUME x.principal * whole <= exact - whole PROVE batches'[b].available.principal = 0
  BY <1>1, <1>2, <1>5, <1>6, <1>8
<1> QED
  BY <1>1, <1>7, <1>8

LEMMA WalletStart ==
  ASSUME WalletInit
  PROVE  WalletInv /\ Credited = {}
<1>1. Credited = {}
  BY DEF WalletInit, Credited
<1>2. WalletTypeOK
  BY DEF WalletInit, WalletTypeOK
<1>3. Numbered /\ ReservedIsHeld
  BY <1>1 DEF Numbered, ReservedIsHeld
<1>4. TakenWhereCredited
  BY DEF WalletInit, TakenWhereCredited
<1>5. GrantedCents = 0
  <2> DEFINE f == [b \in Credited |-> Cents(batches[b].granted)]
  <2>1. DOMAIN f = {}
    BY <1>1
  <2>2. GrantedCents = SumOf(f)
    BY DEF GrantedCents
  <2> HIDE DEF f
  <2>3. IsAmounts(f)
    BY <2>1, FS_EmptySet DEF IsAmounts
  <2> QED
    BY <2>1, <2>2, <2>3, SumOfType
<1> QED
  BY <1>1, <1>2, <1>3, <1>4, <1>5, WalletAssumption DEF WalletInv
=============================================================================
