------------------------ MODULE CourtBooking_proofs ------------------------
(***************************************************************************)
(* Proofs, for every value of the constants, that the specification of     *)
(* CourtBooking keeps its invariants and obeys its action properties.      *)
(***************************************************************************)
EXTENDS CourtBooking, TLAPS

(***************************************************************************)
(* What the pieces of transactions leave, row by row.                      *)
(***************************************************************************)
\* A due order is held.
LEMMA DueIsHeld ==
  ASSUME NEW v, NEW t
  PROVE  Due(v, t) \subseteq {q \in Quotes : IsHeld(q)}
BY DEF Due

LEMMA DueAtSettlementIsHeld ==
  ASSUME NEW q, NEW t
  PROVE  DueAtSettlement(q, t) \subseteq {x \in Quotes : IsHeld(x)}
BY DueIsHeld DEF DueAtSettlement

LEMMA ClockType ==
  ASSUME TypeOK, NEW t \in Clock
  PROVE  t \in 0 .. MaxTime
BY TimeAssumption DEF TypeOK, Clock

\* Expiring held orders leaves order rows, with the lines they had.
LEMMA ExpiredOrdersType ==
  ASSUME TypeOK, NEW E, E \subseteq {q \in Quotes : IsHeld(q)}
  PROVE  /\ ExpiredOrders(E) \in [Quotes -> OrderRec \cup {Nil}]
         /\ \A q \in Quotes : /\ ExpiredOrders(E)[q] # Nil <=> Exists(q)
                              /\ Exists(q) => ExpiredOrders(E)[q].cancelled = orders[q].cancelled
<1>1. ASSUME NEW q \in Quotes
      PROVE  /\ ExpiredOrders(E)[q] \in OrderRec \cup {Nil}
             /\ ExpiredOrders(E)[q] # Nil <=> Exists(q)
             /\ Exists(q) => ExpiredOrders(E)[q].cancelled = orders[q].cancelled
  <2>1. CASE q \in E
    <3>1. orders[q] \in OrderRec
      BY <2>1, <1>1 DEF TypeOK, IsHeld, Exists
    <3>2. orders[q].revision + 1 \in Nat
      BY <3>1 DEF OrderRec
    <3>. DEFINE row == [orders[q] EXCEPT !.status = "EXPIRED", !.holdUntil = 0,
                                         !.revision = @ + 1]
    <3>3. row \in OrderRec /\ row.cancelled = orders[q].cancelled
      BY <3>1, <3>2 DEF OrderRec
    <3>4. ExpiredOrders(E)[q] = row
      BY <2>1 DEF ExpiredOrders
    <3>. HIDE DEF row
    <3>. QED BY <2>1, <3>3, <3>4, NilAssumption DEF IsHeld
  <2>2. CASE q \notin E
    BY <2>2 DEF ExpiredOrders, Exists, TypeOK
  <2>. QED BY <2>1, <2>2
<1>. QED BY <1>1 DEF ExpiredOrders

\* The rows of orders that are cancelled, paid or lose lines.
LEMMA OrderRowsType ==
  ASSUME TypeOK, NEW q \in Quotes, Exists(q)
  PROVE  /\ CancelledOrder(q) \in OrderRec /\ CancelledOrder(q).cancelled = Slots(q)
         /\ PaidOrder(q) \in OrderRec /\ PaidOrder(q).cancelled = orders[q].cancelled
         /\ \A L \in SUBSET Slots(q) :
              /\ WithoutLines(q, L) \in OrderRec
              /\ WithoutLines(q, L).cancelled = orders[q].cancelled \cup L
<1>1. orders[q] \in OrderRec /\ orders[q].revision + 1 \in Nat
  BY DEF TypeOK, Exists, OrderRec
<1>2. Slots(q) \in SUBSET Intervals
  BY SelectionsAssumption DEF TypeOK, Slots, QuoteRec, Selection
<1>3. CancelledOrder(q) \in OrderRec /\ CancelledOrder(q).cancelled = Slots(q)
  BY <1>1, <1>2 DEF CancelledOrder, OrderRec
<1>4. PaidOrder(q) \in OrderRec /\ PaidOrder(q).cancelled = orders[q].cancelled
  BY <1>1 DEF PaidOrder, OrderRec
<1>5. ASSUME NEW L \in SUBSET Slots(q)
      PROVE  /\ WithoutLines(q, L) \in OrderRec
             /\ WithoutLines(q, L).cancelled = orders[q].cancelled \cup L
  <2>1. orders[q].cancelled \cup L \in SUBSET Intervals
    BY <1>1, <1>2 DEF OrderRec
  <2>. QED BY <1>1, <2>1 DEF WithoutLines, OrderRec
<1>. QED BY <1>3, <1>4, <1>5

\* settleWalletReservation touches nothing but the reservation.
LEMMA SettleReservationType ==
  ASSUME NEW pay \in PaymentRec, NEW consume \in BOOLEAN
  PROVE  /\ SettleReservation(pay, consume) \in PaymentRec
         /\ SettleReservation(pay, consume).order = pay.order
         /\ SettleReservation(pay, consume).external = pay.external
         /\ SettleReservation(pay, consume).wallet = pay.wallet
         /\ SettleReservation(pay, consume).txn = pay.txn
         /\ SettleReservation(pay, consume).status = pay.status
         /\ SettleReservation(pay, consume).reserve =
              IF pay.reserve = "RESERVED"
              THEN IF consume THEN "CONSUMED" ELSE "RELEASED"
              ELSE pay.reserve
BY DEF SettleReservation, PaymentRec

\* Releasing the waiting payments of the orders Q, payment by payment.
LEMMA ReleasedPayments ==
  ASSUME TypeOK, NEW Q, NEW status \in {"EXPIRED", "CANCELLED"}
  PROVE  LET rel == ReleasePendingPayments(Q, status) IN
         /\ rel \in [Payments -> PaymentRec \cup {Nil}]
         /\ \A p \in Payments :
              /\ rel[p] # Nil <=> payments[p] # Nil
              /\ payments[p] # Nil =>
                   /\ rel[p].order = payments[p].order
                   /\ rel[p].external = payments[p].external
                   /\ rel[p].wallet = payments[p].wallet
                   /\ rel[p].txn = payments[p].txn
              /\ ~(IsPending(p) /\ payments[p].order \in Q) => rel[p] = payments[p]
              /\ IsPending(p) /\ payments[p].order \in Q =>
                   /\ rel[p].status = status
                   /\ rel[p].reserve = IF payments[p].reserve = "RESERVED"
                                       THEN "RELEASED" ELSE payments[p].reserve
<1>. DEFINE rel == ReleasePendingPayments(Q, status)
<1>1. ASSUME NEW p \in Payments, IsPending(p), payments[p].order \in Q
      PROVE  /\ rel[p] \in PaymentRec
             /\ rel[p].order = payments[p].order
             /\ rel[p].external = payments[p].external
             /\ rel[p].wallet = payments[p].wallet
             /\ rel[p].txn = payments[p].txn
             /\ rel[p].status = status
             /\ rel[p].reserve = IF payments[p].reserve = "RESERVED"
                                 THEN "RELEASED" ELSE payments[p].reserve
  <2>1. payments[p] \in PaymentRec
    BY <1>1 DEF TypeOK, IsPending
  <2>. DEFINE settled == SettleReservation(payments[p], FALSE)
  <2>2. rel[p] = [settled EXCEPT !.status = status]
    BY <1>1 DEF ReleasePendingPayments
  <2>3. /\ settled \in PaymentRec
        /\ settled.order = payments[p].order
        /\ settled.external = payments[p].external
        /\ settled.wallet = payments[p].wallet
        /\ settled.txn = payments[p].txn
        /\ settled.reserve = IF payments[p].reserve = "RESERVED"
                             THEN "RELEASED" ELSE payments[p].reserve
    BY <2>1, SettleReservationType
  <2>. HIDE DEF settled
  <2>. QED BY <2>2, <2>3 DEF PaymentRec
<1>2. ASSUME NEW p \in Payments, ~(IsPending(p) /\ payments[p].order \in Q)
      PROVE  rel[p] = payments[p]
  BY <1>2 DEF ReleasePendingPayments
<1>3. ASSUME NEW p \in Payments PROVE rel[p] \in PaymentRec \cup {Nil}
  BY <1>1, <1>2 DEF TypeOK
<1>4. rel \in [Payments -> PaymentRec \cup {Nil}]
  BY <1>3 DEF ReleasePendingPayments
<1>5. \A p \in Payments : rel[p] # Nil <=> payments[p] # Nil
  BY <1>1, <1>2, NilAssumption DEF IsPending
<1>. HIDE DEF rel
<1>6. QED BY <1>1, <1>2, <1>4, <1>5 DEF rel

\* Rewriting one order of a swept table by a row with lines of the order.
LEMMA RewrittenOrders ==
  ASSUME TypeOK, NEW E, E \subseteq {x \in Quotes : IsHeld(x)},
         NEW q \in Quotes, Exists(q),
         NEW row \in OrderRec, row.cancelled \subseteq Slots(q)
  PROVE  LET os == [ExpiredOrders(E) EXCEPT ![q] = row] IN
         /\ os \in [Quotes -> OrderRec \cup {Nil}]
         /\ \A x \in Quotes : /\ os[x] # Nil <=> Exists(x)
                              /\ Exists(x) => os[x].cancelled \subseteq Slots(x)
BY ExpiredOrdersType, NilAssumption DEF TypeOK

(***************************************************************************)
(* Type correctness and foreign keys.                                      *)
(***************************************************************************)
\* A step that keeps the quotes and the identity of orders and payments, and
\* leaves typed rows, keeps TypeOK.
LEMMA TypeOKFromRows ==
  ASSUME TypeOK, now' \in 0 .. MaxTime, UNCHANGED quotes,
         orders' \in [Quotes -> OrderRec \cup {Nil}],
         \A q \in Quotes : /\ orders'[q] # Nil <=> Exists(q)
                           /\ Exists(q) => orders'[q].cancelled \subseteq Slots(q),
         payments' \in [Payments -> PaymentRec \cup {Nil}],
         \A p \in Payments : payments'[p] # Nil => Exists(payments'[p].order),
         live' \subseteq Occupancy,
         claims' \in [Txns -> Payments \cup {Nil}],
         events' \subseteq EventRec,
         exceptions' \subseteq Exception
  PROVE  TypeOK'
<1>1. \A q \in Quotes : Slots(q)' = Slots(q)
  BY DEF Slots
<1>2. \A q \in Quotes : Exists(q)' <=> Exists(q)
  BY DEF Exists
<1>3. \A p \in Payments : payments'[p] # Nil => payments'[p].order \in Quotes
  BY DEF PaymentRec
<1>. QED BY <1>1, <1>2, <1>3 DEF TypeOK

\* The payment row a capture leaves.
LEMMA CapturedRow ==
  ASSUME NEW pay \in PaymentRec, NEW consume \in BOOLEAN,
         NEW status \in {"SUCCEEDED", "REFUND_REQUIRED"}, NEW txn \in Txns
  PROVE  LET row == [SettleReservation(pay, consume) EXCEPT !.status = status, !.txn = txn]
         IN  /\ row \in PaymentRec
             /\ row.order = pay.order /\ row.external = pay.external /\ row.wallet = pay.wallet
             /\ row.status = status /\ row.txn = txn
             /\ row.reserve = IF pay.reserve = "RESERVED"
                              THEN IF consume THEN "CONSUMED" ELSE "RELEASED"
                              ELSE pay.reserve
<1>. DEFINE settled == SettleReservation(pay, consume)
<1>1. /\ settled \in PaymentRec
      /\ settled.order = pay.order /\ settled.external = pay.external
      /\ settled.wallet = pay.wallet
      /\ settled.reserve = IF pay.reserve = "RESERVED"
                           THEN IF consume THEN "CONSUMED" ELSE "RELEASED"
                           ELSE pay.reserve
  BY SettleReservationType
<1>. HIDE DEF settled
<1>2. LET row == [settled EXCEPT !.status = status, !.txn = txn]
      IN  /\ row \in PaymentRec
          /\ row.order = settled.order /\ row.external = settled.external
          /\ row.wallet = settled.wallet
          /\ row.status = status /\ row.txn = txn /\ row.reserve = settled.reserve
  BY <1>1 DEF PaymentRec
<1>. QED BY <1>1, <1>2 DEF settled

\* What a settlement does to the occupancies, the claims and the exceptions.
LEMMA SettlementLeaves ==
  ASSUME NEW e \in EventRec, NEW t \in Clock, Settlement(e, t)
  PROVE  /\ live' \subseteq live
         /\ claims' = claims \/ claims' = [claims EXCEPT ![e.txn] = e.payment]
         /\ \/ exceptions' = exceptions
            \/ exceptions' = FinancialException(e, "LATE_PAYMENT")
            \/ exceptions' = FinancialException(e, "DUPLICATE_PAYMENT")
<1>1. \A Q : ReleaseOrderInventory(Q) \subseteq live
  BY DEF ReleaseOrderInventory
<1>2. CASE SettleOnTime(e, t)
  <2>1. live' \subseteq live
    BY <1>1, <1>2 DEF SettleOnTime
  <2>. QED BY <1>2, <2>1 DEF SettleOnTime, Claim
<1>3. CASE SettleLate(e, t)
  <2>1. live' \subseteq live
    BY <1>1, <1>3 DEF SettleLate
  <2>. QED BY <1>3, <2>1 DEF SettleLate, Claim
<1>4. CASE SettleAgain(e, t)
  <2>1. live' \subseteq live
    BY <1>1, <1>4 DEF SettleAgain
  <2>2. claims' = [claims EXCEPT ![e.txn] = e.payment]
    BY <1>4 DEF SettleAgain, Claim
  <2>3. exceptions' = exceptions \/ exceptions' = FinancialException(e, "DUPLICATE_PAYMENT")
    BY <1>4 DEF SettleAgain
  <2>. QED BY <2>1, <2>2, <2>3
<1>5. CASE SettleFailure(e, t)
  <2>1. live' \subseteq live
    BY <1>1, <1>5 DEF SettleFailure
  <2>2. claims' = claims /\ exceptions' = exceptions
    BY <1>5 DEF SettleFailure
  <2>. QED BY <2>1, <2>2
<1>. QED BY <1>2, <1>3, <1>4, <1>5 DEF Settlement

LEMMA SettlementType ==
  ASSUME TypeOK, NEW e \in EventRec, NEW t \in Clock, Settlement(e, t)
  PROVE  TypeOK'
<1>. DEFINE p == e.payment
            q == payments[p].order
            E == DueAtSettlement(q, t)
            rel == ReleasePendingPayments(E, "EXPIRED")
<1>1. NewEvent(e) /\ now' = t /\ UNCHANGED quotes /\ events' = events \cup {e}
  BY DEF Settlement, SettleOnTime, SettleLate, SettleAgain, SettleFailure, Record
<1>2. t \in 0 .. MaxTime
  BY ClockType
<1>3. p \in Payments /\ payments[p] \in PaymentRec /\ q \in Quotes /\ Exists(q)
      /\ e.txn \in Txns
  BY <1>1 DEF TypeOK, EventRec, NewEvent, PaymentRec
<1>4. E \subseteq {x \in Quotes : IsHeld(x)}
  BY DueAtSettlementIsHeld
<1>5. /\ rel \in [Payments -> PaymentRec \cup {Nil}]
      /\ \A r \in Payments : rel[r] # Nil => payments[r] # Nil /\ rel[r].order = payments[r].order
  BY ReleasedPayments
<1>6. \A r \in Payments : rel[r] # Nil => Exists(rel[r].order)
  BY <1>5 DEF TypeOK
<1>7. \A r \in Payments : rel[r] # Nil => rel[r].order \in Quotes
  BY <1>5 DEF PaymentRec
<1>8. rel[p] \in PaymentRec /\ rel[p].order = q
  BY <1>1, <1>3, ReleasedPayments DEF NewEvent
<1>9. live' \subseteq Occupancy /\ claims' \in [Txns -> Payments \cup {Nil}]
      /\ exceptions' \subseteq Exception
  <2>1. /\ live \subseteq Occupancy /\ claims \in [Txns -> Payments \cup {Nil}]
        /\ exceptions \subseteq Exception
    BY DEF TypeOK
  <2>2. live' \subseteq Occupancy
    BY <2>1, SettlementLeaves
  <2>3. [claims EXCEPT ![e.txn] = e.payment] \in [Txns -> Payments \cup {Nil}]
    BY <2>1, <1>3
  <2>4. claims' \in [Txns -> Payments \cup {Nil}]
    BY <2>1, <2>3, SettlementLeaves
  <2>5. \A kind \in {"LATE_PAYMENT", "DUPLICATE_PAYMENT"} :
          FinancialException(e, kind) \subseteq Exception
    BY <2>1, <1>3 DEF FinancialException, Exception
  <2>6. exceptions' \subseteq Exception
    BY <2>1, <2>5, SettlementLeaves
  <2>. QED BY <2>2, <2>4, <2>6
<1>10. /\ orders' \in [Quotes -> OrderRec \cup {Nil}]
       /\ \A x \in Quotes : /\ orders'[x] # Nil <=> Exists(x)
                            /\ Exists(x) => orders'[x].cancelled \subseteq Slots(x)
  <2>1. CASE orders' = ExpiredOrders(E)
    BY <2>1, <1>4, ExpiredOrdersType DEF TypeOK
  <2>2. CASE orders' = [ExpiredOrders(E) EXCEPT ![q] = PaidOrder(q)]
    <3>1. PaidOrder(q) \in OrderRec /\ PaidOrder(q).cancelled \subseteq Slots(q)
      BY <1>3, OrderRowsType DEF TypeOK
    <3>. QED BY <2>2, <3>1, <1>3, <1>4, RewrittenOrders
  <2>3. CASE orders' = [ExpiredOrders(E) EXCEPT ![q] = CancelledOrder(q)]
    <3>1. CancelledOrder(q) \in OrderRec /\ CancelledOrder(q).cancelled \subseteq Slots(q)
      BY <1>3, OrderRowsType
    <3>. QED BY <2>3, <3>1, <1>3, <1>4, RewrittenOrders
  <2>4. CASE orders' = [ExpiredOrders(E) EXCEPT ![q] = @]
    <3>1. ExpiredOrders(E)[q] \in OrderRec /\ ExpiredOrders(E)[q].cancelled \subseteq Slots(q)
      BY <1>3, <1>4, ExpiredOrdersType DEF TypeOK
    <3>. QED BY <2>4, <3>1, <1>3, <1>4, RewrittenOrders
  <2>. QED BY <2>1, <2>2, <2>3, <2>4
       DEF Settlement, SettleOnTime, SettleLate, SettleAgain, SettleFailure
<1>11. /\ payments' \in [Payments -> PaymentRec \cup {Nil}]
       /\ \A r \in Payments : payments'[r] # Nil => Exists(payments'[r].order)
  <2>1. CASE payments' = rel
    BY <2>1, <1>5, <1>6
  <2>2. ASSUME NEW row \in PaymentRec, row.order = q, payments' = [rel EXCEPT ![p] = row]
        PROVE  /\ payments' \in [Payments -> PaymentRec \cup {Nil}]
               /\ \A r \in Payments : payments'[r] # Nil => Exists(payments'[r].order)
    BY <2>2, <1>3, <1>5, <1>6
  <2>3. CASE SettleOnTime(e, t)
    <3>. DEFINE row == [SettleReservation(rel[p], TRUE) EXCEPT !.status = "SUCCEEDED",
                                                               !.txn = e.txn]
    <3>1. row \in PaymentRec /\ row.order = q
      <4>1. ASSUME NEW pay \in PaymentRec, NEW txn \in Txns
            PROVE  LET x == [SettleReservation(pay, TRUE) EXCEPT !.status = "SUCCEEDED", !.txn = txn]
                   IN  x \in PaymentRec /\ x.order = pay.order
        <5>. DEFINE settled == SettleReservation(pay, TRUE)
        <5>1. settled \in PaymentRec /\ settled.order = pay.order
          BY <4>1, SettleReservationType
        <5>. HIDE DEF settled
        <5>2. LET x == [settled EXCEPT !.status = "SUCCEEDED", !.txn = txn]
              IN  x \in PaymentRec /\ x.order = pay.order
          BY <4>1, <5>1 DEF PaymentRec
        <5>. QED BY <5>2 DEF settled
      <4>. HIDE DEF rel, q
      <4>. QED BY <4>1, <1>3, <1>8
    <3>2. payments' = [rel EXCEPT ![p] = row]
      BY <2>3, <1>5 DEF SettleOnTime
    <3>. HIDE DEF row
    <3>. QED BY <3>1, <3>2, <2>2
  <2>4. CASE SettleLate(e, t)
    <3>. DEFINE row == [SettleReservation(rel[p], FALSE) EXCEPT !.status = "REFUND_REQUIRED",
                                                                !.txn = e.txn]
    <3>1. row \in PaymentRec /\ row.order = q
      <4>1. ASSUME NEW pay \in PaymentRec, NEW txn \in Txns
            PROVE  LET x == [SettleReservation(pay, FALSE) EXCEPT !.status = "REFUND_REQUIRED", !.txn = txn]
                   IN  x \in PaymentRec /\ x.order = pay.order
        <5>. DEFINE settled == SettleReservation(pay, FALSE)
        <5>1. settled \in PaymentRec /\ settled.order = pay.order
          BY <4>1, SettleReservationType
        <5>. HIDE DEF settled
        <5>2. LET x == [settled EXCEPT !.status = "REFUND_REQUIRED", !.txn = txn]
              IN  x \in PaymentRec /\ x.order = pay.order
          BY <4>1, <5>1 DEF PaymentRec
        <5>. QED BY <5>2 DEF settled
      <4>. HIDE DEF rel, q
      <4>. QED BY <4>1, <1>3, <1>8
    <3>2. payments' = [rel EXCEPT ![p] = row]
      BY <2>4, <1>5 DEF SettleLate
    <3>. HIDE DEF row
    <3>. QED BY <3>1, <3>2, <2>2
  <2>5. CASE SettleAgain(e, t)
    BY <2>5, <2>1 DEF SettleAgain
  <2>6. CASE SettleFailure(e, t) /\ StillWaits(p, E)
    <3>. DEFINE settled == SettleReservation(rel[p], FALSE)
    <3>1. settled \in PaymentRec /\ settled.order = q
      BY <1>8, SettleReservationType
    <3>2. payments' = [rel EXCEPT ![p] = [settled EXCEPT !.status = "FAILED"]]
      BY <2>6, <1>5 DEF SettleFailure
    <3>. HIDE DEF settled
    <3>3. [settled EXCEPT !.status = "FAILED"] \in PaymentRec
          /\ [settled EXCEPT !.status = "FAILED"].order = q
      BY <3>1 DEF PaymentRec
    <3>. QED BY <3>2, <3>3, <2>2
  <2>7. CASE SettleFailure(e, t) /\ ~StillWaits(p, E)
    BY <2>7, <1>3, <1>5, <2>1 DEF SettleFailure
  <2>. QED BY <2>3, <2>4, <2>5, <2>6, <2>7 DEF Settlement
<1>12. events' \subseteq EventRec
  BY <1>1 DEF TypeOK
<1>. QED BY <1>1, <1>2, <1>9, <1>10, <1>11, <1>12, TypeOKFromRows

LEMMA SweepType ==
  ASSUME TypeOK, NEW E, E \subseteq {x \in Quotes : IsHeld(x)}
  PROVE  /\ \A q \in Quotes : Exists(q) => ExpiredOrders(E)[q].cancelled \subseteq Slots(q)
         /\ ReleasePendingPayments(E, "EXPIRED") \in [Payments -> PaymentRec \cup {Nil}]
         /\ \A p \in Payments : ReleasePendingPayments(E, "EXPIRED")[p] # Nil =>
              Exists(ReleasePendingPayments(E, "EXPIRED")[p].order)
         /\ ReleaseOrderInventory(E) \subseteq Occupancy
<1>1. \A q \in Quotes : Exists(q) => ExpiredOrders(E)[q].cancelled \subseteq Slots(q)
  BY ExpiredOrdersType DEF TypeOK
<1>. DEFINE rel == ReleasePendingPayments(E, "EXPIRED")
<1>2. /\ rel \in [Payments -> PaymentRec \cup {Nil}]
      /\ \A p \in Payments : rel[p] # Nil =>
           payments[p] # Nil /\ rel[p].order = payments[p].order
  BY ReleasedPayments
<1>3. \A p \in Payments : rel[p] # Nil => Exists(rel[p].order)
  BY <1>2 DEF TypeOK
<1>4. ReleaseOrderInventory(E) \subseteq Occupancy
  BY DEF TypeOK, ReleaseOrderInventory
<1>. QED BY <1>1, <1>2, <1>3, <1>4

LEMMA ExpireVenueHoldsType ==
  ASSUME TypeOK, NEW v \in Venues, ExpireVenueHolds(v)
  PROVE  TypeOK'
<1>. DEFINE E == Due(v, now)
<1>1. E \subseteq {x \in Quotes : IsHeld(x)}
  BY DueIsHeld
<1>2. orders' = ExpiredOrders(E) /\ payments' = ReleasePendingPayments(E, "EXPIRED")
      /\ live' = ReleaseOrderInventory(E)
      /\ UNCHANGED <<now, quotes, claims, events, exceptions>>
  BY DEF ExpireVenueHolds
<1>3. now' \in 0 .. MaxTime /\ claims' \in [Txns -> Payments \cup {Nil}]
      /\ events' \subseteq EventRec /\ exceptions' \subseteq Exception
  BY <1>2 DEF TypeOK
<1>. HIDE DEF E
<1>. QED BY <1>1, <1>2, <1>3, SweepType, ExpiredOrdersType, TypeOKFromRows

LEMMA CreateQuoteType ==
  ASSUME TypeOK, NEW q \in Quotes, NEW c \in Customers, NEW s \in Selections,
         NEW policy \in Policies, CreateQuote(q, c, s, policy)
  PROVE  TypeOK'
<1>. DEFINE E == Due(s.venue, now)
            row == [customer |-> c, selection |-> s,
                    expiresAt |-> now + policy.quoteMinutes,
                    holdMinutes |-> policy.holdMinutes]
<1>1. E \subseteq {x \in Quotes : IsHeld(x)}
  BY DueIsHeld
<1>2. row \in QuoteRec
  BY PoliciesAssumption DEF TypeOK, QuoteRec, Policy
<1>. HIDE DEF row
<1>3. quotes' = [quotes EXCEPT ![q] = row] /\ quotes[q] = Nil
  BY DEF CreateQuote, row
<1>4. orders' = ExpiredOrders(E) /\ payments' = ReleasePendingPayments(E, "EXPIRED")
      /\ live' = ReleaseOrderInventory(E)
      /\ UNCHANGED <<now, claims, events, exceptions>>
  BY DEF CreateQuote
<1>. HIDE DEF E
<1>5. quotes' \in [Quotes -> QuoteRec \cup {Nil}]
  BY <1>2, <1>3 DEF TypeOK
<1>6. \A x \in Quotes : Exists(x) => x # q /\ quotes'[x] = quotes[x] /\ quotes[x] # Nil
  BY <1>3 DEF TypeOK
<1>7. \A x \in Quotes : Exists(x) => Slots(x)' = Slots(x)
  BY <1>6 DEF Slots
<1>8. \A x \in Quotes : Exists(x)' <=> Exists(x)
  BY <1>1, <1>4, ExpiredOrdersType DEF Exists
<1>9. \A x \in Quotes : Exists(x)' => quotes'[x] # Nil /\ orders'[x].cancelled \subseteq Slots(x)'
  BY <1>1, <1>4, <1>6, <1>7, <1>8, SweepType
<1>10. /\ payments' \in [Payments -> PaymentRec \cup {Nil}]
       /\ \A p \in Payments : payments'[p] # Nil => Exists(payments'[p].order)
  BY <1>1, <1>4, SweepType
<1>11. \A p \in Payments : payments'[p] # Nil => Exists(payments[p].order)'
  BY <1>8, <1>10 DEF PaymentRec
<1>12. orders' \in [Quotes -> OrderRec \cup {Nil}] /\ live' \subseteq Occupancy
  BY <1>1, <1>4, SweepType, ExpiredOrdersType
<1>. QED BY <1>4, <1>5, <1>9, <1>10, <1>11, <1>12 DEF TypeOK

\* The order row a confirmation writes.
LEMMA ConfirmedRow ==
  ASSUME TypeOK, NEW q \in Quotes, NEW t \in Clock, ConfirmQuote(q, t)
  PROVE  \E row \in OrderRec :
           /\ row.cancelled = {}
           /\ row.paid = IF Total(q) = 0 THEN "NOT_REQUIRED" ELSE "UNPAID"
           /\ row.status = IF Total(q) = 0 THEN "CONFIRMED" ELSE "HELD"
           /\ orders' = [ExpiredOrders(Due(Venue(q), now)) EXCEPT ![q] = row]
<1>. DEFINE row(until) == [status    |-> IF Total(q) = 0 THEN "CONFIRMED" ELSE "HELD",
                           paid      |-> IF Total(q) = 0 THEN "NOT_REQUIRED" ELSE "UNPAID",
                           holdUntil |-> IF Total(q) = 0 THEN 0 ELSE until,
                           revision  |-> 1,
                           cancelled |-> {}]
<1>1. PICK until \in HoldEnds(q, t) :
        orders' = [ExpiredOrders(Due(Venue(q), now)) EXCEPT ![q] = row(until)]
  BY DEF ConfirmQuote
<1>2. quotes[q].holdMinutes \in Nat
  BY DEF ConfirmQuote, TypeOK, QuoteRec
<1>3. t \in Nat
  BY ClockType
<1>4. until \in Nat
  BY <1>2, <1>3, TimeAssumption DEF HoldEnds
<1>5. /\ row(until) \in OrderRec
      /\ row(until).cancelled = {}
      /\ row(until).paid = IF Total(q) = 0 THEN "NOT_REQUIRED" ELSE "UNPAID"
      /\ row(until).status = IF Total(q) = 0 THEN "CONFIRMED" ELSE "HELD"
  BY <1>4 DEF OrderRec
<1>. HIDE DEF row
<1>. QED BY <1>1, <1>5

LEMMA ConfirmQuoteType ==
  ASSUME TypeOK, NEW q \in Quotes, NEW t \in Clock, ConfirmQuote(q, t)
  PROVE  TypeOK'
<1>. DEFINE E == Due(Venue(q), now)
<1>1. E \subseteq {x \in Quotes : IsHeld(x)}
  BY DueIsHeld
<1>2. /\ quotes[q] # Nil /\ ~Exists(q) /\ now' = t
      /\ payments' = ReleasePendingPayments(E, "EXPIRED")
      /\ live' = ReleaseOrderInventory(E) \cup {Line(q, i) : i \in Slots(q)}
      /\ UNCHANGED <<quotes, claims, events, exceptions>>
  BY DEF ConfirmQuote
<1>3. Slots(q) \subseteq Intervals
  BY <1>2, SelectionsAssumption DEF TypeOK, Slots, QuoteRec, Selection
<1>4. PICK row \in OrderRec :
        row.cancelled = {} /\ orders' = [ExpiredOrders(E) EXCEPT ![q] = row]
  BY ConfirmedRow
<1>. HIDE DEF E
<1>5. \A x \in Quotes : Slots(x)' = Slots(x)
  BY <1>2 DEF Slots
<1>6. orders' \in [Quotes -> OrderRec \cup {Nil}]
  BY <1>1, <1>4, ExpiredOrdersType
<1>7. \A x \in Quotes : Exists(x)' <=> Exists(x) \/ x = q
  BY <1>1, <1>4, ExpiredOrdersType, NilAssumption DEF Exists
<1>8. \A x \in Quotes : Exists(x)' => quotes'[x] # Nil /\ orders'[x].cancelled \subseteq Slots(x)'
  BY <1>1, <1>2, <1>4, <1>5, <1>7, SweepType, ExpiredOrdersType DEF TypeOK
<1>9. /\ payments' \in [Payments -> PaymentRec \cup {Nil}]
      /\ \A p \in Payments : payments'[p] # Nil => Exists(payments'[p].order)
  BY <1>1, <1>2, SweepType
<1>10. \A p \in Payments : payments'[p] # Nil => Exists(payments[p].order)'
  BY <1>7, <1>9 DEF PaymentRec
<1>11. live' \subseteq Occupancy
  BY <1>1, <1>2, <1>3, SweepType DEF Occupancy, Line
<1>. QED BY <1>2, <1>6, <1>8, <1>9, <1>10, <1>11, ClockType DEF TypeOK

\* Cancelling all or some lines of an order rewrites its row and sweeps.
LEMMA CancellationType ==
  ASSUME TypeOK, NEW q \in Quotes, NEW L \in SUBSET Intervals,
         CancelUnpaidOrder(q) \/ CancelFreeOrderLines(q, L)
  PROVE  TypeOK'
<1>. DEFINE E == Due(Venue(q), now)
<1>1. E \subseteq {x \in Quotes : IsHeld(x)}
  BY DueIsHeld
<1>2. Exists(q) /\ UNCHANGED <<now, quotes, claims, events, exceptions>>
  BY DEF CancelUnpaidOrder, CancelFreeOrderLines
<1>3. PICK row \in OrderRec :
        row.cancelled \subseteq Slots(q) /\ orders' = [ExpiredOrders(E) EXCEPT ![q] = row]
  <2>1. CASE CancelUnpaidOrder(q)
    BY <2>1, <1>2, OrderRowsType DEF CancelUnpaidOrder
  <2>2. CASE CancelFreeOrderLines(q, L)
    <3>1. L \in SUBSET Slots(q) /\ orders[q].cancelled \subseteq Slots(q)
      BY <2>2, <1>2 DEF CancelFreeOrderLines, TypeOK
    <3>2. WithoutLines(q, L) \in OrderRec
          /\ WithoutLines(q, L).cancelled \subseteq Slots(q)
      BY <3>1, <1>2, OrderRowsType
    <3>. QED BY <2>2, <3>2 DEF CancelFreeOrderLines
  <2>. QED BY <2>1, <2>2
<1>4. /\ payments' \in [Payments -> PaymentRec \cup {Nil}]
      /\ \A p \in Payments : payments'[p] # Nil =>
           payments[p] # Nil /\ payments'[p].order = payments[p].order
  <2>1. CASE CancelUnpaidOrder(q)
    <3>. DEFINE cancelled == ReleasePendingPayments({q}, "CANCELLED")
                expired   == ReleasePendingPayments(E, "EXPIRED")
    <3>1. /\ cancelled \in [Payments -> PaymentRec \cup {Nil}]
          /\ \A p \in Payments : cancelled[p] # Nil =>
               payments[p] # Nil /\ cancelled[p].order = payments[p].order
      BY ReleasedPayments
    <3>2. /\ expired \in [Payments -> PaymentRec \cup {Nil}]
          /\ \A p \in Payments : expired[p] # Nil =>
               payments[p] # Nil /\ expired[p].order = payments[p].order
      BY ReleasedPayments
    <3>3. payments' = [p \in Payments |-> IF IsPending(p) /\ payments[p].order = q
                                           THEN cancelled[p] ELSE expired[p]]
      BY <2>1 DEF CancelUnpaidOrder
    <3>. HIDE DEF cancelled, expired
    <3>. QED BY <3>1, <3>2, <3>3
  <2>2. CASE CancelFreeOrderLines(q, L)
    <3>1. payments' = ReleasePendingPayments(E, "EXPIRED")
      BY <2>2 DEF CancelFreeOrderLines
    <3>. QED BY <3>1, ReleasedPayments
  <2>. QED BY <2>1, <2>2
<1>5. \A p \in Payments : payments'[p] # Nil => Exists(payments'[p].order)
  BY <1>4 DEF TypeOK
<1>6. live' \subseteq Occupancy
  BY DEF CancelUnpaidOrder, CancelFreeOrderLines, ReleaseLines, ReleaseOrderInventory, TypeOK
<1>. HIDE DEF E
<1>7. /\ orders' \in [Quotes -> OrderRec \cup {Nil}]
      /\ \A x \in Quotes : /\ orders'[x] # Nil <=> Exists(x)
                           /\ Exists(x) => orders'[x].cancelled \subseteq Slots(x)
  BY <1>1, <1>2, <1>3, RewrittenOrders
<1>8. /\ now' \in 0 .. MaxTime /\ claims' \in [Txns -> Payments \cup {Nil}]
      /\ events' \subseteq EventRec /\ exceptions' \subseteq Exception
  BY <1>2 DEF TypeOK
<1>. QED BY <1>2, <1>4, <1>5, <1>6, <1>7, <1>8, TypeOKFromRows

LEMMA BeginOrderPaymentType ==
  ASSUME TypeOK, NEW p \in Payments, NEW q \in Quotes, NEW w \in WalletParts,
         NEW t \in Clock, BeginOrderPayment(p, q, w, t)
  PROVE  TypeOK'
<1>. DEFINE E == Due(Venue(q), now)
            rel == ReleasePendingPayments(E, "EXPIRED")
            paid == Total(q) - w = 0
            row == [order |-> q, external |-> Total(q) - w, wallet |-> w,
                    status |-> IF paid THEN "SUCCEEDED" ELSE "PENDING",
                    txn |-> Nil,
                    reserve |-> CASE w = 0 -> "NONE"
                                  [] w > 0 /\ paid -> "CONSUMED"
                                  [] OTHER -> "RESERVED"]
<1>1. E \subseteq {x \in Quotes : IsHeld(x)}
  BY DueIsHeld
<1>2. /\ Exists(q) /\ now' = t
      /\ payments' = [rel EXCEPT ![p] = row]
      /\ live' = ReleaseOrderInventory(E)
      /\ orders' = [ExpiredOrders(E) EXCEPT ![q] = IF paid THEN PaidOrder(q) ELSE @]
      /\ UNCHANGED <<quotes, claims, events, exceptions>>
  BY DEF BeginOrderPayment, IsHeld
<1>3. w \in Nat /\ Total(q) \in Nat /\ w <= Total(q)
  <2>1. quotes[q] \in QuoteRec
    BY <1>2 DEF TypeOK
  <2>. QED BY <2>1, AmountsAssumption, SelectionsAssumption
       DEF BeginOrderPayment, Affordable, Total, QuoteRec, Selection
<1>4. row \in PaymentRec /\ row.order = q
  <2>. DEFINE status == IF paid THEN "SUCCEEDED" ELSE "PENDING"
              reserve == CASE w = 0 -> "NONE"
                           [] w > 0 /\ paid -> "CONSUMED"
                           [] OTHER -> "RESERVED"
  <2>1. reserve \in {"NONE", "RESERVED", "CONSUMED"}
    BY <1>3
  <2>2. status \in {"SUCCEEDED", "PENDING"}
    OBVIOUS
  <2>3. Total(q) - w \in Nat
    BY <1>3
  <2>. HIDE DEF status, reserve
  <2>4. [order |-> q, external |-> Total(q) - w, wallet |-> w, status |-> status,
         txn |-> Nil, reserve |-> reserve] \in PaymentRec
    BY <1>3, <2>1, <2>2, <2>3 DEF PaymentRec
  <2>. QED BY <2>4 DEF status, reserve
<1>. HIDE DEF row
<1>5. /\ orders' \in [Quotes -> OrderRec \cup {Nil}]
      /\ \A x \in Quotes : /\ orders'[x] # Nil <=> Exists(x)
                           /\ Exists(x) => orders'[x].cancelled \subseteq Slots(x)
  <2>. DEFINE last == IF paid THEN PaidOrder(q) ELSE ExpiredOrders(E)[q]
  <2>1. last \in OrderRec /\ last.cancelled \subseteq Slots(q)
    <3>1. ExpiredOrders(E)[q] \in OrderRec /\ ExpiredOrders(E)[q].cancelled \subseteq Slots(q)
      BY <1>1, <1>2, ExpiredOrdersType DEF TypeOK
    <3>2. PaidOrder(q) \in OrderRec /\ PaidOrder(q).cancelled \subseteq Slots(q)
      BY <1>2, OrderRowsType DEF TypeOK
    <3>. QED BY <3>1, <3>2
  <2>2. orders' = [ExpiredOrders(E) EXCEPT ![q] = last]
    BY <1>1, <1>2, ExpiredOrdersType
  <2>. HIDE DEF last, E
  <2>. QED BY <2>1, <2>2, <1>1, <1>2, RewrittenOrders
<1>. HIDE DEF E, rel
<1>6. /\ payments' \in [Payments -> PaymentRec \cup {Nil}]
      /\ \A r \in Payments : payments'[r] # Nil => Exists(payments'[r].order)
  BY <1>1, <1>2, <1>4, SweepType DEF rel
<1>7. live' \subseteq Occupancy
  BY <1>1, <1>2, SweepType
<1>8. /\ now' \in 0 .. MaxTime /\ claims' \in [Txns -> Payments \cup {Nil}]
      /\ events' \subseteq EventRec /\ exceptions' \subseteq Exception
  BY <1>2, ClockType DEF TypeOK
<1>. QED BY <1>2, <1>5, <1>6, <1>7, <1>8, TypeOKFromRows

LEMMA InventoryType ==
  ASSUME TypeOK, Inventory
  PROVE  TypeOK'
<1>1. \A b \in Blocks, i \in Intervals : Block(b, i) \in Occupancy
  BY DEF Block, Occupancy
<1>2. live' \subseteq Occupancy
  <2>1. live \subseteq Occupancy
    BY DEF TypeOK
  <2>2. ASSUME NEW b \in Blocks, NEW i \in Intervals, OccupyCourt(b, i)
        PROVE  live' \subseteq Occupancy
    BY <1>1, <2>1, <2>2 DEF OccupyCourt
  <2>3. ASSUME NEW b \in Blocks, NEW i \in Intervals, NEW j \in Intervals,
               RescheduleCourtOccupancy(b, i, j)
        PROVE  live' \subseteq Occupancy
    BY <1>1, <2>1, <2>3 DEF RescheduleCourtOccupancy
  <2>. QED BY <2>1, <2>2, <2>3 DEF Inventory, ReleaseCourtOccupancy
<1>3. UNCHANGED <<now, quotes, orders, payments, claims, events, exceptions>>
  BY DEF Inventory, OccupyCourt, RescheduleCourtOccupancy, ReleaseCourtOccupancy
<1>. QED BY <1>2, <1>3 DEF TypeOK, Exists, Slots

LEMMA TypeOKStep == TypeOK /\ [Next]_vars => TypeOK'
<1>. SUFFICES ASSUME TypeOK, [Next]_vars PROVE TypeOK'
  OBVIOUS
<1>1. CASE Tick
  <2>1. now' \in 0 .. MaxTime
    BY <1>1, TimeAssumption DEF Tick, TypeOK
  <2>2. UNCHANGED <<quotes, orders, live, payments, claims, events, exceptions>>
    BY <1>1 DEF Tick
  <2>. QED BY <2>1, <2>2 DEF TypeOK, Exists, Slots
<1>2. ASSUME NEW v \in Venues, ExpireVenueHolds(v) PROVE TypeOK'
  BY <1>2, ExpireVenueHoldsType
<1>3. CASE Booking
  BY <1>3, CreateQuoteType, ConfirmQuoteType, CancellationType DEF Booking
<1>4. ASSUME NEW p \in Payments, NEW q \in Quotes, NEW w \in WalletParts, NEW t \in Clock,
             BeginOrderPayment(p, q, w, t)
      PROVE  TypeOK'
  BY <1>4, BeginOrderPaymentType
<1>5. ASSUME NEW e \in EventRec, NEW t \in Clock, Settlement(e, t) PROVE TypeOK'
  BY <1>5, SettlementType
<1>6. CASE Inventory
  BY <1>6, InventoryType
<1>7. CASE UNCHANGED vars
  BY <1>7 DEF vars, TypeOK, Exists, Slots
<1>. QED BY <1>1, <1>2, <1>3, <1>4, <1>5, <1>6, <1>7 DEF Next

\* Every row has the type of its table, every foreign key refers to a row, and
\* the cancelled lines of an order are lines of it: what every command of
\* booking.ts, payments.ts and inventory.ts leaves behind.
THEOREM TypeCorrect == Spec => []TypeOK
<1>1. Init => TypeOK
  BY TimeAssumption DEF Init, TypeOK, Exists
<1>2. TypeOK /\ [Next]_vars => TypeOK'
  BY TypeOKStep
<1>. QED BY <1>1, <1>2, PTL DEF Spec

(***************************************************************************)
(* Courts: no overlap, and each order keeps exactly its active lines.      *)
(***************************************************************************)
\* Releasing the orders Q takes their lines, and nothing else, from the courts.
LEMMA ReleasedLines ==
  ASSUME NEW Q
  PROVE  /\ ReleaseOrderInventory(Q) \subseteq live
         /\ \A q \in Quotes, i \in Intervals :
              Line(q, i) \in ReleaseOrderInventory(Q) <=> Line(q, i) \in live /\ q \notin Q
BY DEF ReleaseOrderInventory, Line

LEMMA LinesAreUnique ==
  /\ \A q, r, i, j : Line(q, i) = Line(r, j) <=> q = r /\ i = j
  /\ \A q, b, i, j : Line(q, i) # Block(b, j)
BY DEF Line, Block

\* An expired order has no active slots; the others keep their rows.
LEMMA ExpiredRow ==
  ASSUME TypeOK, NEW E, E \subseteq {x \in Quotes : IsHeld(x)}, NEW q \in Quotes
  PROVE  /\ q \in E => ExpiredOrders(E)[q].status = "EXPIRED" /\ Exists(q)
         /\ q \notin E => ExpiredOrders(E)[q] = orders[q]
<1>1. CASE q \in E
  <2>1. orders[q] \in OrderRec
    BY <1>1 DEF TypeOK, IsHeld, Exists
  <2>2. ExpiredOrders(E)[q] = [orders[q] EXCEPT !.status = "EXPIRED", !.holdUntil = 0,
                                                !.revision = @ + 1]
    BY <1>1 DEF ExpiredOrders
  <2>. QED BY <1>1, <2>1, <2>2 DEF OrderRec, IsHeld
<1>2. CASE q \notin E
  BY <1>2 DEF ExpiredOrders
<1>. QED BY <1>1, <1>2

\* The status of an order that is cancelled, paid or loses lines.
LEMMA OrderRowsStatus ==
  ASSUME TypeOK, NEW q \in Quotes, Exists(q)
  PROVE  /\ CancelledOrder(q).status = "CANCELLED"
         /\ PaidOrder(q).status = "CONFIRMED"
         /\ \A L : WithoutLines(q, L).status =
              IF Slots(q) \subseteq orders[q].cancelled \cup L
              THEN "CANCELLED" ELSE orders[q].status
<1>1. orders[q] \in OrderRec
  BY DEF TypeOK, Exists
<1>. QED BY <1>1 DEF CancelledOrder, PaidOrder, WithoutLines, OrderRec

\* A step that keeps the quotes of orders, expires the orders E, and rewrites at
\* most the row of one order q, whose lines R leave the courts.
LEMMA InventoryFromRows ==
  ASSUME TypeOK, InventoryMatchesOrders,
         \A x \in Quotes : Exists(x) => quotes'[x] = quotes[x],
         NEW E, E \subseteq {x \in Quotes : IsHeld(x)},
         NEW q \in Quotes, NEW R \in SUBSET Intervals,
         \A x \in Quotes \ {q} : orders'[x] = ExpiredOrders(E)[x],
         ActiveSlots(q)' = IF q \in E THEN {} ELSE ActiveSlots(q) \ R,
         \A x \in Quotes, i \in Intervals :
           Line(x, i) \in live' <=>
             Line(x, i) \in live /\ x \notin E /\ ~(x = q /\ i \in R)
  PROVE  InventoryMatchesOrders'
<1>. SUFFICES ASSUME NEW x \in Quotes, NEW i \in Intervals
              PROVE  Line(x, i) \in live' <=> i \in ActiveSlots(x)'
  BY DEF InventoryMatchesOrders, Line
<1>1. Line(x, i) \in live <=> i \in ActiveSlots(x)
  BY DEF InventoryMatchesOrders
<1>2. CASE x = q
  BY <1>1, <1>2
<1>3. CASE x # q /\ x \in E
  <2>1. orders'[x].status = "EXPIRED"
    BY <1>3, ExpiredRow
  <2>. QED BY <1>3, <2>1 DEF ActiveSlots
<1>4. CASE x # q /\ x \notin E
  <2>1. orders'[x] = orders[x]
    BY <1>4, ExpiredRow
  <2>2. ActiveSlots(x)' = ActiveSlots(x)
    BY <2>1 DEF ActiveSlots, Exists, Slots
  <2>. QED BY <1>1, <1>4, <2>2
<1>. QED BY <1>2, <1>3, <1>4

\* The worker's sweep, alone or on the way of another step.
LEMMA InventoryFromSweep ==
  ASSUME TypeOK, InventoryMatchesOrders,
         \A x \in Quotes : Exists(x) => quotes'[x] = quotes[x],
         NEW E, E \subseteq {x \in Quotes : IsHeld(x)},
         orders' = ExpiredOrders(E), live' = ReleaseOrderInventory(E)
  PROVE  InventoryMatchesOrders'
<1>1. ASSUME NEW q \in Quotes
      PROVE  ActiveSlots(q)' = IF q \in E THEN {} ELSE ActiveSlots(q)
  <2>1. CASE q \in E
    BY <2>1, ExpiredRow DEF ActiveSlots
  <2>2. CASE q \notin E
    <3>1. orders'[q] = orders[q]
      BY <2>2, ExpiredRow
    <3>. QED BY <2>2, <3>1 DEF ActiveSlots, Exists, Slots
  <2>. QED BY <2>1, <2>2
<1>2. \A x \in Quotes, i \in Intervals :
        Line(x, i) \in live' <=> Line(x, i) \in live /\ x \notin E
  BY ReleasedLines
<1>. QED BY <1>1, <1>2 DEF InventoryMatchesOrders

LEMMA OverlapSymmetric ==
  ASSUME NEW i \in Intervals, NEW j \in Intervals
  PROVE  Overlap(i, j) <=> Overlap(j, i)
BY IntervalsAssumption DEF Overlap

\* Adding occupancies that meet none of those that stay.
LEMMA AddOccupancies ==
  ASSUME NEW stay \in SUBSET Occupancy, NEW new \in SUBSET Occupancy,
         \A a, b \in stay : a # b => ~Overlap(a.slot, b.slot),
         \A a, b \in new : a # b => ~Overlap(a.slot, b.slot),
         \A a \in new, b \in stay : ~Overlap(a.slot, b.slot),
         live' = stay \cup new
  PROVE  NoDoubleBooking'
<1>1. \A a \in Occupancy : a.slot \in Intervals
  BY DEF Occupancy
<1>2. \A a \in stay, b \in new : ~Overlap(a.slot, b.slot)
  BY <1>1, OverlapSymmetric
<1>. QED BY <1>2 DEF NoDoubleBooking, Overlap

LEMMA NoDoubleBookingStep ==
  ASSUME TypeOK, NoDoubleBooking, [Next]_vars
  PROVE  NoDoubleBooking'
<1>1. CASE live' \subseteq live
  BY <1>1 DEF NoDoubleBooking
<1>2. ASSUME NEW q \in Quotes, NEW t \in Clock, ConfirmQuote(q, t)
      PROVE  NoDoubleBooking'
  <2>. DEFINE stay == ReleaseOrderInventory(Due(Venue(q), now))
              new == {Line(q, i) : i \in Slots(q)}
  <2>1. quotes[q].selection \in Selections
    BY <1>2 DEF ConfirmQuote, TypeOK, QuoteRec
  <2>2. /\ Slots(q) \subseteq Intervals
        /\ \A i, j \in Slots(q) : i # j => ~Overlap(i, j)
    BY <2>1, SelectionsAssumption DEF Slots, Selection
  <2>3. stay \subseteq Occupancy /\ \A a, b \in stay : a # b => ~Overlap(a.slot, b.slot)
    <3>1. stay \subseteq live
      BY ReleasedLines
    <3>. HIDE DEF stay
    <3>. QED BY <3>1 DEF TypeOK, NoDoubleBooking
  <2>4. new \subseteq Occupancy /\ \A a, b \in new : a # b => ~Overlap(a.slot, b.slot)
    BY <2>2 DEF Occupancy, Line
  <2>5. \A a \in new, b \in stay : ~Overlap(a.slot, b.slot)
    BY <1>2 DEF ConfirmQuote, NoConflict, Line
  <2>6. live' = stay \cup new
    BY <1>2 DEF ConfirmQuote
  <2>. HIDE DEF stay, new
  <2>. QED BY <2>3, <2>4, <2>5, <2>6, AddOccupancies
<1>3. ASSUME NEW b \in Blocks, NEW i \in Intervals, OccupyCourt(b, i)
      PROVE  NoDoubleBooking'
  <2>. DEFINE new == {Block(b, i)}
  <2>1. new \subseteq Occupancy /\ \A a, o \in new : a = o
    BY DEF Block, Occupancy
  <2>2. \A a \in new, o \in live : ~Overlap(a.slot, o.slot)
    BY <1>3 DEF OccupyCourt, NoConflict, Block
  <2>3. live \subseteq Occupancy /\ \A a, o \in live : a # o => ~Overlap(a.slot, o.slot)
    BY DEF TypeOK, NoDoubleBooking
  <2>4. live' = live \cup new
    BY <1>3 DEF OccupyCourt
  <2>. HIDE DEF new
  <2>. QED BY <2>1, <2>2, <2>3, <2>4, AddOccupancies
<1>4. ASSUME NEW b \in Blocks, NEW i \in Intervals, NEW j \in Intervals,
             RescheduleCourtOccupancy(b, i, j)
      PROVE  NoDoubleBooking'
  <2>. DEFINE stay == live \ {Block(b, i)}
              new  == {Block(b, j)}
  <2>1. new \subseteq Occupancy /\ \A a, o \in new : a = o
    BY DEF Block, Occupancy
  <2>2. \A a \in new, o \in stay : ~Overlap(a.slot, o.slot)
    BY <1>4 DEF RescheduleCourtOccupancy, NoConflict, Block
  <2>3. stay \subseteq Occupancy /\ \A a, o \in stay : a # o => ~Overlap(a.slot, o.slot)
    BY DEF TypeOK, NoDoubleBooking
  <2>4. live' = stay \cup new
    BY <1>4 DEF RescheduleCourtOccupancy
  <2>. HIDE DEF stay, new
  <2>. QED BY <2>1, <2>2, <2>3, <2>4, AddOccupancies
<1>5. CASE UNCHANGED vars \/ Tick
  BY <1>1, <1>5 DEF vars, Tick
<1>6. ASSUME NEW v \in Venues, ExpireVenueHolds(v) PROVE NoDoubleBooking'
  BY <1>1, <1>6, ReleasedLines DEF ExpireVenueHolds
<1>7. CASE Booking
  <2>1. ASSUME NEW q \in Quotes, NEW c \in Customers, NEW s \in Selections,
               NEW policy \in Policies, CreateQuote(q, c, s, policy)
        PROVE  live' \subseteq live
    BY <2>1, ReleasedLines DEF CreateQuote
  <2>2. ASSUME NEW q \in Quotes, CancelUnpaidOrder(q) PROVE live' \subseteq live
    BY <2>2, ReleasedLines DEF CancelUnpaidOrder
  <2>3. ASSUME NEW q \in Quotes, NEW L \in SUBSET Intervals, CancelFreeOrderLines(q, L)
        PROVE  live' \subseteq live
    <3>1. live' \subseteq ReleaseOrderInventory(Due(Venue(q), now))
      BY <2>3 DEF CancelFreeOrderLines, ReleaseLines
    <3>. QED BY <3>1, ReleasedLines
  <2>. QED BY <1>1, <1>2, <1>7, <2>1, <2>2, <2>3 DEF Booking
<1>8. ASSUME NEW p \in Payments, NEW q \in Quotes, NEW w \in WalletParts, NEW t \in Clock,
             BeginOrderPayment(p, q, w, t)
      PROVE  NoDoubleBooking'
  BY <1>1, <1>8, ReleasedLines DEF BeginOrderPayment
<1>9. ASSUME NEW e \in EventRec, NEW t \in Clock, Settlement(e, t) PROVE NoDoubleBooking'
  BY <1>1, <1>9, SettlementLeaves
<1>10. CASE Inventory
  BY <1>1, <1>3, <1>4, <1>10 DEF Inventory, ReleaseCourtOccupancy
<1>. QED BY <1>5, <1>6, <1>7, <1>8, <1>9, <1>10 DEF Next

\* No two live occupancies of a court overlap: what the check of the courts under
\* the tenant lock guarantees, for orders and for occupancies made by hand.
THEOREM NeverDoubleBooked == Spec => []NoDoubleBooking
<1>1. Init => NoDoubleBooking
  BY DEF Init, NoDoubleBooking
<1>2. TypeOK /\ NoDoubleBooking /\ [Next]_vars => NoDoubleBooking'
  BY NoDoubleBookingStep
<1>. QED BY <1>1, <1>2, TypeCorrect, PTL DEF Spec

\* The row of order q is written as a cancelled one and its lines leave.
LEMMA InventoryFromCancellation ==
  ASSUME TypeOK, InventoryMatchesOrders, UNCHANGED quotes,
         NEW E, E \subseteq {x \in Quotes : IsHeld(x)},
         NEW q \in Quotes, Exists(q),
         orders' = [ExpiredOrders(E) EXCEPT ![q] = CancelledOrder(q)],
         live' = ReleaseOrderInventory(E \cup {q})
  PROVE  InventoryMatchesOrders'
<1>1. \A x \in Quotes \ {q} : orders'[x] = ExpiredOrders(E)[x]
  BY DEF ExpiredOrders
<1>2. orders'[q] = CancelledOrder(q)
  BY DEF ExpiredOrders
<1>3. ActiveSlots(q)' = IF q \in E THEN {} ELSE ActiveSlots(q) \ Intervals
  <2>1. ActiveSlots(q)' = {}
    BY <1>2, OrderRowsStatus DEF ActiveSlots
  <2>2. ActiveSlots(q) \subseteq Intervals
    BY SelectionsAssumption DEF TypeOK, ActiveSlots, Exists, Slots, QuoteRec, Selection
  <2>. QED BY <2>1, <2>2
<1>4. \A x \in Quotes, i \in Intervals :
        Line(x, i) \in live' <=> Line(x, i) \in live /\ x \notin E /\ ~(x = q /\ i \in Intervals)
  BY ReleasedLines
<1>. QED BY <1>1, <1>3, <1>4, InventoryFromRows

\* The row of a held order q is written as a confirmed one and its lines stay.
LEMMA InventoryFromPayment ==
  ASSUME TypeOK, InventoryMatchesOrders, UNCHANGED quotes,
         NEW E, E \subseteq {x \in Quotes : IsHeld(x)},
         NEW q \in Quotes, IsHeld(q), q \notin E,
         orders' = [ExpiredOrders(E) EXCEPT ![q] = PaidOrder(q)],
         live' = ReleaseOrderInventory(E)
  PROVE  InventoryMatchesOrders'
<1>1. \A x \in Quotes \ {q} : orders'[x] = ExpiredOrders(E)[x]
  BY DEF ExpiredOrders
<1>2. orders'[q] = PaidOrder(q)
  BY DEF ExpiredOrders
<1>. DEFINE released == {}
<1>3. ActiveSlots(q)' = IF q \in E THEN {} ELSE ActiveSlots(q) \ released
  BY <1>2, OrderRowsStatus, OrderRowsType, NilAssumption
     DEF ActiveSlots, IsHeld, Exists, Slots
<1>4. released \in SUBSET Intervals
  OBVIOUS
<1>5. \A x \in Quotes, i \in Intervals :
        Line(x, i) \in live' <=> Line(x, i) \in live /\ x \notin E /\ ~(x = q /\ i \in released)
  BY ReleasedLines
<1>. HIDE DEF released
<1>. QED BY <1>1, <1>3, <1>4, <1>5, InventoryFromRows

LEMMA InventoryFromSettlement ==
  ASSUME TypeOK, InventoryMatchesOrders,
         NEW e \in EventRec, NEW t \in Clock, Settlement(e, t)
  PROVE  InventoryMatchesOrders'
<1>. DEFINE p == e.payment
            q == payments[p].order
            E == DueAtSettlement(q, t)
<1>1. E \subseteq {x \in Quotes : IsHeld(x)}
  BY DueAtSettlementIsHeld
<1>2. UNCHANGED quotes /\ NewEvent(e)
  BY DEF Settlement, SettleOnTime, SettleLate, SettleAgain, SettleFailure
<1>3. q \in Quotes /\ Exists(q)
  BY <1>2 DEF TypeOK, EventRec, NewEvent, PaymentRec
<1>4. CASE SettleOnTime(e, t)
  BY <1>1, <1>2, <1>3, <1>4, InventoryFromPayment DEF SettleOnTime, StillPayable
<1>5. CASE SettleLate(e, t) \/ SettleAgain(e, t)
  BY <1>1, <1>2, <1>5, InventoryFromSweep DEF SettleLate, SettleAgain
<1>6. CASE SettleFailure(e, t) /\ StillWaits(p, E)
  BY <1>1, <1>2, <1>3, <1>6, InventoryFromCancellation DEF SettleFailure
<1>7. CASE SettleFailure(e, t) /\ ~StillWaits(p, E)
  <2>1. orders' = ExpiredOrders(E) /\ live' = ReleaseOrderInventory(E)
    BY <1>7, <1>3 DEF SettleFailure, ExpiredOrders
  <2>. QED BY <1>1, <1>2, <2>1, InventoryFromSweep
<1>. QED BY <1>4, <1>5, <1>6, <1>7 DEF Settlement

LEMMA InventoryFromConfirmation ==
  ASSUME TypeOK, InventoryMatchesOrders,
         NEW q \in Quotes, NEW t \in Clock, ConfirmQuote(q, t)
  PROVE  InventoryMatchesOrders'
<1>. DEFINE E == Due(Venue(q), now)
<1>1. E \subseteq {x \in Quotes : IsHeld(x)}
  BY DueIsHeld
<1>2. /\ ~Exists(q) /\ quotes[q] # Nil /\ UNCHANGED quotes
      /\ live' = ReleaseOrderInventory(E) \cup {Line(q, i) : i \in Slots(q)}
      /\ \A x \in Quotes \ {q} : orders'[x] = ExpiredOrders(E)[x]
  BY DEF ConfirmQuote, ExpiredOrders
<1>3. PICK row \in OrderRec : /\ orders'[q] = row /\ row.cancelled = {}
                              /\ row.status \in {"HELD", "CONFIRMED"}
  BY ConfirmedRow DEF ExpiredOrders
<1>4. \A i : Line(q, i) \notin live
  BY <1>2 DEF InventoryMatchesOrders, ActiveSlots, TypeOK, Occupancy, Line
<1>5. Slots(q) \subseteq Intervals
  BY <1>2, SelectionsAssumption DEF TypeOK, Slots, QuoteRec, Selection
<1>. SUFFICES ASSUME NEW x \in Quotes, NEW i \in Intervals
              PROVE  Line(x, i) \in live' <=> i \in ActiveSlots(x)'
  BY DEF InventoryMatchesOrders, Line
<1>6. Line(x, i) \in live' <=> \/ Line(x, i) \in live /\ x \notin E
                               \/ x = q /\ i \in Slots(q)
  BY <1>2, ReleasedLines, LinesAreUnique
<1>7. CASE x = q
  <2>1. ActiveSlots(q)' = Slots(q)
    BY <1>2, <1>3, NilAssumption DEF ActiveSlots, Exists, Slots
  <2>. QED BY <1>4, <1>6, <1>7, <2>1
<1>8. CASE x # q /\ x \in E
  BY <1>1, <1>2, <1>6, <1>8, ExpiredRow DEF ActiveSlots
<1>9. CASE x # q /\ x \notin E
  <2>1. orders'[x] = orders[x]
    BY <1>1, <1>2, <1>9, ExpiredRow
  <2>2. ActiveSlots(x)' = ActiveSlots(x)
    BY <1>2, <2>1 DEF ActiveSlots, Exists, Slots
  <2>. QED BY <1>6, <1>9, <2>2 DEF InventoryMatchesOrders
<1>. QED BY <1>7, <1>8, <1>9

LEMMA InventoryFromLines ==
  ASSUME TypeOK, InventoryMatchesOrders,
         NEW q \in Quotes, NEW L \in SUBSET Intervals, CancelFreeOrderLines(q, L)
  PROVE  InventoryMatchesOrders'
<1>. DEFINE E == Due(Venue(q), now)
<1>1. E \subseteq {x \in Quotes : IsHeld(x)}
  BY DueIsHeld
<1>2. /\ Exists(q) /\ orders[q].status = "CONFIRMED" /\ UNCHANGED quotes
      /\ L \subseteq Slots(q) \ orders[q].cancelled
      /\ orders' = [ExpiredOrders(E) EXCEPT ![q] = WithoutLines(q, L)]
      /\ live' = ReleaseOrderInventory(E) \ {Line(q, i) : i \in L}
  BY DEF CancelFreeOrderLines, ReleaseLines
<1>3. \A x \in Quotes \ {q} : orders'[x] = ExpiredOrders(E)[x]
  BY <1>2 DEF ExpiredOrders
<1>4. orders'[q] = WithoutLines(q, L)
  BY <1>2 DEF ExpiredOrders
<1>5. q \notin E
  BY <1>1, <1>2 DEF IsHeld
<1>6. ActiveSlots(q)' = IF q \in E THEN {} ELSE ActiveSlots(q) \ L
  <2>1. L \in SUBSET Slots(q)
    BY <1>2
  <2>2. orders'[q].cancelled = orders[q].cancelled \cup L /\ orders'[q] # Nil
    BY <1>2, <1>4, <2>1, OrderRowsType, NilAssumption
  <2>3. orders'[q].status = IF Slots(q) \subseteq orders[q].cancelled \cup L
                            THEN "CANCELLED" ELSE "CONFIRMED"
    BY <1>2, <1>4, OrderRowsStatus
  <2>4. Slots(q)' = Slots(q)
    BY <1>2 DEF Slots
  <2>5. ActiveSlots(q) = Slots(q) \ orders[q].cancelled
    BY <1>2 DEF ActiveSlots
  <2>. QED BY <1>5, <2>2, <2>3, <2>4, <2>5 DEF ActiveSlots, Exists
<1>7. \A x \in Quotes, i \in Intervals :
        Line(x, i) \in live' <=> Line(x, i) \in live /\ x \notin E /\ ~(x = q /\ i \in L)
  BY <1>2, ReleasedLines, LinesAreUnique
<1>. QED BY <1>1, <1>2, <1>3, <1>6, <1>7, InventoryFromRows

LEMMA InventoryStep ==
  ASSUME TypeOK, InventoryMatchesOrders, [Next]_vars
  PROVE  InventoryMatchesOrders'
<1>1. CASE UNCHANGED vars \/ Tick
  BY <1>1 DEF vars, Tick, InventoryMatchesOrders, ActiveSlots, Exists, Slots
<1>2. ASSUME NEW v \in Venues, ExpireVenueHolds(v) PROVE InventoryMatchesOrders'
  BY <1>2, DueIsHeld, InventoryFromSweep DEF ExpireVenueHolds
<1>3. ASSUME NEW q \in Quotes, NEW c \in Customers, NEW s \in Selections,
             NEW policy \in Policies, CreateQuote(q, c, s, policy)
      PROVE  InventoryMatchesOrders'
  <2>1. \A x \in Quotes : Exists(x) => quotes'[x] = quotes[x]
    BY <1>3 DEF CreateQuote, TypeOK
  <2>. QED BY <1>3, <2>1, DueIsHeld, InventoryFromSweep DEF CreateQuote
<1>4. ASSUME NEW q \in Quotes, NEW t \in Clock, ConfirmQuote(q, t)
      PROVE  InventoryMatchesOrders'
  BY <1>4, InventoryFromConfirmation
<1>5. ASSUME NEW q \in Quotes, CancelUnpaidOrder(q) PROVE InventoryMatchesOrders'
  BY <1>5, DueIsHeld, InventoryFromCancellation DEF CancelUnpaidOrder
<1>6. ASSUME NEW q \in Quotes, NEW L \in SUBSET Intervals, CancelFreeOrderLines(q, L)
      PROVE  InventoryMatchesOrders'
  BY <1>6, InventoryFromLines
<1>7. ASSUME NEW p \in Payments, NEW q \in Quotes, NEW w \in WalletParts, NEW t \in Clock,
             BeginOrderPayment(p, q, w, t)
      PROVE  InventoryMatchesOrders'
  <2>. DEFINE E == Due(Venue(q), now)
  <2>1. /\ E \subseteq {x \in Quotes : IsHeld(x)} /\ IsHeld(q) /\ q \notin E
        /\ UNCHANGED quotes /\ live' = ReleaseOrderInventory(E)
    BY <1>7, DueIsHeld DEF BeginOrderPayment
  <2>2. CASE Total(q) - w = 0
    BY <1>7, <2>1, <2>2, InventoryFromPayment DEF BeginOrderPayment
  <2>3. CASE Total(q) - w # 0
    <3>1. orders' = ExpiredOrders(E)
      BY <1>7, <2>3 DEF BeginOrderPayment, ExpiredOrders
    <3>. QED BY <2>1, <3>1, InventoryFromSweep
  <2>. QED BY <2>2, <2>3
<1>8. ASSUME NEW e \in EventRec, NEW t \in Clock, Settlement(e, t)
      PROVE  InventoryMatchesOrders'
  BY <1>8, InventoryFromSettlement
<1>9. CASE Inventory
  <2>1. ASSUME NEW q \in Quotes, NEW i \in Intervals
        PROVE  Line(q, i) \in live' <=> Line(q, i) \in live
    <3>1. \A b, j : Line(q, i) # Block(b, j)
      BY LinesAreUnique
    <3>. QED BY <1>9, <3>1
         DEF Inventory, OccupyCourt, RescheduleCourtOccupancy, ReleaseCourtOccupancy
  <2>2. UNCHANGED <<quotes, orders>>
    BY <1>9 DEF Inventory, OccupyCourt, RescheduleCourtOccupancy, ReleaseCourtOccupancy
  <2>. QED BY <2>1, <2>2 DEF InventoryMatchesOrders, ActiveSlots, Exists, Slots, Line
<1>. QED BY <1>1, <1>2, <1>3, <1>4, <1>5, <1>6, <1>7, <1>8, <1>9 DEF Next, Booking

\* An order keeps exactly the occupancies of its active lines, all of them or
\* none, and what expired or was cancelled holds no court back.
THEOREM InventoryFollowsOrders == Spec => []InventoryMatchesOrders
<1>1. Init => InventoryMatchesOrders
  BY DEF Init, InventoryMatchesOrders, ActiveSlots, Exists
<1>2. TypeOK /\ InventoryMatchesOrders /\ [Next]_vars => InventoryMatchesOrders'
  BY InventoryStep
<1>. QED BY <1>1, <1>2, TypeCorrect, PTL DEF Spec

-----------------------------------------------------------------------------
(***************************************************************************)
(* Proofs about the money of orders in CourtBooking: payments agree with   *)
(* their orders, wallet reservations with their payments, and every capture *)
(* a provider reported either funds its order or is to be refunded.        *)
(*                                                                         *)
(* The inductive invariant is MoneyInv.  Its parts about orders and wallets *)
(* are kept by the steps that only drop payments (DroppingStep) and by the *)
(* steps that start or capture one (FundingStep); its parts about captures *)
(* by the steps that claim none (CapturesKept) and, one by one, by the     *)
(* settlements that claim one.                                             *)
(***************************************************************************)

MoneyInv ==
  /\ TypeOK
  /\ PaymentsMatchOrders
  /\ PaidOrdersAreFunded
  /\ ReservationsFollowPayments
  /\ CapturesHaveOneOwner
  /\ EveryCaptureAccounted

\* What may happen to a payment on the way of a step: nothing, or it ends
\* without success and gives its reservation back.
PaymentKept(p) == payments'[p] = payments[p]

PaymentDropped(p) ==
  /\ payments[p] # Nil
  /\ payments[p].status # "SUCCEEDED"
  /\ payments'[p] # Nil
  /\ payments'[p].order = payments[p].order
  /\ payments'[p].external = payments[p].external
  /\ payments'[p].wallet = payments[p].wallet
  /\ payments'[p].status \in {"EXPIRED", "CANCELLED", "FAILED", "REFUND_REQUIRED"}
  /\ payments'[p].reserve = IF payments[p].reserve = "RESERVED" THEN "RELEASED"
                            ELSE payments[p].reserve

\* What may happen to an order that is not confirmed for money: its payment
\* status stays, and it does not become confirmed.
OrderUnfunded(q) ==
  /\ orders'[q] # Nil
  /\ orders'[q].paid = orders[q].paid
  /\ orders'[q].status = "CONFIRMED" => orders[q].status = "CONFIRMED"

\* How a payment starts: it waits and holds wallet money back, or it has
\* succeeded and spent it.
PaymentWaits(p) ==
  /\ payments'[p].status = "PENDING"
  /\ payments'[p].reserve = IF payments'[p].wallet = 0 THEN "NONE" ELSE "RESERVED"

PaymentSucceeds(p) ==
  /\ payments'[p].status = "SUCCEEDED"
  /\ payments'[p].reserve = IF payments'[p].wallet = 0 THEN "NONE" ELSE "CONSUMED"

OrdersMoney == PaymentsMatchOrders /\ PaidOrdersAreFunded /\ ReservationsFollowPayments

(***************************************************************************)
(* Orders and wallets.                                                     *)
(***************************************************************************)
LEMMA DroppingStep ==
  ASSUME MoneyInv, TypeOK',
         \A q \in Quotes : Exists(q) => quotes'[q] = quotes[q] /\ OrderUnfunded(q),
         \A q \in Quotes : ~Exists(q) /\ orders'[q] # Nil =>
           /\ orders'[q].paid \in {"UNPAID", "NOT_REQUIRED"}
           /\ orders'[q].status = "CONFIRMED" => Total(q)' = 0,
         \A p \in Payments : PaymentKept(p) \/ PaymentDropped(p),
         \A p \in Payments : PaymentKept(p) /\ IsPending(p) =>
           orders'[payments[p].order] = orders[payments[p].order]
  PROVE  OrdersMoney'
<1>1. \A p \in Payments : payments[p] # Nil => payments[p].order \in Quotes /\ Exists(payments[p].order)
  BY DEF MoneyInv, TypeOK, PaymentRec
<1>2. \A p \in Payments : /\ payments'[p] # Nil <=> payments[p] # Nil
                          /\ payments[p] # Nil => payments'[p].order = payments[p].order
  BY DEF PaymentKept, PaymentDropped
<1>3. \A q \in Quotes : Exists(q) => Total(q)' = Total(q)
  BY DEF Total
<1>4. \A p \in Payments : payments[p] # Nil /\ payments[p].status = "SUCCEEDED" => PaymentKept(p)
  BY DEF PaymentDropped
<1>5. \A p \in Payments : payments'[p] # Nil /\ payments'[p].status \in {"PENDING", "SUCCEEDED"}
                           => PaymentKept(p)
  BY DEF PaymentDropped
<1>6. PaymentsMatchOrders'
  <2>1. ASSUME NEW p \in Payments, IsPending(p)'
        PROVE  IsHeld(payments[p].order)' /\ (orders[payments[p].order].paid)' = "UNPAID"
    <3>1. PaymentKept(p)
      BY <2>1, <1>5 DEF IsPending
    <3>2. IsPending(p)
      BY <2>1, <3>1 DEF IsPending, PaymentKept
    <3>3. orders'[payments[p].order] = orders[payments[p].order]
      BY <3>1, <3>2
    <3>4. IsHeld(payments[p].order) /\ orders[payments[p].order].paid = "UNPAID"
      BY <3>2 DEF MoneyInv, PaymentsMatchOrders
    <3>. QED BY <3>1, <3>3, <3>4 DEF PaymentKept, IsHeld, Exists
  <2>2. ASSUME NEW p \in Payments, NEW r \in Payments,
               payments'[p] # Nil, payments'[r] # Nil,
               payments'[p].order = payments'[r].order,
               payments'[p].status \in {"PENDING", "SUCCEEDED"},
               payments'[r].status \in {"PENDING", "SUCCEEDED"}
        PROVE  p = r
    BY <2>2, <1>5 DEF MoneyInv, PaymentsMatchOrders, PaymentKept
  <2>. QED BY <2>1, <2>2 DEF PaymentsMatchOrders
<1>7. PaidOrdersAreFunded'
  <2>1. ASSUME NEW p \in Payments, payments'[p] # Nil
        PROVE  payments'[p].wallet + payments'[p].external = Total(payments[p].order)'
    <3>1. payments[p] # Nil /\ payments'[p].order = payments[p].order
      BY <2>1, <1>2
    <3>2. payments[p].wallet + payments[p].external = Total(payments[p].order)
      BY <3>1 DEF MoneyInv, PaidOrdersAreFunded
    <3>3. payments'[p].wallet = payments[p].wallet /\ payments'[p].external = payments[p].external
      BY DEF PaymentKept, PaymentDropped
    <3>4. Total(payments[p].order)' = Total(payments[p].order)
      BY <3>1, <1>1 DEF Total
    <3>. QED BY <3>2, <3>3, <3>4
  <2>2. ASSUME NEW q \in Quotes, orders'[q] # Nil
        PROVE  /\ orders'[q].paid = "PAID" <=>
                    \E p \in Payments : /\ payments'[p] # Nil
                                       /\ payments'[p].order = q
                                       /\ payments'[p].status = "SUCCEEDED"
               /\ orders'[q].status = "CONFIRMED" /\ orders'[q].paid # "PAID" => Total(q)' = 0
    <3>1. (\E p \in Payments : /\ payments'[p] # Nil
                              /\ payments'[p].order = q
                              /\ payments'[p].status = "SUCCEEDED")
          <=> \E p \in Payments : /\ payments[p] # Nil
                                 /\ payments[p].order = q
                                 /\ payments[p].status = "SUCCEEDED"
      BY <1>4, <1>5 DEF PaymentKept
    <3>2. CASE Exists(q)
      BY <3>1, <3>2, <2>2, <1>3 DEF MoneyInv, PaidOrdersAreFunded, OrderUnfunded
    <3>3. CASE ~Exists(q)
      <4>1. \A p \in Payments : payments[p] # Nil => payments[p].order # q
        BY <3>3, <1>1
      <4>. QED BY <3>1, <3>3, <2>2, <4>1
    <3>. QED BY <3>2, <3>3
  <2>. QED BY <2>1, <2>2 DEF PaidOrdersAreFunded, Exists
<1>8. ReservationsFollowPayments'
  BY <1>2 DEF MoneyInv, ReservationsFollowPayments, PaymentKept, PaymentDropped
<1>. QED BY <1>6, <1>7, <1>8 DEF OrdersMoney

\* A payment p of the held, unpaid order q starts to wait, or succeeds.
LEMMA FundingStep ==
  ASSUME MoneyInv, TypeOK', UNCHANGED quotes,
         NEW q \in Quotes, IsHeld(q), orders[q].paid = "UNPAID",
         NEW p \in Payments,
         payments'[p] # Nil, payments'[p].order = q,
         payments'[p].wallet + payments'[p].external = Total(q),
         \/ PaymentWaits(p) /\ orders'[q] = orders[q]
         \/ PaymentSucceeds(p) /\ orders'[q] # Nil /\ orders'[q].paid = "PAID",
         \A x \in Quotes \ {q} : Exists(x) => OrderUnfunded(x),
         \A x \in Quotes : ~Exists(x) => orders'[x] = Nil,
         \A r \in Payments \ {p} : PaymentKept(r) \/ PaymentDropped(r),
         \A r \in Payments \ {p} : PaymentKept(r) /\ IsPending(r) =>
           /\ payments[r].order # q
           /\ orders'[payments[r].order] = orders[payments[r].order],
         payments[p] = Nil \/ payments[p].order = q
  PROVE  OrdersMoney'
<1>1. \A r \in Payments : payments[r] # Nil => payments[r].order \in Quotes /\ Exists(payments[r].order)
  BY DEF MoneyInv, TypeOK, PaymentRec
<1>2. \A r \in Payments \ {p} : /\ payments'[r] # Nil <=> payments[r] # Nil
                                /\ payments[r] # Nil => payments'[r].order = payments[r].order
  BY DEF PaymentKept, PaymentDropped
<1>3. \A x \in Quotes : Total(x)' = Total(x)
  BY DEF Total
<1>4. \A r \in Payments \ {p} : payments'[r] # Nil /\ payments'[r].status \in {"PENDING", "SUCCEEDED"}
                                 => PaymentKept(r)
  BY DEF PaymentDropped
<1>5. \A r \in Payments \ {p} : payments'[r] # Nil /\ payments'[r].status \in {"PENDING", "SUCCEEDED"}
                                 => payments'[r].order # q
  <2>1. ~\E r \in Payments : /\ payments[r] # Nil
                            /\ payments[r].order = q
                            /\ payments[r].status = "SUCCEEDED"
    BY DEF MoneyInv, PaidOrdersAreFunded, IsHeld
  <2>. QED BY <2>1, <1>4 DEF PaymentKept, IsPending
<1>6. PaymentsMatchOrders'
  <2>1. ASSUME NEW r \in Payments, IsPending(r)'
        PROVE  IsHeld(payments[r].order)' /\ (orders[payments[r].order].paid)' = "UNPAID"
    <3>1. CASE r = p
      BY <3>1, <2>1 DEF IsPending, IsHeld, Exists, PaymentWaits, PaymentSucceeds
    <3>2. CASE r # p
      <4>1. PaymentKept(r)
        BY <3>2, <2>1, <1>4 DEF IsPending
      <4>2. IsPending(r)
        BY <2>1, <4>1 DEF IsPending, PaymentKept
      <4>3. orders'[payments[r].order] = orders[payments[r].order]
        BY <3>2, <4>1, <4>2
      <4>4. IsHeld(payments[r].order) /\ orders[payments[r].order].paid = "UNPAID"
        BY <4>2 DEF MoneyInv, PaymentsMatchOrders
      <4>. QED BY <4>1, <4>3, <4>4 DEF PaymentKept, IsHeld, Exists
    <3>. QED BY <3>1, <3>2
  <2>2. ASSUME NEW a \in Payments, NEW r \in Payments,
               payments'[a] # Nil, payments'[r] # Nil,
               payments'[a].order = payments'[r].order,
               payments'[a].status \in {"PENDING", "SUCCEEDED"},
               payments'[r].status \in {"PENDING", "SUCCEEDED"}
        PROVE  a = r
    <3>1. CASE a = p \/ r = p
      BY <3>1, <2>2, <1>5
    <3>2. CASE a # p /\ r # p
      BY <3>2, <2>2, <1>4 DEF MoneyInv, PaymentsMatchOrders, PaymentKept
    <3>. QED BY <3>1, <3>2
  <2>. QED BY <2>1, <2>2 DEF PaymentsMatchOrders
<1>7. PaidOrdersAreFunded'
  <2>1. ASSUME NEW r \in Payments, payments'[r] # Nil
        PROVE  payments'[r].wallet + payments'[r].external = Total(payments[r].order)'
    <3>1. CASE r = p
      BY <3>1, <1>3 DEF Total
    <3>2. CASE r # p
      <4>1. payments[r] # Nil /\ payments'[r].order = payments[r].order
        BY <3>2, <2>1, <1>2
      <4>2. payments[r].wallet + payments[r].external = Total(payments[r].order)
        BY <4>1 DEF MoneyInv, PaidOrdersAreFunded
      <4>3. payments'[r].wallet = payments[r].wallet /\ payments'[r].external = payments[r].external
        BY <3>2 DEF PaymentKept, PaymentDropped
      <4>. QED BY <4>1, <4>2, <4>3 DEF Total
    <3>. QED BY <3>1, <3>2
  <2>2. ASSUME NEW x \in Quotes, orders'[x] # Nil
        PROVE  /\ orders'[x].paid = "PAID" <=>
                    \E r \in Payments : /\ payments'[r] # Nil
                                       /\ payments'[r].order = x
                                       /\ payments'[r].status = "SUCCEEDED"
               /\ orders'[x].status = "CONFIRMED" /\ orders'[x].paid # "PAID" => Total(x)' = 0
    <3>1. CASE x = q
      BY <3>1, <1>3, <1>5 DEF IsHeld, PaymentWaits, PaymentSucceeds
    <3>2. CASE x # q
      <4>1. Exists(x) /\ OrderUnfunded(x)
        BY <3>2, <2>2
      <4>2. (\E r \in Payments : /\ payments'[r] # Nil
                                /\ payments'[r].order = x
                                /\ payments'[r].status = "SUCCEEDED")
            <=> \E r \in Payments : /\ payments[r] # Nil
                                   /\ payments[r].order = x
                                   /\ payments[r].status = "SUCCEEDED"
        <5>1. \A r \in Payments \ {p} : payments[r] # Nil /\ payments[r].status = "SUCCEEDED"
                                         => PaymentKept(r)
          BY DEF PaymentDropped
        <5>. QED BY <3>2, <5>1, <1>4 DEF PaymentKept
      <4>. QED BY <4>1, <4>2, <1>3 DEF MoneyInv, PaidOrdersAreFunded, OrderUnfunded
    <3>. QED BY <3>1, <3>2
  <2>. QED BY <2>1, <2>2 DEF PaidOrdersAreFunded, Exists
<1>8. ReservationsFollowPayments'
  <2>1. ASSUME NEW r \in Payments \ {p}, payments'[r] # Nil
        PROVE  payments'[r].reserve =
                 CASE payments'[r].wallet = 0 -> "NONE"
                   [] payments'[r].wallet > 0 /\ payments'[r].status = "PENDING" -> "RESERVED"
                   [] payments'[r].wallet > 0 /\ payments'[r].status = "SUCCEEDED" -> "CONSUMED"
                   [] OTHER -> "RELEASED"
    BY <2>1, <1>2 DEF MoneyInv, ReservationsFollowPayments, PaymentKept, PaymentDropped
  <2>2. payments'[p].wallet \in Nat
    BY DEF TypeOK, PaymentRec
  <2>. QED BY <2>1, <2>2 DEF ReservationsFollowPayments, PaymentWaits, PaymentSucceeds
<1>. QED BY <1>6, <1>7, <1>8 DEF OrdersMoney

(***************************************************************************)
(* Captures.                                                               *)
(***************************************************************************)
LEMMA CapturesKept ==
  ASSUME MoneyInv, TypeOK',
         \A p \in Payments : payments[p] # Nil =>
           /\ payments'[p] # Nil
           /\ payments'[p].txn = payments[p].txn
           /\ payments'[p].status = "SUCCEEDED" <=> payments[p].status = "SUCCEEDED"
           /\ payments'[p].external = payments[p].external,
         \A p \in Payments : payments[p] = Nil /\ payments'[p] # Nil =>
           /\ payments'[p].txn = Nil
           /\ payments'[p].status = "SUCCEEDED" => payments'[p].external = 0,
         UNCHANGED <<claims, exceptions>>
  PROVE  CapturesHaveOneOwner' /\ EveryCaptureAccounted'
<1>1. \A t \in Txns : claims[t] # Nil => claims[t] \in Payments /\ payments[claims[t]] # Nil
  BY DEF MoneyInv, TypeOK, EveryCaptureAccounted
<1>2. CapturesHaveOneOwner'
  BY <1>1 DEF MoneyInv, CapturesHaveOneOwner
<1>3. EveryCaptureAccounted'
  BY <1>1 DEF MoneyInv, EveryCaptureAccounted, Funds
<1>. QED BY <1>2, <1>3

(***************************************************************************)
(* What the pieces of transactions do to payments and orders.              *)
(***************************************************************************)
\* Releasing the waiting payments of orders drops them and keeps the others.
LEMMA Released ==
  ASSUME TypeOK, NEW Q, NEW status \in {"EXPIRED", "CANCELLED"}, NEW p \in Payments,
         payments'[p] = ReleasePendingPayments(Q, status)[p]
  PROVE  /\ PaymentKept(p) \/ PaymentDropped(p)
         /\ PaymentKept(p) /\ IsPending(p) => payments[p].order \notin Q
         /\ ~(IsPending(p) /\ payments[p].order \in Q) => PaymentKept(p)
         /\ payments[p] = Nil => payments'[p] = Nil
         /\ payments[p] # Nil => payments'[p].txn = payments[p].txn
<1>. DEFINE rel == ReleasePendingPayments(Q, status)
<1>1. /\ rel[p] # Nil <=> payments[p] # Nil
      /\ payments[p] # Nil =>
           /\ rel[p].order = payments[p].order
           /\ rel[p].external = payments[p].external
           /\ rel[p].wallet = payments[p].wallet
           /\ rel[p].txn = payments[p].txn
      /\ ~(IsPending(p) /\ payments[p].order \in Q) => rel[p] = payments[p]
      /\ IsPending(p) /\ payments[p].order \in Q =>
           /\ rel[p].status = status
           /\ rel[p].reserve = IF payments[p].reserve = "RESERVED"
                               THEN "RELEASED" ELSE payments[p].reserve
  BY ReleasedPayments
<1>2. payments'[p] = rel[p]
  OBVIOUS
<1>. HIDE DEF rel
<1>. QED BY <1>1, <1>2 DEF PaymentKept, PaymentDropped, IsPending

\* The payment status and the status of rewritten orders.
LEMMA ExpiredMoney ==
  ASSUME TypeOK, NEW E, E \subseteq {x \in Quotes : IsHeld(x)}, NEW q \in Quotes, Exists(q),
         orders'[q] = ExpiredOrders(E)[q]
  PROVE  OrderUnfunded(q)
<1>1. CASE q \in E
  <2>1. orders[q] \in OrderRec
    BY DEF TypeOK, Exists
  <2>. DEFINE row == [orders[q] EXCEPT !.status = "EXPIRED", !.holdUntil = 0, !.revision = @ + 1]
  <2>2. row.paid = orders[q].paid /\ row.status = "EXPIRED"
    BY <2>1 DEF OrderRec
  <2>3. ExpiredOrders(E)[q] = row
    BY <1>1 DEF ExpiredOrders
  <2>4. orders'[q] # Nil
    BY ExpiredOrdersType
  <2>. HIDE DEF row
  <2>. QED BY <2>2, <2>3, <2>4 DEF OrderUnfunded
<1>2. CASE q \notin E
  BY <1>2 DEF ExpiredOrders, OrderUnfunded, Exists
<1>. QED BY <1>1, <1>2

LEMMA RewrittenMoney ==
  ASSUME TypeOK, NEW q \in Quotes, Exists(q)
  PROVE  /\ CancelledOrder(q).paid = orders[q].paid
         /\ PaidOrder(q).paid = "PAID"
         /\ \A L : WithoutLines(q, L).paid = orders[q].paid
<1>1. orders[q] \in OrderRec
  BY DEF TypeOK, Exists
<1>. QED BY <1>1 DEF OrderRec, CancelledOrder, PaidOrder, WithoutLines

(***************************************************************************)
(* Steps that fund nothing.                                                *)
(***************************************************************************)
\* Expiring the due orders E and nothing else but orders without a payment.
LEMMA SweepMoney ==
  ASSUME MoneyInv, TypeOK',
         NEW E, E \subseteq {x \in Quotes : IsHeld(x)},
         \A q \in Quotes : Exists(q) =>
           /\ quotes'[q] = quotes[q]
           /\ orders'[q] = ExpiredOrders(E)[q],
         \A q \in Quotes : ~Exists(q) /\ orders'[q] # Nil =>
           /\ orders'[q].paid \in {"UNPAID", "NOT_REQUIRED"}
           /\ orders'[q].status = "CONFIRMED" => Total(q)' = 0,
         payments' = ReleasePendingPayments(E, "EXPIRED")
  PROVE  /\ OrdersMoney'
         /\ UNCHANGED <<claims, exceptions>> => MoneyInv'
<1>1. \A p \in Payments :
        /\ PaymentKept(p) \/ PaymentDropped(p)
        /\ PaymentKept(p) /\ IsPending(p) => payments[p].order \notin E
        /\ payments[p] = Nil => payments'[p] = Nil
        /\ payments[p] # Nil => payments'[p].txn = payments[p].txn
  BY Released DEF MoneyInv
<1>2. \A q \in Quotes : Exists(q) => quotes'[q] = quotes[q] /\ OrderUnfunded(q)
  BY ExpiredMoney DEF MoneyInv
<1>3. \A p \in Payments : PaymentKept(p) /\ IsPending(p) =>
        orders'[payments[p].order] = orders[payments[p].order]
  <2>1. \A p \in Payments : IsPending(p) => payments[p].order \in Quotes /\ Exists(payments[p].order)
    BY DEF MoneyInv, TypeOK, PaymentRec, IsPending
  <2>. QED BY <1>1, <2>1, ExpiredRow DEF MoneyInv
<1>4. OrdersMoney'
  BY <1>1, <1>2, <1>3, DroppingStep
<1>5. ASSUME UNCHANGED <<claims, exceptions>> PROVE MoneyInv'
  <2>1. CapturesHaveOneOwner' /\ EveryCaptureAccounted'
    BY <1>1, <1>5, CapturesKept DEF PaymentKept, PaymentDropped
  <2>. QED BY <1>4, <2>1 DEF MoneyInv, OrdersMoney
<1>. QED BY <1>4, <1>5

\* Expiring the due orders E and rewriting one order q that gains no money,
\* with the payments of E and, when q is cancelled, of q released.
LEMMA RewriteMoney ==
  ASSUME MoneyInv, TypeOK', UNCHANGED <<quotes, claims, exceptions>>,
         NEW E, E \subseteq {x \in Quotes : IsHeld(x)},
         NEW q \in Quotes, Exists(q), NEW row,
         orders' = [ExpiredOrders(E) EXCEPT ![q] = row],
         row # Nil, row.paid = orders[q].paid,
         row.status = "CONFIRMED" => orders[q].status = "CONFIRMED",
         \A p \in Payments :
           /\ PaymentKept(p) \/ PaymentDropped(p)
           /\ PaymentKept(p) /\ IsPending(p) => payments[p].order \notin E \cup {q}
           /\ payments[p] = Nil => payments'[p] = Nil
           /\ payments[p] # Nil => payments'[p].txn = payments[p].txn
  PROVE  MoneyInv'
<1>1. ExpiredOrders(E) \in [Quotes -> OrderRec \cup {Nil}]
  BY ExpiredOrdersType DEF MoneyInv
<1>2. orders'[q] = row /\ \A x \in Quotes \ {q} : orders'[x] = ExpiredOrders(E)[x]
  BY <1>1
<1>3. \A x \in Quotes : Exists(x) => OrderUnfunded(x)
  BY <1>2, ExpiredMoney DEF MoneyInv, OrderUnfunded
<1>4. \A x \in Quotes : ~Exists(x) => orders'[x] = Nil
  BY <1>2, ExpiredOrdersType DEF MoneyInv
<1>5. \A p \in Payments : PaymentKept(p) /\ IsPending(p) =>
        orders'[payments[p].order] = orders[payments[p].order]
  <2>1. \A p \in Payments : IsPending(p) => payments[p].order \in Quotes /\ Exists(payments[p].order)
    BY DEF MoneyInv, TypeOK, PaymentRec, IsPending
  <2>. QED BY <1>2, <2>1, ExpiredRow DEF MoneyInv
<1>6. OrdersMoney'
  BY <1>3, <1>4, <1>5, DroppingStep
<1>7. CapturesHaveOneOwner' /\ EveryCaptureAccounted'
  BY CapturesKept DEF PaymentKept, PaymentDropped
<1>. QED BY <1>6, <1>7 DEF MoneyInv, OrdersMoney

LEMMA ConfirmationMoney ==
  ASSUME MoneyInv, TypeOK', NEW q \in Quotes, NEW t \in Clock, ConfirmQuote(q, t)
  PROVE  MoneyInv'
<1>. DEFINE E == Due(Venue(q), now)
<1>1. E \subseteq {x \in Quotes : IsHeld(x)}
  BY DueIsHeld
<1>2. PICK row \in OrderRec :
        /\ row.paid = IF Total(q) = 0 THEN "NOT_REQUIRED" ELSE "UNPAID"
        /\ row.status = IF Total(q) = 0 THEN "CONFIRMED" ELSE "HELD"
        /\ orders' = [ExpiredOrders(E) EXCEPT ![q] = row]
  BY ConfirmedRow DEF MoneyInv
<1>3. ~Exists(q) /\ UNCHANGED <<quotes, claims, exceptions>>
      /\ payments' = ReleasePendingPayments(E, "EXPIRED")
  BY DEF ConfirmQuote
<1>. HIDE DEF E
<1>4. ExpiredOrders(E) \in [Quotes -> OrderRec \cup {Nil}]
      /\ \A x \in Quotes : ExpiredOrders(E)[x] # Nil <=> Exists(x)
  BY <1>1, ExpiredOrdersType DEF MoneyInv
<1>5. orders'[q] = row /\ \A x \in Quotes \ {q} : orders'[x] = ExpiredOrders(E)[x]
  BY <1>2, <1>4
<1>6. \A x \in Quotes : Exists(x) =>
        quotes'[x] = quotes[x] /\ orders'[x] = ExpiredOrders(E)[x]
  BY <1>3, <1>5
<1>7. \A x \in Quotes : ~Exists(x) /\ orders'[x] # Nil =>
        /\ orders'[x].paid \in {"UNPAID", "NOT_REQUIRED"}
        /\ orders'[x].status = "CONFIRMED" => Total(x)' = 0
  BY <1>2, <1>3, <1>4, <1>5 DEF Total
<1>. QED BY <1>1, <1>3, <1>6, <1>7, SweepMoney

LEMMA CancellationMoney ==
  ASSUME MoneyInv, TypeOK', NEW q \in Quotes, CancelUnpaidOrder(q)
  PROVE  MoneyInv'
<1>. DEFINE E   == Due(Venue(q), now)
            row == CancelledOrder(q)
            one == {q}
<1>1. E \subseteq {x \in Quotes : IsHeld(x)}
  BY DueIsHeld
<1>2. Exists(q) /\ UNCHANGED <<quotes, claims, exceptions>>
      /\ orders' = [ExpiredOrders(E) EXCEPT ![q] = row]
  BY DEF CancelUnpaidOrder
<1>3. row # Nil /\ row.paid = orders[q].paid /\ row.status = "CANCELLED"
  BY <1>2, OrderRowsType, OrderRowsStatus, RewrittenMoney, NilAssumption DEF MoneyInv
<1>4. \A p \in Payments :
        payments'[p] = IF IsPending(p) /\ payments[p].order = q
                       THEN ReleasePendingPayments(one, "CANCELLED")[p]
                       ELSE ReleasePendingPayments(E, "EXPIRED")[p]
  BY DEF CancelUnpaidOrder
<1>. HIDE DEF E, row, one
<1>5. ASSUME NEW p \in Payments
      PROVE  /\ PaymentKept(p) \/ PaymentDropped(p)
             /\ PaymentKept(p) /\ IsPending(p) => payments[p].order \notin E \cup {q}
             /\ payments[p] = Nil => payments'[p] = Nil
             /\ payments[p] # Nil => payments'[p].txn = payments[p].txn
  <2>1. CASE IsPending(p) /\ payments[p].order = q
    <3>1. payments'[p] = ReleasePendingPayments(one, "CANCELLED")[p]
      BY <1>4, <2>1
    <3>. QED BY <2>1, <3>1, Released DEF one, MoneyInv
  <2>2. CASE ~(IsPending(p) /\ payments[p].order = q)
    <3>1. payments'[p] = ReleasePendingPayments(E, "EXPIRED")[p]
      BY <1>4, <2>2
    <3>. QED BY <2>2, <3>1, Released DEF MoneyInv
  <2>. QED BY <2>1, <2>2
<1>. QED BY <1>1, <1>2, <1>3, <1>5, RewriteMoney

LEMMA LinesMoney ==
  ASSUME MoneyInv, TypeOK', NEW q \in Quotes, NEW L \in SUBSET Intervals,
         CancelFreeOrderLines(q, L)
  PROVE  MoneyInv'
<1>. DEFINE E   == Due(Venue(q), now)
            row == WithoutLines(q, L)
<1>1. E \subseteq {x \in Quotes : IsHeld(x)}
  BY DueIsHeld
<1>2. /\ Exists(q) /\ orders[q].status = "CONFIRMED" /\ L \in SUBSET Slots(q)
      /\ UNCHANGED <<quotes, claims, exceptions>>
      /\ orders' = [ExpiredOrders(E) EXCEPT ![q] = row]
      /\ payments' = ReleasePendingPayments(E, "EXPIRED")
  BY DEF CancelFreeOrderLines
<1>3. row # Nil /\ row.paid = orders[q].paid
  BY <1>2, OrderRowsType, RewrittenMoney, NilAssumption DEF MoneyInv
<1>. HIDE DEF E, row
<1>4. ASSUME NEW p \in Payments
      PROVE  /\ PaymentKept(p) \/ PaymentDropped(p)
             /\ PaymentKept(p) /\ IsPending(p) => payments[p].order \notin E \cup {q}
             /\ payments[p] = Nil => payments'[p] = Nil
             /\ payments[p] # Nil => payments'[p].txn = payments[p].txn
  <2>1. IsPending(p) => payments[p].order # q
    BY <1>2 DEF MoneyInv, PaymentsMatchOrders, IsHeld
  <2>. QED BY <1>2, <2>1, Released DEF MoneyInv
<1>. QED BY <1>1, <1>2, <1>3, <1>4, RewriteMoney

LEMMA FailureMoney ==
  ASSUME MoneyInv, TypeOK', NEW e \in EventRec, NEW t \in Clock, SettleFailure(e, t)
  PROVE  MoneyInv'
<1>. DEFINE p   == e.payment
            q   == payments[p].order
            E   == DueAtSettlement(q, t)
            row == CancelledOrder(q)
            rel == ReleasePendingPayments(E, "EXPIRED")
<1>1. E \subseteq {x \in Quotes : IsHeld(x)}
  BY DueAtSettlementIsHeld
<1>2. UNCHANGED <<quotes, claims, exceptions>> /\ p \in Payments /\ payments[p] # Nil
  BY DEF SettleFailure, NewEvent, EventRec
<1>3. q \in Quotes /\ Exists(q) /\ payments[p] \in PaymentRec
  BY <1>2 DEF MoneyInv, TypeOK, PaymentRec
<1>4. ExpiredOrders(E) \in [Quotes -> OrderRec \cup {Nil}] /\ rel \in [Payments -> PaymentRec \cup {Nil}]
      /\ \A x \in Quotes : ExpiredOrders(E)[x] # Nil <=> Exists(x)
  BY <1>1, ExpiredOrdersType, ReleasedPayments DEF MoneyInv
<1>5. CASE ~StillWaits(p, E)
  <2>1. orders' = ExpiredOrders(E) /\ payments' = rel
    BY <1>4, <1>5 DEF SettleFailure
  <2>. QED BY <1>1, <1>2, <1>4, <2>1, SweepMoney
<1>6. CASE StillWaits(p, E)
  <2>1. orders' = [ExpiredOrders(E) EXCEPT ![q] = row]
    BY <1>6 DEF SettleFailure
  <2>2. row # Nil /\ row.paid = orders[q].paid /\ row.status = "CANCELLED"
    BY <1>3, OrderRowsType, OrderRowsStatus, RewrittenMoney, NilAssumption DEF MoneyInv
  <2>3. IsPending(p) /\ q \notin E
    BY <1>2, <1>6 DEF StillWaits, IsPending
  <2>4. rel[p] = payments[p]
    BY <1>2, <2>3 DEF ReleasePendingPayments
  <2>5. payments'[p] = [SettleReservation(payments[p], FALSE) EXCEPT !.status = "FAILED"]
        /\ \A r \in Payments \ {p} : payments'[r] = rel[r]
    BY <1>2, <1>4, <1>6, <2>4 DEF SettleFailure
  <2>. DEFINE settled == SettleReservation(payments[p], FALSE)
  <2>6. /\ settled \in PaymentRec
        /\ settled.order = payments[p].order /\ settled.external = payments[p].external
        /\ settled.wallet = payments[p].wallet /\ settled.txn = payments[p].txn
        /\ settled.reserve = IF payments[p].reserve = "RESERVED" THEN "RELEASED"
                             ELSE payments[p].reserve
    BY <1>3, SettleReservationType
  <2>7. payments'[p] = [settled EXCEPT !.status = "FAILED"]
    BY <2>5
  <2>. HIDE DEF settled
  <2>8. PaymentDropped(p) /\ payments'[p].txn = payments[p].txn /\ ~PaymentKept(p)
    <3>1. payments'[p] \in PaymentRec
      BY <2>6, <2>7 DEF PaymentRec
    <3>2. /\ payments'[p].status = "FAILED" /\ payments'[p].txn = settled.txn
          /\ payments'[p].order = settled.order /\ payments'[p].external = settled.external
          /\ payments'[p].wallet = settled.wallet /\ payments'[p].reserve = settled.reserve
      BY <2>6, <2>7 DEF PaymentRec
    <3>. QED BY <1>2, <2>3, <2>6, <3>1, <3>2, NilAssumption DEF PaymentDropped, PaymentKept, IsPending
  <2>9. \A r \in Payments \ {p} : IsPending(r) => payments[r].order # q
    BY <1>2, <2>3 DEF MoneyInv, PaymentsMatchOrders, IsPending
  <2>10. \A r \in Payments \ {p} : payments'[r] = ReleasePendingPayments(E, "EXPIRED")[r]
    BY <2>5
  <2>. HIDE DEF E, row, q, rel, p
  <2>11. ASSUME NEW r \in Payments
         PROVE  /\ PaymentKept(r) \/ PaymentDropped(r)
                /\ PaymentKept(r) /\ IsPending(r) => payments[r].order \notin E \cup {q}
                /\ payments[r] = Nil => payments'[r] = Nil
                /\ payments[r] # Nil => payments'[r].txn = payments[r].txn
    <3>1. CASE r = p
      BY <3>1, <1>2, <2>8
    <3>2. CASE r # p
      BY <3>2, <2>9, <2>10, Released DEF MoneyInv
    <3>. QED BY <3>1, <3>2
  <2>. QED BY <1>1, <1>2, <1>3, <2>1, <2>2, <2>11, RewriteMoney
<1>. QED BY <1>5, <1>6

(***************************************************************************)
(* Steps that start or capture a payment.                                  *)
(***************************************************************************)
\* Expiring the due orders E while payment p of order q, which is not among
\* them, starts or is captured.
LEMMA FundedOrders ==
  ASSUME MoneyInv, TypeOK', UNCHANGED quotes,
         NEW E, E \subseteq {x \in Quotes : IsHeld(x)},
         NEW q \in Quotes, IsHeld(q), q \notin E, orders[q].paid = "UNPAID",
         NEW p \in Payments,
         payments[p] = Nil \/ payments[p].order = q,
         \A r \in Payments \ {p} : IsPending(r) => payments[r].order # q,
         \A r \in Payments \ {p} : payments'[r] = ReleasePendingPayments(E, "EXPIRED")[r],
         payments'[p] # Nil, payments'[p].order = q,
         payments'[p].wallet + payments'[p].external = Total(q),
         \/ PaymentWaits(p) /\ orders' = ExpiredOrders(E)
         \/ PaymentSucceeds(p) /\ orders' = [ExpiredOrders(E) EXCEPT ![q] = PaidOrder(q)]
  PROVE  OrdersMoney'
<1>1. ExpiredOrders(E) \in [Quotes -> OrderRec \cup {Nil}]
      /\ \A x \in Quotes : ExpiredOrders(E)[x] # Nil <=> Exists(x)
  BY ExpiredOrdersType DEF MoneyInv
<1>2. \A x \in Quotes \ {q} : orders'[x] = ExpiredOrders(E)[x]
  BY <1>1
<1>3. ExpiredOrders(E)[q] = orders[q]
  BY ExpiredRow DEF MoneyInv
<1>4. \A x \in Quotes \ {q} : Exists(x) => OrderUnfunded(x)
  BY <1>2, ExpiredMoney DEF MoneyInv
<1>5. \A x \in Quotes : ~Exists(x) => orders'[x] = Nil
  BY <1>1, <1>2 DEF IsHeld
<1>6. \A r \in Payments \ {p} :
        /\ PaymentKept(r) \/ PaymentDropped(r)
        /\ PaymentKept(r) /\ IsPending(r) => payments[r].order \notin E
  BY Released DEF MoneyInv
<1>7. \A r \in Payments \ {p} : PaymentKept(r) /\ IsPending(r) =>
        /\ payments[r].order # q
        /\ orders'[payments[r].order] = orders[payments[r].order]
  <2>1. \A r \in Payments : IsPending(r) => payments[r].order \in Quotes
    BY DEF MoneyInv, TypeOK, PaymentRec, IsPending
  <2>. QED BY <1>2, <1>6, <2>1, ExpiredRow DEF MoneyInv
<1>8. PaidOrder(q) # Nil /\ PaidOrder(q).paid = "PAID"
  BY OrderRowsType, RewrittenMoney, NilAssumption DEF MoneyInv, IsHeld
<1>9. \/ PaymentWaits(p) /\ orders'[q] = orders[q]
      \/ PaymentSucceeds(p) /\ orders'[q] # Nil /\ orders'[q].paid = "PAID"
  BY <1>1, <1>3, <1>8
<1>10. \A r \in Payments \ {p} : PaymentKept(r) \/ PaymentDropped(r)
  BY <1>6
<1>. QED BY <1>4, <1>5, <1>7, <1>9, <1>10, FundingStep

LEMMA BeginMoney ==
  ASSUME MoneyInv, TypeOK', NEW p \in Payments, NEW q \in Quotes, NEW w \in WalletParts,
         NEW t \in Clock, BeginOrderPayment(p, q, w, t)
  PROVE  MoneyInv'
<1>. DEFINE E == Due(Venue(q), now)
            rel == ReleasePendingPayments(E, "EXPIRED")
            paid == Total(q) - w = 0
            reserve == CASE w = 0 -> "NONE"
                         [] w > 0 /\ paid -> "CONSUMED"
                         [] OTHER -> "RESERVED"
            row == [order |-> q, external |-> Total(q) - w, wallet |-> w,
                    status |-> IF paid THEN "SUCCEEDED" ELSE "PENDING",
                    txn |-> Nil, reserve |-> reserve]
<1>1. E \subseteq {x \in Quotes : IsHeld(x)}
  BY DueIsHeld
<1>2. /\ payments[p] = Nil /\ IsHeld(q) /\ q \notin E /\ orders[q].paid = "UNPAID"
      /\ NoneWaits(q) /\ w <= Total(q)
      /\ payments' = [rel EXCEPT ![p] = row]
      /\ orders' = [ExpiredOrders(E) EXCEPT ![q] = IF paid THEN PaidOrder(q) ELSE @]
      /\ UNCHANGED <<quotes, claims, exceptions>>
  BY DEF BeginOrderPayment, Affordable
<1>3. w \in Nat /\ Total(q) \in Nat
  <2>1. quotes[q] \in QuoteRec
    BY <1>2 DEF MoneyInv, TypeOK, IsHeld
  <2>. QED BY <2>1, AmountsAssumption, SelectionsAssumption DEF Total, QuoteRec, Selection
<1>4. rel \in [Payments -> PaymentRec \cup {Nil}]
      /\ ExpiredOrders(E) \in [Quotes -> OrderRec \cup {Nil}]
  BY <1>1, ReleasedPayments, ExpiredOrdersType DEF MoneyInv
<1>5. payments'[p] = row /\ \A r \in Payments \ {p} : payments'[r] = rel[r]
  BY <1>2, <1>4
<1>6. payments'[p] # Nil
  <2>1. DOMAIN row = {"order", "external", "wallet", "status", "txn", "reserve"}
    OBVIOUS
  <2>2. reserve \in {"NONE", "RESERVED", "CONSUMED"}
    BY <1>3
  <2>3. Total(q) - w \in Nat
    BY <1>2, <1>3
  <2>4. (IF paid THEN "SUCCEEDED" ELSE "PENDING") \in {"PENDING", "SUCCEEDED"}
    OBVIOUS
  <2>. DEFINE external == Total(q) - w
              status == IF paid THEN "SUCCEEDED" ELSE "PENDING"
  <2>. HIDE DEF reserve, external, status
  <2>5. [order |-> q, external |-> external, wallet |-> w, status |-> status,
         txn |-> Nil, reserve |-> reserve] \in PaymentRec
    BY <2>2, <2>3, <2>4, <1>3 DEF PaymentRec, external, status
  <2>. QED BY <1>5, <2>5, NilAssumption DEF external, status
<1>7. /\ payments'[p].order = q /\ payments'[p].txn = Nil
      /\ payments'[p].wallet = w /\ payments'[p].external = Total(q) - w
      /\ payments'[p].status = IF paid THEN "SUCCEEDED" ELSE "PENDING"
      /\ payments'[p].reserve = reserve
  BY <1>5
<1>8. \/ /\ ~paid /\ reserve = IF w = 0 THEN "NONE" ELSE "RESERVED"
         /\ orders' = ExpiredOrders(E)
      \/ /\ paid /\ reserve = IF w = 0 THEN "NONE" ELSE "CONSUMED"
         /\ orders' = [ExpiredOrders(E) EXCEPT ![q] = PaidOrder(q)]
  <2>1. CASE paid
    <3>1. reserve = IF w = 0 THEN "NONE" ELSE "CONSUMED"
      BY <2>1, <1>3
    <3>. QED BY <2>1, <3>1, <1>2
  <2>2. CASE ~paid
    <3>1. reserve = IF w = 0 THEN "NONE" ELSE "RESERVED"
      BY <2>2, <1>3
    <3>2. orders' = [ExpiredOrders(E) EXCEPT ![q] = @]
      BY <2>2, <1>2
    <3>. QED BY <2>2, <3>1, <3>2, <1>4
  <2>. QED BY <2>1, <2>2
<1>9. w + (Total(q) - w) = Total(q)
  BY <1>3
<1>10. \A r \in Payments \ {p} : IsPending(r) => payments[r].order # q
  BY <1>2 DEF NoneWaits
<1>. HIDE DEF row, reserve
<1>11. OrdersMoney'
  <2>1. \A r \in Payments \ {p} : payments'[r] = ReleasePendingPayments(E, "EXPIRED")[r]
    BY <1>5
  <2>. HIDE DEF E, rel
  <2>2. \/ PaymentWaits(p) /\ orders' = ExpiredOrders(E)
        \/ PaymentSucceeds(p) /\ orders' = [ExpiredOrders(E) EXCEPT ![q] = PaidOrder(q)]
    BY <1>7, <1>8 DEF PaymentWaits, PaymentSucceeds
  <2>3. payments'[p].wallet + payments'[p].external = Total(q)
    BY <1>7, <1>9
  <2>4. /\ payments[p] = Nil /\ IsHeld(q) /\ q \notin E /\ orders[q].paid = "UNPAID"
        /\ UNCHANGED quotes /\ payments'[p].order = q
    BY <1>2, <1>7
  <2>. QED BY <1>1, <1>6, <1>10, <2>1, <2>2, <2>3, <2>4, FundedOrders
<1>12. CapturesHaveOneOwner' /\ EveryCaptureAccounted'
  <2>1. \A r \in Payments \ {p} :
          /\ PaymentKept(r) \/ PaymentDropped(r)
          /\ payments[r] = Nil => payments'[r] = Nil
          /\ payments[r] # Nil => payments'[r].txn = payments[r].txn
    BY <1>5, Released DEF MoneyInv
  <2>2. payments'[p].status = "SUCCEEDED" => payments'[p].external = 0
    BY <1>7
  <2>. QED BY <1>2, <1>7, <2>1, <2>2, CapturesKept DEF PaymentKept, PaymentDropped
<1>. QED BY <1>11, <1>12 DEF MoneyInv, OrdersMoney

\* A capture of transaction u is claimed for payment p: it funds the order of
\* p (funds), or becomes an exception x.
LEMMA ClaimingStep ==
  ASSUME MoneyInv, TypeOK',
         NEW p \in Payments, payments[p] # Nil,
         NEW u \in Txns, claims'[u] = p, \A v \in Txns \ {u} : claims'[v] = claims[v],
         claims[u] = Nil \/ claims[u] = p,
         payments'[p] # Nil, payments'[p].txn \in Txns, claims'[payments'[p].txn] = p,
         \A v \in Txns : v # u /\ claims[v] = p =>
           /\ payments'[p].txn = payments[p].txn
           /\ payments'[p].status = "SUCCEEDED" <=> payments[p].status = "SUCCEEDED",
         \A r \in Payments \ {p} : payments[r] # Nil =>
           /\ payments'[r] # Nil
           /\ payments'[r].txn = payments[r].txn
           /\ payments'[r].status = "SUCCEEDED" <=> payments[r].status = "SUCCEEDED"
           /\ payments'[r].external = payments[r].external,
         \A r \in Payments \ {p} : payments[r] = Nil => payments'[r] = Nil,
         \/ /\ payments'[p].status = "SUCCEEDED" /\ payments'[p].txn = u
            /\ claims[u] = Nil /\ exceptions' = exceptions
         \/ /\ ~(payments'[p].status = "SUCCEEDED" /\ payments'[p].txn = u)
            /\ exceptions \subseteq exceptions'
            /\ \A x \in exceptions' \ exceptions : x.payment = p /\ x.txn = u
            /\ \E x \in exceptions' : x.payment = p /\ x.txn = u
  PROVE  CapturesHaveOneOwner' /\ EveryCaptureAccounted'
<1>1. \A v \in Txns : claims[v] # Nil => claims[v] \in Payments /\ payments[claims[v]] # Nil
  BY DEF MoneyInv, TypeOK, EveryCaptureAccounted
<1>2. claims'[u] = p /\ \A v \in Txns \ {u} : claims'[v] = claims[v]
  OBVIOUS
<1>3. Nil \notin Txns /\ Nil \notin Payments
  BY NilAssumption
<1>4. CapturesHaveOneOwner'
  <2>1. ASSUME NEW r \in Payments, payments'[r] # Nil
        PROVE  /\ payments'[r].txn # Nil => claims'[payments'[r].txn] = r
               /\ payments'[r].status = "SUCCEEDED" /\ payments'[r].external > 0
                    => payments'[r].txn # Nil
    <3>1. CASE r = p
      BY <3>1, <1>3
    <3>2. CASE r # p
      <4>1. /\ payments[r] # Nil /\ payments'[r].txn = payments[r].txn
            /\ payments'[r].status = "SUCCEEDED" <=> payments[r].status = "SUCCEEDED"
            /\ payments'[r].external = payments[r].external
        BY <2>1, <3>2
      <4>2. /\ payments[r].txn # Nil => claims[payments[r].txn] = r
            /\ payments[r].status = "SUCCEEDED" /\ payments[r].external > 0 => payments[r].txn # Nil
        BY <4>1 DEF MoneyInv, CapturesHaveOneOwner
      <4>3. payments[r].txn \in Txns \cup {Nil}
        BY <4>1 DEF MoneyInv, TypeOK, PaymentRec
      <4>4. payments[r].txn # Nil => payments[r].txn # u
        BY <3>2, <4>2, <1>3
      <4>. QED BY <4>1, <4>2, <4>3, <4>4, <1>2
    <3>. QED BY <3>1, <3>2
  <2>2. ASSUME NEW v \in Txns, claims'[v] # Nil
        PROVE  payments'[claims'[v]].txn # Nil
    <3>1. CASE claims'[v] = p
      BY <3>1, <1>3
    <3>2. CASE claims'[v] # p
      BY <3>2, <2>2, <1>1, <1>2 DEF MoneyInv, CapturesHaveOneOwner
    <3>. QED BY <3>1, <3>2
  <2>. QED BY <2>1, <2>2 DEF CapturesHaveOneOwner
<1>5. EveryCaptureAccounted'
  <2>1. \A x \in exceptions : claims[x.txn] = x.payment /\ x.txn \in Txns /\ x.payment \in Payments
    BY DEF MoneyInv, TypeOK, EveryCaptureAccounted, Exception
  <2>2. \A x \in exceptions' : claims'[x.txn] = x.payment
    <3>1. \A x \in exceptions : claims'[x.txn] = x.payment
      BY <2>1, <1>2, <1>3
    <3>. QED BY <3>1, <1>2
  <2>3. ASSUME NEW v \in Txns, claims'[v] # Nil
        PROVE  /\ payments'[claims'[v]] # Nil
               /\ Funds(claims[v], v)' <=>
                    ~\E x \in exceptions' : x.txn = v /\ x.payment = claims'[v]
    <3>1. CASE v = u
      <4>1. claims[u] = Nil => \A x \in exceptions : ~(x.txn = u /\ x.payment = p)
        BY <2>1, <1>3
      <4>. QED BY <3>1, <4>1, <1>2 DEF Funds
    <3>2. CASE v # u
      <4>1. claims'[v] = claims[v] /\ claims[v] \in Payments /\ payments[claims[v]] # Nil
        BY <3>2, <2>3, <1>1, <1>2
      <4>2. Funds(claims[v], v) <=> ~\E x \in exceptions : x.txn = v /\ x.payment = claims[v]
        BY <4>1, <1>3 DEF MoneyInv, EveryCaptureAccounted
      <4>3. (\E x \in exceptions' : x.txn = v /\ x.payment = claims[v])
            <=> \E x \in exceptions : x.txn = v /\ x.payment = claims[v]
        BY <3>2
      <4>4. Funds(claims[v], v)' <=> Funds(claims[v], v)
        <5>1. CASE claims[v] = p
          BY <3>2, <4>1, <5>1 DEF Funds
        <5>2. CASE claims[v] # p
          BY <4>1, <5>2 DEF Funds
        <5>. QED BY <5>1, <5>2
      <4>. QED BY <4>1, <4>2, <4>3, <4>4
    <3>. QED BY <3>1, <3>2
  <2>. QED BY <2>2, <2>3 DEF EveryCaptureAccounted
<1>. QED BY <1>4, <1>5

\* The row of a captured payment, when its money funds the order and when it
\* has to go back.
LEMMA FundedRow ==
  ASSUME NEW pay \in PaymentRec, NEW txn \in Txns
  PROVE  LET row == [SettleReservation(pay, TRUE) EXCEPT !.status = "SUCCEEDED", !.txn = txn]
         IN  /\ row \in PaymentRec
             /\ row.order = pay.order /\ row.external = pay.external /\ row.wallet = pay.wallet
             /\ row.status = "SUCCEEDED" /\ row.txn = txn
             /\ row.reserve = IF pay.reserve = "RESERVED" THEN "CONSUMED" ELSE pay.reserve
<1>. DEFINE settled == SettleReservation(pay, TRUE)
<1>1. /\ settled \in PaymentRec
      /\ settled.order = pay.order /\ settled.external = pay.external
      /\ settled.wallet = pay.wallet
      /\ settled.reserve = IF pay.reserve = "RESERVED" THEN "CONSUMED" ELSE pay.reserve
  BY DEF SettleReservation, PaymentRec
<1>. HIDE DEF settled
<1>2. LET row == [settled EXCEPT !.status = "SUCCEEDED", !.txn = txn]
      IN  /\ row \in PaymentRec
          /\ row.order = settled.order /\ row.external = settled.external
          /\ row.wallet = settled.wallet
          /\ row.status = "SUCCEEDED" /\ row.txn = txn /\ row.reserve = settled.reserve
  BY <1>1 DEF PaymentRec
<1>. QED BY <1>1, <1>2 DEF settled

LEMMA RefundedRow ==
  ASSUME NEW pay \in PaymentRec, NEW txn \in Txns
  PROVE  LET row == [SettleReservation(pay, FALSE) EXCEPT !.status = "REFUND_REQUIRED",
                                                          !.txn = txn]
         IN  /\ row \in PaymentRec
             /\ row.order = pay.order /\ row.external = pay.external /\ row.wallet = pay.wallet
             /\ row.status = "REFUND_REQUIRED" /\ row.txn = txn
             /\ row.reserve = IF pay.reserve = "RESERVED" THEN "RELEASED" ELSE pay.reserve
<1>. DEFINE settled == SettleReservation(pay, FALSE)
<1>1. /\ settled \in PaymentRec
      /\ settled.order = pay.order /\ settled.external = pay.external
      /\ settled.wallet = pay.wallet
      /\ settled.reserve = IF pay.reserve = "RESERVED" THEN "RELEASED" ELSE pay.reserve
  BY DEF SettleReservation, PaymentRec
<1>. HIDE DEF settled
<1>2. LET row == [settled EXCEPT !.status = "REFUND_REQUIRED", !.txn = txn]
      IN  /\ row \in PaymentRec
          /\ row.order = settled.order /\ row.external = settled.external
          /\ row.wallet = settled.wallet
          /\ row.status = "REFUND_REQUIRED" /\ row.txn = txn /\ row.reserve = settled.reserve
  BY <1>1 DEF PaymentRec
<1>. QED BY <1>1, <1>2 DEF settled

\* The facts every settlement of a capture starts from.
LEMMA CaptureStarts ==
  ASSUME MoneyInv, NEW e \in EventRec, NewEvent(e)
  PROVE  /\ e.payment \in Payments /\ payments[e.payment] \in PaymentRec
         /\ payments[e.payment] # Nil /\ e.txn \in Txns /\ e.txn # Nil
         /\ payments[e.payment].order \in Quotes /\ Exists(payments[e.payment].order)
         /\ payments[e.payment].txn = Nil => payments[e.payment].status # "SUCCEEDED"
         /\ payments[e.payment].txn = Nil => \A v \in Txns : claims[v] # e.payment
<1>1. e.payment \in Payments /\ payments[e.payment] # Nil /\ e.txn \in Txns
      /\ payments[e.payment].external > 0
  BY DEF EventRec, NewEvent
<1>2. payments[e.payment] \in PaymentRec
  BY <1>1 DEF MoneyInv, TypeOK
<1>3. payments[e.payment].order \in Quotes /\ Exists(payments[e.payment].order)
  BY <1>1, <1>2 DEF MoneyInv, TypeOK, PaymentRec
<1>4. payments[e.payment].txn = Nil => payments[e.payment].status # "SUCCEEDED"
  BY <1>1 DEF MoneyInv, CapturesHaveOneOwner
<1>5. payments[e.payment].txn = Nil => \A v \in Txns : claims[v] # e.payment
  BY <1>1, NilAssumption DEF MoneyInv, CapturesHaveOneOwner
<1>. QED BY <1>1, <1>2, <1>3, <1>4, <1>5, NilAssumption

LEMMA OnTimeMoney ==
  ASSUME MoneyInv, TypeOK', NEW e \in EventRec, NEW t \in Clock, SettleOnTime(e, t)
  PROVE  MoneyInv'
<1>. DEFINE p   == e.payment
            q   == payments[p].order
            E   == DueAtSettlement(q, t)
            rel == ReleasePendingPayments(E, "EXPIRED")
            row == [SettleReservation(payments[p], TRUE) EXCEPT !.status = "SUCCEEDED",
                                                                !.txn = e.txn]
<1>1. E \subseteq {x \in Quotes : IsHeld(x)}
  BY DueAtSettlementIsHeld
<1>2. NewEvent(e) /\ UNCHANGED quotes /\ UNCHANGED exceptions /\ payments[p].txn = Nil
      /\ IsPending(p) /\ IsHeld(q) /\ q \notin E /\ orders[q].paid = "UNPAID"
      /\ orders' = [ExpiredOrders(E) EXCEPT ![q] = PaidOrder(q)]
      /\ claims[e.txn] \in {Nil, p} /\ claims' = [claims EXCEPT ![e.txn] = p]
  BY DEF SettleOnTime, StillPayable, Claim, IsPending, NewEvent
<1>3. /\ p \in Payments /\ payments[p] \in PaymentRec /\ payments[p] # Nil
      /\ e.txn \in Txns /\ q \in Quotes /\ \A v \in Txns : claims[v] # p
  BY <1>2, CaptureStarts
<1>4. rel \in [Payments -> PaymentRec \cup {Nil}]
  BY ReleasedPayments DEF MoneyInv
<1>5. rel[p] = payments[p]
  BY <1>2, <1>3 DEF ReleasePendingPayments
<1>6. payments'[p] = row /\ \A r \in Payments \ {p} : payments'[r] = rel[r]
  BY <1>3, <1>4, <1>5 DEF SettleOnTime
<1>7. /\ row \in PaymentRec
      /\ row.order = q /\ row.external = payments[p].external /\ row.wallet = payments[p].wallet
      /\ row.status = "SUCCEEDED" /\ row.txn = e.txn
      /\ row.reserve = IF payments[p].reserve = "RESERVED" THEN "CONSUMED" ELSE payments[p].reserve
  BY <1>3, FundedRow
<1>. HIDE DEF row
<1>8. payments'[p] # Nil /\ payments'[p].order = q
  BY <1>6, <1>7, NilAssumption
<1>9. payments'[p].wallet + payments'[p].external = Total(q)
  BY <1>3, <1>6, <1>7 DEF MoneyInv, PaidOrdersAreFunded
<1>10. PaymentSucceeds(p)
  <2>1. payments[p].wallet \in Nat /\ payments[p].status = "PENDING"
    BY <1>2, <1>3 DEF PaymentRec, IsPending
  <2>2. payments[p].reserve = IF payments[p].wallet = 0 THEN "NONE" ELSE "RESERVED"
    BY <1>3, <2>1 DEF MoneyInv, ReservationsFollowPayments
  <2>. QED BY <1>6, <1>7, <2>2 DEF PaymentSucceeds
<1>11. \A r \in Payments \ {p} : IsPending(r) => payments[r].order # q
  BY <1>2, <1>3 DEF MoneyInv, PaymentsMatchOrders, IsPending
<1>12. \A r \in Payments \ {p} : payments'[r] = ReleasePendingPayments(E, "EXPIRED")[r]
  BY <1>6
<1>13. payments'[p].status = "SUCCEEDED"
  BY <1>6, <1>7
<1>14. payments'[p].txn = e.txn /\ claims'[e.txn] = p
  BY <1>2, <1>3, <1>6, <1>7 DEF MoneyInv, TypeOK
<1>. HIDE DEF p, q, E, rel
<1>15. OrdersMoney'
  <2>1. /\ IsHeld(q) /\ q \notin E /\ orders[q].paid = "UNPAID" /\ UNCHANGED quotes
        /\ orders' = [ExpiredOrders(E) EXCEPT ![q] = PaidOrder(q)]
    BY <1>2
  <2>2. p \in Payments /\ q \in Quotes
    BY <1>3
  <2>3. payments[p].order = q
    BY DEF q
  <2>. QED BY <1>1, <1>8, <1>9, <1>10, <1>11, <1>12, <2>1, <2>2, <2>3, FundedOrders
<1>16. CapturesHaveOneOwner' /\ EveryCaptureAccounted'
  <2>1. \A r \in Payments \ {p} :
          /\ PaymentKept(r) \/ PaymentDropped(r)
          /\ payments[r] = Nil => payments'[r] = Nil
          /\ payments[r] # Nil => payments'[r].txn = payments[r].txn
    BY <1>12, Released DEF MoneyInv
  <2>2. \A r \in Payments \ {p} : payments[r] # Nil =>
          /\ payments'[r] # Nil
          /\ payments'[r].txn = payments[r].txn
          /\ payments'[r].status = "SUCCEEDED" <=> payments[r].status = "SUCCEEDED"
          /\ payments'[r].external = payments[r].external
    BY <2>1 DEF PaymentKept, PaymentDropped
  <2>3. \A v \in Txns : claims[v] # p
    BY <1>3
  <2>4. claims[e.txn] = Nil /\ exceptions' = exceptions /\ payments[p] # Nil /\ p \in Payments
        /\ payments'[p].txn \in Txns /\ claims'[payments'[p].txn] = p
    BY <1>2, <1>3, <1>14
  <2>5. claims'[e.txn] = p /\ e.txn \in Txns /\ \A v \in Txns \ {e.txn} : claims'[v] = claims[v]
    BY <1>2, <1>3 DEF MoneyInv, TypeOK
  <2>. QED BY <1>8, <1>13, <1>14, <2>1, <2>2, <2>3, <2>4, <2>5, ClaimingStep
<1>. QED BY <1>15, <1>16 DEF MoneyInv, OrdersMoney

LEMMA LateMoney ==
  ASSUME MoneyInv, TypeOK', NEW e \in EventRec, NEW t \in Clock, SettleLate(e, t)
  PROVE  MoneyInv'
<1>. DEFINE p   == e.payment
            q   == payments[p].order
            E   == DueAtSettlement(q, t)
            rel == ReleasePendingPayments(E, "EXPIRED")
            row == [SettleReservation(rel[p], FALSE) EXCEPT !.status = "REFUND_REQUIRED",
                                                            !.txn = e.txn]
            x   == [payment |-> p, kind |-> "LATE_PAYMENT", txn |-> e.txn]
<1>1. E \subseteq {o \in Quotes : IsHeld(o)}
  BY DueAtSettlementIsHeld
<1>2. NewEvent(e) /\ UNCHANGED quotes /\ payments[p].txn = Nil
      /\ ~StillPayable(p, E) /\ orders' = ExpiredOrders(E)
      /\ claims[e.txn] \in {Nil, p} /\ claims' = [claims EXCEPT ![e.txn] = p]
      /\ exceptions' = exceptions \cup {x}
  BY DEF SettleLate, Claim, FinancialException
<1>3. /\ p \in Payments /\ payments[p] \in PaymentRec /\ payments[p] # Nil
      /\ payments[p].status # "SUCCEEDED"
      /\ e.txn \in Txns /\ q \in Quotes /\ \A v \in Txns : claims[v] # p
  BY <1>2, CaptureStarts
<1>4. rel \in [Payments -> PaymentRec \cup {Nil}]
  BY ReleasedPayments DEF MoneyInv
<1>5. /\ rel[p] \in PaymentRec
      /\ rel[p].order = q /\ rel[p].external = payments[p].external
      /\ rel[p].wallet = payments[p].wallet
      /\ rel[p].reserve \in {payments[p].reserve, IF payments[p].reserve = "RESERVED" THEN "RELEASED"
                                                  ELSE payments[p].reserve}
  <2>1. /\ rel[p] # Nil
        /\ rel[p].order = payments[p].order /\ rel[p].external = payments[p].external
        /\ rel[p].wallet = payments[p].wallet
        /\ ~(IsPending(p) /\ payments[p].order \in E) => rel[p] = payments[p]
        /\ IsPending(p) /\ payments[p].order \in E =>
             rel[p].reserve = IF payments[p].reserve = "RESERVED" THEN "RELEASED"
                              ELSE payments[p].reserve
    BY <1>3, ReleasedPayments DEF MoneyInv
  <2>. HIDE DEF rel
  <2>. QED BY <2>1, <1>3, <1>4
<1>6. payments'[p] = row /\ \A r \in Payments \ {p} : payments'[r] = rel[r]
  BY <1>3, <1>4 DEF SettleLate
<1>7. /\ row \in PaymentRec
      /\ row.order = q /\ row.external = payments[p].external /\ row.wallet = payments[p].wallet
      /\ row.status = "REFUND_REQUIRED" /\ row.txn = e.txn
      /\ row.reserve = IF payments[p].reserve = "RESERVED" THEN "RELEASED" ELSE payments[p].reserve
  <2>1. /\ row \in PaymentRec
        /\ row.order = rel[p].order /\ row.external = rel[p].external /\ row.wallet = rel[p].wallet
        /\ row.status = "REFUND_REQUIRED" /\ row.txn = e.txn
        /\ row.reserve = IF rel[p].reserve = "RESERVED" THEN "RELEASED" ELSE rel[p].reserve
    BY <1>3, <1>5, RefundedRow
  <2>. HIDE DEF row, rel
  <2>. QED BY <2>1, <1>5
<1>. HIDE DEF row
<1>8. PaymentDropped(p) /\ ~PaymentKept(p)
  BY <1>3, <1>2, <1>6, <1>7, NilAssumption DEF PaymentDropped, PaymentKept
<1>9. \A r \in Payments \ {p} : payments'[r] = ReleasePendingPayments(E, "EXPIRED")[r]
  BY <1>6
<1>10. payments'[p].status # "SUCCEEDED" /\ payments'[p].txn = e.txn /\ claims'[e.txn] = p
  BY <1>2, <1>3, <1>6, <1>7 DEF MoneyInv, TypeOK
<1>11. x.payment = p /\ x.txn = e.txn
  OBVIOUS
<1>. HIDE DEF p, q, E, rel, x
<1>12. \A r \in Payments :
         /\ PaymentKept(r) \/ PaymentDropped(r)
         /\ PaymentKept(r) /\ IsPending(r) => payments[r].order \notin E
  <2>1. ASSUME NEW r \in Payments \ {p}
        PROVE  /\ PaymentKept(r) \/ PaymentDropped(r)
               /\ PaymentKept(r) /\ IsPending(r) => payments[r].order \notin E
    BY <1>9, Released DEF MoneyInv
  <2>. QED BY <1>8, <2>1
<1>13. OrdersMoney'
  <2>1. \A o \in Quotes : Exists(o) => quotes'[o] = quotes[o] /\ OrderUnfunded(o)
    BY <1>1, <1>2, ExpiredMoney DEF MoneyInv
  <2>2. \A o \in Quotes : ~Exists(o) => orders'[o] = Nil
    BY <1>1, <1>2, ExpiredOrdersType DEF MoneyInv
  <2>3. \A r \in Payments : PaymentKept(r) /\ IsPending(r) =>
          orders'[payments[r].order] = orders[payments[r].order]
    <3>1. \A r \in Payments : IsPending(r) => payments[r].order \in Quotes
      BY DEF MoneyInv, TypeOK, PaymentRec, IsPending
    <3>. QED BY <1>1, <1>2, <1>12, <3>1, ExpiredRow DEF MoneyInv
  <2>. QED BY <1>12, <2>1, <2>2, <2>3, DroppingStep
<1>14. CapturesHaveOneOwner' /\ EveryCaptureAccounted'
  <2>1. \A r \in Payments \ {p} :
          /\ payments[r] = Nil => payments'[r] = Nil
          /\ payments[r] # Nil => payments'[r].txn = payments[r].txn
    BY <1>9, Released DEF MoneyInv
  <2>2. \A r \in Payments \ {p} : payments[r] # Nil =>
          /\ payments'[r] # Nil
          /\ payments'[r].txn = payments[r].txn
          /\ payments'[r].status = "SUCCEEDED" <=> payments[r].status = "SUCCEEDED"
          /\ payments'[r].external = payments[r].external
    BY <1>12, <2>1 DEF PaymentKept, PaymentDropped
  <2>3. payments'[p] # Nil
    BY <1>8 DEF PaymentDropped
  <2>4. \A v \in Txns : claims[v] # p
    BY <1>3
  <2>5. claims[e.txn] \in {Nil, p} /\ payments[p] # Nil /\ p \in Payments
        /\ payments'[p].txn \in Txns /\ claims'[payments'[p].txn] = p
    BY <1>2, <1>3, <1>10
  <2>6. claims'[e.txn] = p /\ e.txn \in Txns /\ \A v \in Txns \ {e.txn} : claims'[v] = claims[v]
    BY <1>2, <1>3 DEF MoneyInv, TypeOK
  <2>7. /\ payments'[p].status # "SUCCEEDED" /\ exceptions \subseteq exceptions'
        /\ \A y \in exceptions' \ exceptions : y.payment = p /\ y.txn = e.txn
        /\ \E y \in exceptions' : y.payment = p /\ y.txn = e.txn
    BY <1>2, <1>10, <1>11
  <2>. QED BY <1>11, <2>1, <2>2, <2>3, <2>4, <2>5, <2>6, <2>7, ClaimingStep
<1>. QED BY <1>13, <1>14 DEF MoneyInv, OrdersMoney

LEMMA AgainMoney ==
  ASSUME MoneyInv, TypeOK', NEW e \in EventRec, NEW t \in Clock, SettleAgain(e, t)
  PROVE  MoneyInv'
<1>. DEFINE p == e.payment
            E == DueAtSettlement(payments[p].order, t)
            x == [payment |-> p, kind |-> "DUPLICATE_PAYMENT", txn |-> e.txn]
<1>1. E \subseteq {o \in Quotes : IsHeld(o)}
  BY DueAtSettlementIsHeld
<1>2. /\ NewEvent(e) /\ UNCHANGED quotes /\ payments[p].txn # Nil
      /\ orders' = ExpiredOrders(E) /\ payments' = ReleasePendingPayments(E, "EXPIRED")
      /\ claims[e.txn] \in {Nil, p} /\ claims' = [claims EXCEPT ![e.txn] = p]
      /\ exceptions' = IF payments[p].txn = e.txn THEN exceptions ELSE exceptions \cup {x}
  BY DEF SettleAgain, Claim, FinancialException
<1>3. p \in Payments /\ payments[p] \in PaymentRec /\ payments[p] # Nil /\ e.txn \in Txns
  BY <1>2, CaptureStarts
<1>4. payments[p].txn \in Txns /\ claims[payments[p].txn] = p
  BY <1>2, <1>3 DEF MoneyInv, CapturesHaveOneOwner, PaymentRec
<1>5. x.payment = p /\ x.txn = e.txn
  OBVIOUS
<1>. HIDE DEF p, E, x
<1>6. \A o \in Quotes : ~Exists(o) => orders'[o] = Nil
  BY <1>1, <1>2, ExpiredOrdersType DEF MoneyInv
<1>7. OrdersMoney' /\ (UNCHANGED <<claims, exceptions>> => MoneyInv')
  BY <1>1, <1>2, <1>6, SweepMoney
<1>8. CASE payments[p].txn = e.txn
  <2>1. UNCHANGED <<claims, exceptions>>
    BY <1>2, <1>4, <1>8 DEF MoneyInv, TypeOK
  <2>. QED BY <1>7, <2>1
<1>9. CASE payments[p].txn # e.txn
  <2>1. \A r \in Payments :
          /\ PaymentKept(r) \/ PaymentDropped(r)
          /\ payments[r] = Nil => payments'[r] = Nil
          /\ payments[r] # Nil => payments'[r].txn = payments[r].txn
    BY <1>2, Released DEF MoneyInv
  <2>2. \A r \in Payments : payments[r] # Nil =>
          /\ payments'[r] # Nil
          /\ payments'[r].status = "SUCCEEDED" <=> payments[r].status = "SUCCEEDED"
          /\ payments'[r].external = payments[r].external
    BY <2>1 DEF PaymentKept, PaymentDropped
  <2>3. claims'[e.txn] = p /\ \A v \in Txns \ {e.txn} : claims'[v] = claims[v]
    BY <1>2, <1>3 DEF MoneyInv, TypeOK
  <2>4. /\ payments'[p] # Nil /\ payments'[p].txn \in Txns /\ payments'[p].txn # e.txn
        /\ claims'[payments'[p].txn] = p
    BY <1>3, <1>4, <1>9, <2>1, <2>2, <2>3
  <2>5. /\ exceptions \subseteq exceptions'
        /\ \A y \in exceptions' \ exceptions : y.payment = p /\ y.txn = e.txn
        /\ \E y \in exceptions' : y.payment = p /\ y.txn = e.txn
    BY <1>2, <1>5, <1>9
  <2>6. claims[e.txn] = Nil \/ claims[e.txn] = p
    BY <1>2
  <2>7. CapturesHaveOneOwner' /\ EveryCaptureAccounted'
    <3>1. \A r \in Payments : payments[r] # Nil =>
            (payments'[r].status = "SUCCEEDED" <=> payments[r].status = "SUCCEEDED")
      BY <2>2
    <3>2. \A v \in Txns : v # e.txn /\ claims[v] = p =>
            (payments'[p].status = "SUCCEEDED" <=> payments[p].status = "SUCCEEDED")
      BY <1>3, <3>1
    <3>. QED BY <1>3, <2>1, <2>2, <2>3, <2>4, <2>5, <2>6, <3>2, ClaimingStep
  <2>. QED BY <1>7, <2>7 DEF MoneyInv, OrdersMoney
<1>. QED BY <1>8, <1>9

(***************************************************************************)
(* The invariant and the theorems.                                         *)
(***************************************************************************)
LEMMA MoneyStep == MoneyInv /\ [Next]_vars => MoneyInv'
<1> SUFFICES ASSUME MoneyInv, [Next]_vars PROVE MoneyInv'
  OBVIOUS
<1>1. TypeOK'
  BY TypeOKStep DEF MoneyInv
<1>2. CASE UNCHANGED <<quotes, orders, payments, claims, exceptions>>
  <2>1. PaymentsMatchOrders'
    BY <1>2 DEF MoneyInv, PaymentsMatchOrders, IsPending, IsHeld, Exists
  <2>2. PaidOrdersAreFunded'
    BY <1>2 DEF MoneyInv, PaidOrdersAreFunded, Exists, Total
  <2>3. ReservationsFollowPayments'
    BY <1>2 DEF MoneyInv, ReservationsFollowPayments
  <2>4. CapturesHaveOneOwner'
    BY <1>2 DEF MoneyInv, CapturesHaveOneOwner
  <2>5. EveryCaptureAccounted'
    BY <1>2 DEF MoneyInv, EveryCaptureAccounted, Funds
  <2>. QED BY <1>1, <2>1, <2>2, <2>3, <2>4, <2>5 DEF MoneyInv
<1>3. CASE UNCHANGED vars
  BY <1>3, <1>2 DEF vars
<1>4. CASE Tick
  BY <1>4, <1>2 DEF Tick
<1>5. ASSUME NEW v \in Venues, ExpireVenueHolds(v) PROVE MoneyInv'
  <2>. DEFINE E == Due(v, now)
  <2>1. E \subseteq {x \in Quotes : IsHeld(x)}
    BY DueIsHeld
  <2>2. /\ orders' = ExpiredOrders(E) /\ payments' = ReleasePendingPayments(E, "EXPIRED")
        /\ UNCHANGED quotes /\ UNCHANGED <<claims, exceptions>>
    BY <1>5 DEF ExpireVenueHolds
  <2>. HIDE DEF E
  <2>3. \A q \in Quotes : ~Exists(q) => orders'[q] = Nil
    BY <2>1, <2>2, ExpiredOrdersType DEF MoneyInv
  <2>. QED BY <1>1, <2>1, <2>2, <2>3, SweepMoney
<1>6. ASSUME NEW q \in Quotes, NEW c \in Customers, NEW s \in Selections,
             NEW policy \in Policies, CreateQuote(q, c, s, policy)
      PROVE  MoneyInv'
  <2>. DEFINE E == Due(s.venue, now)
  <2>1. E \subseteq {x \in Quotes : IsHeld(x)}
    BY DueIsHeld
  <2>2. /\ orders' = ExpiredOrders(E) /\ payments' = ReleasePendingPayments(E, "EXPIRED")
        /\ UNCHANGED <<claims, exceptions>>
    BY <1>6 DEF CreateQuote
  <2>3. \A x \in Quotes : Exists(x) => quotes'[x] = quotes[x]
    BY <1>6 DEF CreateQuote, MoneyInv, TypeOK
  <2>. HIDE DEF E
  <2>4. \A x \in Quotes : ~Exists(x) => orders'[x] = Nil
    BY <2>1, <2>2, ExpiredOrdersType DEF MoneyInv
  <2>. QED BY <1>1, <2>1, <2>2, <2>3, <2>4, SweepMoney
<1>7. ASSUME NEW q \in Quotes, NEW t \in Clock, ConfirmQuote(q, t) PROVE MoneyInv'
  BY <1>1, <1>7, ConfirmationMoney
<1>8. ASSUME NEW q \in Quotes, CancelUnpaidOrder(q) PROVE MoneyInv'
  BY <1>1, <1>8, CancellationMoney
<1>9. ASSUME NEW q \in Quotes, NEW L \in SUBSET Intervals, CancelFreeOrderLines(q, L)
      PROVE  MoneyInv'
  BY <1>1, <1>9, LinesMoney
<1>10. ASSUME NEW p \in Payments, NEW q \in Quotes, NEW w \in WalletParts, NEW t \in Clock,
              BeginOrderPayment(p, q, w, t)
       PROVE  MoneyInv'
  BY <1>1, <1>10, BeginMoney
<1>11. ASSUME NEW e \in EventRec, NEW t \in Clock, Settlement(e, t) PROVE MoneyInv'
  BY <1>1, <1>11, OnTimeMoney, LateMoney, AgainMoney, FailureMoney DEF Settlement
<1>12. CASE Inventory
  BY <1>12, <1>2 DEF Inventory, OccupyCourt, RescheduleCourtOccupancy, ReleaseCourtOccupancy
<1>. QED BY <1>3, <1>4, <1>5, <1>6, <1>7, <1>8, <1>9, <1>10, <1>11, <1>12 DEF Next, Booking

LEMMA MoneyAlways == Spec => []MoneyInv
<1>1. Init => MoneyInv
  <2> SUFFICES ASSUME Init PROVE MoneyInv
    OBVIOUS
  <2>1. TypeOK
    BY TimeAssumption DEF Init, TypeOK, Exists
  <2>2. PaymentsMatchOrders /\ PaidOrdersAreFunded /\ ReservationsFollowPayments
    BY DEF Init, PaymentsMatchOrders, PaidOrdersAreFunded, ReservationsFollowPayments,
           IsPending, Exists
  <2>3. CapturesHaveOneOwner /\ EveryCaptureAccounted
    BY DEF Init, CapturesHaveOneOwner, EveryCaptureAccounted
  <2>. QED BY <2>1, <2>2, <2>3 DEF MoneyInv
<1>. QED BY <1>1, MoneyStep, PTL DEF Spec

\* A payment waits only for a held and unpaid order, an order never has two that
\* wait or succeeded and is PAID exactly when one of its whole price succeeded, and
\* wallet money is held back, spent or given back as the payment says
\* (beginOrderPayment, settleVerifiedPayment, releasePendingPayments).
THEOREM MoneyAgrees == Spec => []MoneyFollowsOrders
<1>1. MoneyInv => MoneyFollowsOrders
  BY DEF MoneyInv, MoneyFollowsOrders
<1>. QED BY <1>1, MoneyAlways, PTL

\* Every capture funds its order or is an open exception, never both and never
\* neither, and none funds two payments (claimChannelTransaction,
\* settleVerifiedPayment).
THEOREM NoCaptureIsLost == Spec => []CapturesAreAccounted
<1>1. MoneyInv => CapturesAreAccounted
  BY DEF MoneyInv, CapturesAreAccounted
<1>. QED BY <1>1, MoneyAlways, PTL

-----------------------------------------------------------------------------
(***************************************************************************)
(* Proofs of what no step of CourtBooking may do: bring a lost order back, *)
(* confirm one whose hold has ended, change one under the same revision,   *)
(* or take a successful payment back.                                      *)
(*                                                                         *)
(* Each command writes what its expiry of due holds leaves (SweptOrder,    *)
(* SweptPayment) and on top of it at most one order and one payment.  The  *)
(* invariant MoneyInv is needed for the settlements: a waiting payment has *)
(* a held order, and a payment without a capture has not succeeded when it *)
(* asked the provider for money.                                           *)
(***************************************************************************)

\* What a step may do to order q: nothing, or rewrite it under a later revision
\* while it is alive, and confirm it only before its hold ends.
OrderMoves(q) ==
  /\ orders[q].status \in {"HELD", "CONFIRMED"}
  /\ orders'[q].revision > orders[q].revision
  /\ orders[q].status = "HELD" /\ orders'[q].status = "CONFIRMED"
       => now' < orders[q].holdUntil

OrderStep(q) == orders'[q] = orders[q] \/ OrderMoves(q)

\* What a step may do to payment p.
PaymentStep(p) ==
  /\ payments[p].status = "SUCCEEDED" => payments'[p] = payments[p]
  /\ payments[p].status \in {"FAILED", "EXPIRED", "CANCELLED"} =>
       payments'[p].status \in {payments[p].status, "REFUND_REQUIRED"}

Steps ==
  /\ \A q \in Quotes : Exists(q) => OrderStep(q)
  /\ \A p \in Payments : payments[p] # Nil => PaymentStep(p)

(***************************************************************************)
(* Rows.                                                                   *)
(***************************************************************************)
\* Every rewritten order row has the next revision.
LEMMA NextRevision ==
  ASSUME TypeOK, NEW q \in Quotes, Exists(q)
  PROVE  /\ orders[q] \in OrderRec
         /\ CancelledOrder(q).revision > orders[q].revision
         /\ PaidOrder(q).revision > orders[q].revision
         /\ \A L : WithoutLines(q, L).revision > orders[q].revision
<1>1. orders[q] \in OrderRec /\ orders[q].revision \in Nat
  BY DEF TypeOK, Exists, OrderRec
<1>2. CancelledOrder(q).revision = orders[q].revision + 1
  BY <1>1 DEF CancelledOrder, OrderRec
<1>3. PaidOrder(q).revision = orders[q].revision + 1
  BY <1>1 DEF PaidOrder, OrderRec
<1>4. \A L : WithoutLines(q, L).revision = orders[q].revision + 1
  BY <1>1 DEF WithoutLines, OrderRec
<1> QED
  BY <1>1, <1>2, <1>3, <1>4

\* expireVenueHolds expires what is held.
LEMMA SweptOrder ==
  ASSUME TypeOK, NEW E, E \subseteq {x \in Quotes : IsHeld(x)},
         NEW q \in Quotes, Exists(q), orders'[q] = ExpiredOrders(E)[q]
  PROVE  OrderStep(q)
<1>1. CASE q \in E
  <2>1. orders[q] \in OrderRec /\ orders[q].status = "HELD" /\ orders[q].revision \in Nat
    BY <1>1 DEF TypeOK, IsHeld, Exists, OrderRec
  <2>2. orders'[q] = [orders[q] EXCEPT !.status = "EXPIRED", !.holdUntil = 0,
                                       !.revision = @ + 1]
    BY <1>1 DEF ExpiredOrders
  <2>3. orders'[q].status = "EXPIRED" /\ orders'[q].revision = orders[q].revision + 1
    BY <2>1, <2>2 DEF OrderRec
  <2> QED
    BY <2>1, <2>3 DEF OrderStep, OrderMoves
<1>2. CASE q \notin E
  BY <1>2 DEF ExpiredOrders, OrderStep
<1> QED
  BY <1>1, <1>2

\* releasePendingPaymentsInTransaction ends what waits.
LEMMA SweptPayment ==
  ASSUME TypeOK, NEW Q, NEW status \in {"EXPIRED", "CANCELLED"},
         NEW p \in Payments, payments[p] # Nil,
         payments'[p] = ReleasePendingPayments(Q, status)[p]
  PROVE  PaymentStep(p)
<1>1. CASE IsPending(p)
  BY <1>1 DEF IsPending, PaymentStep
<1>2. CASE ~IsPending(p)
  <2>1. payments'[p] = payments[p]
    BY <1>2 DEF ReleasePendingPayments
  <2> QED
    BY <2>1 DEF PaymentStep
<1> QED
  BY <1>1, <1>2

\* A command that sweeps and rewrites at most order q and payment p.
LEMMA StepsFromRows ==
  ASSUME TypeOK, NEW E, E \subseteq {x \in Quotes : IsHeld(x)}, NEW q, NEW p,
         \A x \in Quotes : x # q => orders'[x] = ExpiredOrders(E)[x],
         q \in Quotes /\ Exists(q) => OrderStep(q),
         \A x \in Payments : x # p =>
           payments'[x] = ReleasePendingPayments(E, "EXPIRED")[x],
         p \in Payments /\ payments[p] # Nil => PaymentStep(p)
  PROVE  Steps
<1>1. ASSUME NEW x \in Quotes, Exists(x) PROVE OrderStep(x)
  BY <1>1, SweptOrder
<1>2. ASSUME NEW x \in Payments, payments[x] # Nil PROVE PaymentStep(x)
  BY <1>2, SweptPayment
<1> QED
  BY <1>1, <1>2 DEF Steps

(***************************************************************************)
(* Commands on orders.                                                     *)
(***************************************************************************)
LEMMA SweepSteps ==
  ASSUME TypeOK, NEW E, E \subseteq {x \in Quotes : IsHeld(x)},
         orders' = ExpiredOrders(E), payments' = ReleasePendingPayments(E, "EXPIRED")
  PROVE  Steps
<1>1. \A x \in Quotes : Exists(x) => OrderStep(x)
  BY SweptOrder
<1>2. \A x \in Payments : payments[x] # Nil => PaymentStep(x)
  BY SweptPayment
<1> QED
  BY <1>1, <1>2 DEF Steps

LEMMA ConfirmationSteps ==
  ASSUME TypeOK, NEW q \in Quotes, NEW t \in Clock, ConfirmQuote(q, t)
  PROVE  Steps
<1> DEFINE E == Due(Venue(q), now)
<1>1. E \subseteq {x \in Quotes : IsHeld(x)}
  BY DueIsHeld
<1>2. ~Exists(q) /\ payments' = ReleasePendingPayments(E, "EXPIRED")
  BY DEF ConfirmQuote
<1>3. PICK row : orders' = [ExpiredOrders(E) EXCEPT ![q] = row]
  BY DEF ConfirmQuote
<1> HIDE DEF E
<1>4. ExpiredOrders(E) \in [Quotes -> OrderRec \cup {Nil}]
  BY <1>1, ExpiredOrdersType
<1>5. \A x \in Quotes : x # q => orders'[x] = ExpiredOrders(E)[x]
  BY <1>3, <1>4
<1>6. \A x \in Payments : payments[x] # Nil => PaymentStep(x)
  BY <1>2, SweptPayment
<1>7. \A x \in Quotes : Exists(x) => OrderStep(x)
  BY <1>1, <1>2, <1>5, SweptOrder
<1> QED
  BY <1>6, <1>7 DEF Steps

LEMMA CancellationSteps ==
  ASSUME TypeOK, NEW q \in Quotes, CancelUnpaidOrder(q)
  PROVE  Steps
<1> DEFINE E == Due(Venue(q), now)
<1>1. E \subseteq {x \in Quotes : IsHeld(x)}
  BY DueIsHeld
<1>2. /\ Exists(q) /\ orders[q].status \in {"HELD", "CONFIRMED"}
      /\ orders' = [ExpiredOrders(E) EXCEPT ![q] = CancelledOrder(q)]
  BY DEF CancelUnpaidOrder
<1>3. payments' = [p \in Payments |->
                   IF IsPending(p) /\ payments[p].order = q
                   THEN ReleasePendingPayments({q}, "CANCELLED")[p]
                   ELSE ReleasePendingPayments(E, "EXPIRED")[p]]
  BY DEF CancelUnpaidOrder
<1> HIDE DEF E
<1>4. ExpiredOrders(E) \in [Quotes -> OrderRec \cup {Nil}]
  BY <1>1, ExpiredOrdersType
<1>5. \A x \in Quotes : x # q => orders'[x] = ExpiredOrders(E)[x]
  BY <1>2, <1>4
<1>6. OrderStep(q)
  <2>1. orders'[q] = CancelledOrder(q)
    BY <1>2, <1>4
  <2>2. orders'[q].status = "CANCELLED" /\ orders'[q].revision > orders[q].revision
    BY <2>1, <1>2, NextRevision, OrderRowsStatus
  <2> QED
    BY <2>2, <1>2 DEF OrderStep, OrderMoves
<1>7. ASSUME NEW x \in Payments, payments[x] # Nil PROVE PaymentStep(x)
  <2>1. \/ payments'[x] = ReleasePendingPayments({q}, "CANCELLED")[x]
        \/ payments'[x] = ReleasePendingPayments(E, "EXPIRED")[x]
    BY <1>3
  <2> QED
    BY <1>7, <2>1, SweptPayment
<1>8. \A x \in Quotes : Exists(x) => OrderStep(x)
  BY <1>1, <1>5, <1>6, SweptOrder
<1> QED
  BY <1>7, <1>8 DEF Steps

LEMMA LinesSteps ==
  ASSUME TypeOK, NEW q \in Quotes, NEW L \in SUBSET Intervals, CancelFreeOrderLines(q, L)
  PROVE  Steps
<1> DEFINE E == Due(Venue(q), now)
<1>1. E \subseteq {x \in Quotes : IsHeld(x)}
  BY DueIsHeld
<1>2. /\ Exists(q) /\ orders[q].status = "CONFIRMED"
      /\ orders' = [ExpiredOrders(E) EXCEPT ![q] = WithoutLines(q, L)]
      /\ payments' = ReleasePendingPayments(E, "EXPIRED")
  BY DEF CancelFreeOrderLines
<1> HIDE DEF E
<1>3. ExpiredOrders(E) \in [Quotes -> OrderRec \cup {Nil}]
  BY <1>1, ExpiredOrdersType
<1>4. \A x \in Quotes : x # q => orders'[x] = ExpiredOrders(E)[x]
  BY <1>2, <1>3
<1>5. OrderStep(q)
  <2>1. orders'[q] = WithoutLines(q, L)
    BY <1>2, <1>3
  <2>2. orders'[q].revision > orders[q].revision
    BY <2>1, <1>2, NextRevision
  <2> QED
    BY <2>2, <1>2 DEF OrderStep, OrderMoves
<1>6. \A x \in Payments : payments[x] # Nil => PaymentStep(x)
  BY <1>2, SweptPayment
<1>7. \A x \in Quotes : Exists(x) => OrderStep(x)
  BY <1>1, <1>4, <1>5, SweptOrder
<1> QED
  BY <1>6, <1>7 DEF Steps

LEMMA BeginSteps ==
  ASSUME TypeOK, NEW p \in Payments, NEW q \in Quotes, NEW w \in WalletParts,
         NEW t \in Clock, BeginOrderPayment(p, q, w, t)
  PROVE  Steps
<1> DEFINE E == Due(Venue(q), now)
           swept == ReleasePendingPayments(E, "EXPIRED")
<1>1. E \subseteq {x \in Quotes : IsHeld(x)}
  BY DueIsHeld
<1>2. payments[p] = Nil /\ IsHeld(q) /\ orders[q].holdUntil > t /\ now' = t
  BY DEF BeginOrderPayment
<1>3. PICK row : payments' = [swept EXCEPT ![p] = row]
  BY DEF BeginOrderPayment
<1>4. PICK paid : orders' = [ExpiredOrders(E) EXCEPT ![q] =
                               IF paid THEN PaidOrder(q) ELSE ExpiredOrders(E)[q]]
  BY DEF BeginOrderPayment
<1>5. swept \in [Payments -> PaymentRec \cup {Nil}]
  BY ReleasedPayments
<1> HIDE DEF E
<1>6. ExpiredOrders(E) \in [Quotes -> OrderRec \cup {Nil}]
  BY <1>1, ExpiredOrdersType
<1>7. \A x \in Quotes : x # q => orders'[x] = ExpiredOrders(E)[x]
  BY <1>4, <1>6
<1>8. \A x \in Payments : x # p => payments'[x] = swept[x]
  BY <1>3, <1>5
<1>9. OrderStep(q)
  <2>1. CASE orders'[q] = ExpiredOrders(E)[q]
    BY <2>1, <1>1, <1>2, SweptOrder DEF IsHeld
  <2>2. CASE orders'[q] = PaidOrder(q)
    <3>1. orders'[q].revision > orders[q].revision
      BY <2>2, <1>2, NextRevision DEF IsHeld
    <3> QED
      BY <3>1, <1>2 DEF OrderStep, OrderMoves, IsHeld
  <2>3. orders'[q] = IF paid THEN PaidOrder(q) ELSE ExpiredOrders(E)[q]
    BY <1>4, <1>6
  <2> QED
    BY <2>1, <2>2, <2>3
<1>10. ASSUME NEW x \in Payments, payments[x] # Nil PROVE PaymentStep(x)
  <2>1. payments'[x] = ReleasePendingPayments(E, "EXPIRED")[x]
    BY <1>2, <1>8, <1>10
  <2> QED
    BY <1>10, <2>1, SweptPayment
<1>11. \A x \in Quotes : Exists(x) => OrderStep(x)
  BY <1>1, <1>7, <1>9, SweptOrder
<1> QED
  BY <1>10, <1>11 DEF Steps

(***************************************************************************)
(* Settlements.                                                            *)
(***************************************************************************)
\* The order of an event's payment, and what a settlement expires.
LEMMA SettlementSets ==
  ASSUME TypeOK, NEW e \in EventRec, NEW t \in Clock, NewEvent(e)
  PROVE  /\ e.payment \in Payments /\ payments[e.payment] # Nil
         /\ payments[e.payment] \in PaymentRec
         /\ payments[e.payment].order \in Quotes
         /\ Exists(payments[e.payment].order)
         /\ DueAtSettlement(payments[e.payment].order, t) \subseteq {x \in Quotes : IsHeld(x)}
<1>1. e.payment \in Payments /\ payments[e.payment] # Nil
  BY DEF EventRec, NewEvent
<1>2. payments[e.payment] \in PaymentRec /\ payments[e.payment].order \in Quotes
  BY <1>1 DEF TypeOK, PaymentRec
<1>3. Exists(payments[e.payment].order)
  BY <1>1 DEF TypeOK
<1>4. DueAtSettlement(payments[e.payment].order, t) \subseteq {x \in Quotes : IsHeld(x)}
  BY DueAtSettlementIsHeld
<1> QED
  BY <1>1, <1>2, <1>3, <1>4

LEMMA OnTimeSteps ==
  ASSUME MoneyInv, NEW e \in EventRec, NEW t \in Clock, SettleOnTime(e, t)
  PROVE  Steps
<1> DEFINE p == e.payment
           q == payments[p].order
           E == DueAtSettlement(q, t)
           swept == ReleasePendingPayments(E, "EXPIRED")
<1>0. TypeOK /\ NewEvent(e)
  BY DEF MoneyInv, SettleOnTime
<1>1. /\ p \in Payments /\ payments[p] # Nil /\ q \in Quotes /\ Exists(q)
      /\ E \subseteq {x \in Quotes : IsHeld(x)}
  BY <1>0, SettlementSets
<1>2. /\ payments[p].status = "PENDING" /\ IsHeld(q) /\ q \notin E /\ now' = t
      /\ orders' = [ExpiredOrders(E) EXCEPT ![q] = PaidOrder(q)]
  BY DEF SettleOnTime, StillPayable
<1>3. PICK row : payments' = [swept EXCEPT ![p] = row]
  BY DEF SettleOnTime
<1>4. now' < orders[q].holdUntil
  <2>1. q \notin Due(Venue(q), t)
    BY <1>2 DEF DueAtSettlement
  <2>2. t \in 0 .. MaxTime /\ orders[q].holdUntil \in Nat
    BY <1>0, <1>1, ClockType DEF TypeOK, Exists, OrderRec
  <2> QED
    BY <2>1, <2>2, <1>1, <1>2, TimeAssumption DEF Due
<1>5. swept \in [Payments -> PaymentRec \cup {Nil}]
  BY <1>0, ReleasedPayments
<1> HIDE DEF E
<1>6. ExpiredOrders(E) \in [Quotes -> OrderRec \cup {Nil}]
  BY <1>0, <1>1, ExpiredOrdersType
<1> HIDE DEF p, q
<1>7. \A x \in Quotes : x # q => orders'[x] = ExpiredOrders(E)[x]
  BY <1>2, <1>6
<1>8. \A x \in Payments : x # p => payments'[x] = swept[x]
  BY <1>3, <1>5
<1>9. OrderStep(q)
  <2>1. orders'[q] = PaidOrder(q)
    BY <1>1, <1>2, <1>6
  <2>2. orders'[q].revision > orders[q].revision
    BY <2>1, <1>0, <1>1, NextRevision
  <2> QED
    BY <2>2, <1>2, <1>4 DEF OrderStep, OrderMoves, IsHeld
<1>10. PaymentStep(p)
  BY <1>2 DEF PaymentStep
<1> QED
  BY <1>0, <1>1, <1>7, <1>8, <1>9, <1>10, StepsFromRows

LEMMA LateSteps ==
  ASSUME MoneyInv, NEW e \in EventRec, NEW t \in Clock, SettleLate(e, t)
  PROVE  Steps
<1> DEFINE p == e.payment
           q == payments[p].order
           E == DueAtSettlement(q, t)
           swept == ReleasePendingPayments(E, "EXPIRED")
<1>0. TypeOK /\ NewEvent(e) /\ CapturesHaveOneOwner
  BY DEF MoneyInv, SettleLate
<1>1. /\ p \in Payments /\ payments[p] # Nil /\ payments[p] \in PaymentRec
      /\ E \subseteq {x \in Quotes : IsHeld(x)}
  BY <1>0, SettlementSets
<1>2. payments[p].status # "SUCCEEDED"
  <2>1. payments[p].txn = Nil
    BY DEF SettleLate
  <2>2. payments[p].external > 0
    BY <1>0 DEF NewEvent
  <2> QED
    BY <2>1, <2>2, <1>0, <1>1 DEF CapturesHaveOneOwner
<1>3. orders' = ExpiredOrders(E)
  BY DEF SettleLate
<1>4. payments' = [swept EXCEPT ![p] =
                    [SettleReservation(swept[p], FALSE) EXCEPT
                       !.status = "REFUND_REQUIRED", !.txn = e.txn]]
  BY DEF SettleLate
<1>5. swept \in [Payments -> PaymentRec \cup {Nil}] /\ swept[p] # Nil
  BY <1>0, <1>1, ReleasedPayments
<1> HIDE DEF E, swept
<1>6. payments'[p].status = "REFUND_REQUIRED"
  <2>1. swept[p] \in PaymentRec
    BY <1>1, <1>5
  <2>2. SettleReservation(swept[p], FALSE) \in PaymentRec
    BY <2>1, SettleReservationType
  <2>3. payments'[p] = [SettleReservation(swept[p], FALSE) EXCEPT
                          !.status = "REFUND_REQUIRED", !.txn = e.txn]
    BY <1>1, <1>4, <1>5
  <2> QED
    BY <2>2, <2>3 DEF PaymentRec
<1>7. \A x \in Payments : x # p => payments'[x] = swept[x]
  BY <1>4, <1>5
<1>8. PaymentStep(p)
  BY <1>2, <1>6 DEF PaymentStep
<1>9. \A x \in Quotes : Exists(x) => OrderStep(x)
  BY <1>0, <1>1, <1>3, SweptOrder
<1>10. ASSUME NEW x \in Payments, payments[x] # Nil, x # p PROVE PaymentStep(x)
  BY <1>0, <1>7, <1>10, SweptPayment DEF swept
<1> QED
  BY <1>8, <1>9, <1>10 DEF Steps

LEMMA AgainSteps ==
  ASSUME MoneyInv, NEW e \in EventRec, NEW t \in Clock, SettleAgain(e, t)
  PROVE  Steps
<1> DEFINE E == DueAtSettlement(payments[e.payment].order, t)
<1>1. TypeOK /\ E \subseteq {x \in Quotes : IsHeld(x)}
  BY DueAtSettlementIsHeld DEF MoneyInv
<1>2. orders' = ExpiredOrders(E) /\ payments' = ReleasePendingPayments(E, "EXPIRED")
  BY DEF SettleAgain
<1> HIDE DEF E
<1> QED
  BY <1>1, <1>2, SweepSteps

LEMMA FailureSteps ==
  ASSUME MoneyInv, NEW e \in EventRec, NEW t \in Clock, SettleFailure(e, t)
  PROVE  Steps
<1> DEFINE p == e.payment
           q == payments[p].order
           E == DueAtSettlement(q, t)
           swept == ReleasePendingPayments(E, "EXPIRED")
<1>0. TypeOK /\ NewEvent(e) /\ PaymentsMatchOrders
  BY DEF MoneyInv, SettleFailure
<1>1. /\ p \in Payments /\ payments[p] # Nil /\ q \in Quotes /\ Exists(q)
      /\ E \subseteq {x \in Quotes : IsHeld(x)}
  BY <1>0, SettlementSets
<1> DEFINE fails == StillWaits(p, E)
<1>2. /\ payments' = [swept EXCEPT ![p] =
           IF fails
           THEN [SettleReservation(swept[p], FALSE) EXCEPT !.status = "FAILED"]
           ELSE swept[p]]
      /\ orders' = [ExpiredOrders(E) EXCEPT ![q] =
           IF fails THEN CancelledOrder(q) ELSE ExpiredOrders(E)[q]]
  <2>1. payments' = [swept EXCEPT ![p] =
          IF fails
          THEN [SettleReservation(swept[p], FALSE) EXCEPT !.status = "FAILED"]
          ELSE swept[p]]
    BY DEF SettleFailure
  <2>2. orders' = [ExpiredOrders(E) EXCEPT ![q] =
          IF fails THEN CancelledOrder(q) ELSE ExpiredOrders(E)[q]]
    BY DEF SettleFailure
  <2> QED
    BY <2>1, <2>2
<1>3. fails \in BOOLEAN /\ (fails => payments[p].status = "PENDING" /\ IsHeld(q))
  BY <1>0, <1>1, <1>2 DEF StillWaits, PaymentsMatchOrders, IsPending
<1>4. swept \in [Payments -> PaymentRec \cup {Nil}]
  BY <1>0, ReleasedPayments
<1> HIDE DEF E
<1>5. ExpiredOrders(E) \in [Quotes -> OrderRec \cup {Nil}]
  BY <1>0, <1>1, ExpiredOrdersType
<1> HIDE DEF p, q
<1>6. \A x \in Quotes : x # q => orders'[x] = ExpiredOrders(E)[x]
  BY <1>2, <1>5
<1>7. \A x \in Payments : x # p => payments'[x] = swept[x]
  BY <1>2, <1>4
<1>8. OrderStep(q)
  <2>1. CASE fails
    <3>1. orders'[q] = CancelledOrder(q)
      BY <2>1, <1>1, <1>2, <1>5
    <3>2. orders'[q].status = "CANCELLED" /\ orders'[q].revision > orders[q].revision
      BY <3>1, <1>0, <1>1, NextRevision, OrderRowsStatus
    <3> QED
      BY <3>2, <2>1, <1>3 DEF OrderStep, OrderMoves, IsHeld
  <2>2. CASE ~fails
    <3>1. orders'[q] = ExpiredOrders(E)[q]
      BY <2>2, <1>1, <1>2, <1>5
    <3> QED
      BY <3>1, <1>0, <1>1, SweptOrder
  <2> QED
    BY <2>1, <2>2
<1>9. PaymentStep(p)
  <2>1. CASE fails
    BY <2>1, <1>3 DEF PaymentStep
  <2>2. CASE ~fails
    <3>1. payments'[p] = swept[p]
      BY <2>2, <1>1, <1>2, <1>4
    <3> QED
      BY <3>1, <1>0, <1>1, SweptPayment
  <2> QED
    BY <2>1, <2>2
<1> QED
  BY <1>0, <1>1, <1>6, <1>7, <1>8, <1>9, StepsFromRows

(***************************************************************************)
(* The theorems.                                                           *)
(***************************************************************************)
LEMMA EveryStep == MoneyInv /\ [Next]_vars => Steps
<1> SUFFICES ASSUME MoneyInv, [Next]_vars PROVE Steps
  OBVIOUS
<1>1. TypeOK
  BY DEF MoneyInv
<1>2. CASE UNCHANGED <<orders, payments>>
  BY <1>2 DEF Steps, OrderStep, PaymentStep
<1>3. CASE UNCHANGED vars
  BY <1>3, <1>2 DEF vars
<1>4. CASE Tick
  BY <1>4, <1>2 DEF Tick
<1>5. ASSUME NEW v \in Venues, ExpireVenueHolds(v) PROVE Steps
  <2> DEFINE E == Due(v, now)
  <2>1. E \subseteq {x \in Quotes : IsHeld(x)}
    BY DueIsHeld
  <2>2. orders' = ExpiredOrders(E) /\ payments' = ReleasePendingPayments(E, "EXPIRED")
    BY <1>5 DEF ExpireVenueHolds
  <2> HIDE DEF E
  <2> QED
    BY <1>1, <2>1, <2>2, SweepSteps
<1>6. ASSUME NEW q \in Quotes, NEW c \in Customers, NEW s \in Selections,
             NEW policy \in Policies, CreateQuote(q, c, s, policy)
      PROVE  Steps
  <2> DEFINE E == Due(s.venue, now)
  <2>1. E \subseteq {x \in Quotes : IsHeld(x)}
    BY DueIsHeld
  <2>2. orders' = ExpiredOrders(E) /\ payments' = ReleasePendingPayments(E, "EXPIRED")
    BY <1>6 DEF CreateQuote
  <2> HIDE DEF E
  <2> QED
    BY <1>1, <2>1, <2>2, SweepSteps
<1>7. CASE Booking
  BY <1>1, <1>6, <1>7, ConfirmationSteps, CancellationSteps, LinesSteps DEF Booking
<1>8. ASSUME NEW p \in Payments, NEW q \in Quotes, NEW w \in WalletParts, NEW t \in Clock,
             BeginOrderPayment(p, q, w, t)
      PROVE  Steps
  BY <1>1, <1>8, BeginSteps
<1>9. ASSUME NEW e \in EventRec, NEW t \in Clock, Settlement(e, t) PROVE Steps
  BY <1>9, OnTimeSteps, LateSteps, AgainSteps, FailureSteps DEF Settlement
<1>10. CASE Inventory
  BY <1>10, <1>2 DEF Inventory, OccupyCourt, RescheduleCourtOccupancy, ReleaseCourtOccupancy
<1> QED
  BY <1>3, <1>4, <1>5, <1>7, <1>8, <1>9, <1>10 DEF Next

\* expireVenueHolds, cancelUnpaidOrder, settleVerifiedPayment: an order that expired or
\* was cancelled keeps its row for ever, whatever event or command comes later.
THEOREM LostForEver == Spec => LostOrdersStayLost
<1>1. ASSUME MoneyInv, [Next]_vars
      PROVE  [\A q \in Quotes :
                Exists(q) /\ orders[q].status \in {"EXPIRED", "CANCELLED"}
                  => orders'[q] = orders[q]]_vars
  BY <1>1, EveryStep DEF Steps, OrderStep, OrderMoves
<1> QED
  BY <1>1, MoneyAlways, PTL DEF Spec, LostOrdersStayLost

\* settleVerifiedPayment, beginOrderPayment: an order is confirmed only before its hold ends,
\* by the last reading of the clock in the transaction.
THEOREM HoldsAreHonoured == Spec => ConfirmedWithinHold
<1>1. ASSUME MoneyInv, [Next]_vars
      PROVE  [\A q \in Quotes :
                IsHeld(q) /\ orders'[q].status = "CONFIRMED"
                  => now' < orders[q].holdUntil]_vars
  BY <1>1, EveryStep DEF Steps, OrderStep, OrderMoves, IsHeld
<1> QED
  BY <1>1, MoneyAlways, PTL DEF Spec, ConfirmedWithinHold

\* settleVerifiedPayment: a success is kept with its own capture, and a payment that
\* ended otherwise can only turn into money to be refunded.
THEOREM SettlementsAreFinal == Spec => SettlementIsFinal
<1>1. ASSUME MoneyInv, [Next]_vars
      PROVE  [\A p \in Payments : payments[p] # Nil =>
                /\ payments[p].status = "SUCCEEDED" => payments'[p] = payments[p]
                /\ payments[p].status \in {"FAILED", "EXPIRED", "CANCELLED"} =>
                     payments'[p].status \in {payments[p].status, "REFUND_REQUIRED"}]_vars
  BY <1>1, EveryStep DEF Steps, PaymentStep
<1> QED
  BY <1>1, MoneyAlways, PTL DEF Spec, SettlementIsFinal

\* Every update of tennis.orders increments revision with what it changes.
THEOREM RevisionsAreCurrent == Spec => RevisionCoversContent
<1>1. ASSUME MoneyInv, [Next]_vars
      PROVE  [\A q \in Quotes :
                Exists(q) /\ orders'[q] # orders[q]
                  => orders'[q].revision > orders[q].revision]_vars
  BY <1>1, EveryStep DEF Steps, OrderStep, OrderMoves
<1> QED
  BY <1>1, MoneyAlways, PTL DEF Spec, RevisionCoversContent
=============================================================================
