------------------------- MODULE Amendments_proofs -------------------------
(***************************************************************************)
(* Proofs about Amendments: no two occupancies overlap, the lines of live  *)
(* orders hold what they stand for, an amendment that waits for its        *)
(* payment keeps its order and the courts it needs, lines change only as   *)
(* agreed, the payment of an amendment succeeded exactly when the          *)
(* amendment was applied, with the whole supplement, and what can still be *)
(* refunded of an order and what was given back is what was captured.      *)
(* They hold for any number of orders, lines, amendments, payments and     *)
(* minutes.                                                                *)
(*                                                                         *)
(* About courts the inductive invariant is CourtInv.  What was quoted is   *)
(* compared with the order by its revision, so the invariant says that an  *)
(* order with the revision of a quote still has the lines that were        *)
(* quoted.  A command writes what its expiry of due holds leaves and, on   *)
(* top of it, a few orders and amendments: SweepStep reduces it to those.  *)
(* About payments the invariant is PaymentInv, about money MoneyInv.       *)
(***************************************************************************)
EXTENDS Amendments, TennisCents_proofs

(***************************************************************************)
(* The inductive invariant.                                                *)
(***************************************************************************)
OrderRow(r) == DOMAIN r = {"status", "paid", "holdUntil", "revision", "returned"} /\ r.revision \in Nat

LineRow(r) == DOMAIN r = {"slot", "cents", "state", "left"} /\ r.slot \in Slots

AmendmentRow(m) ==
  /\ DOMAIN m = {"order", "base", "unpaid", "status", "expiresAt", "holdUntil",
                 "supplement", "changes"}
  /\ m.status \in {"QUOTED", "AWAITING_PAYMENT", "APPLIED", "CANCELLED", "EXPIRED"}
  /\ m.order \in Orders /\ m.base \in Nat
  /\ DOMAIN m.changes \subseteq LinesOf(m.order)
  /\ \A l \in DOMAIN m.changes : m.changes[l].old \in Slots /\ m.changes[l].new \in Slots

IsInterval(s) == s.start \in Nat /\ s.end \in Nat /\ s.start < s.end

LiveRow(u) ==
  /\ u = [kind |-> u.kind, source |-> u.source, slot |-> u.slot]
  /\ u.kind \in {"LINE", "STAGED", "MANUAL"}
  /\ u.kind = "LINE" => u.source \in Lines
  /\ u.kind = "STAGED" => u.source \in Amendments
  /\ IsInterval(u.slot)

RowsFit ==
  /\ DOMAIN orders = Orders /\ \A o \in Orders : OrderRow(orders[o])
  /\ DOMAIN lines = Lines /\ \A l \in Lines : LineRow(lines[l])
  /\ DOMAIN amendments = Amendments
  /\ \A u \in live : LiveRow(u)

Disjoint(occupied) == \A u, v \in occupied : u # v => ~Overlap(u.slot, v.slot)

Alive(o) == orders[o].status \in {"HELD", "CONFIRMED"}

\* The active lines of an order that lives hold their courts, and nothing else.
CourtsOf(o) ==
  /\ \A u \in live : u.kind = "LINE" /\ OrderOf[u.source] = o =>
       Alive(o) /\ u.source \in ActiveLines(o) /\ u.slot = lines[u.source].slot
  /\ Alive(o) => \A l \in ActiveLines(o) : Line(l, lines[l].slot) \in live

StagedAwaits == \A u \in live : u.kind = "STAGED" => IsAwaiting(u.source)

\* What is quoted is of the present order, or the order has a later revision.
QuoteFits(a) ==
  LET m == amendments[a] IN
  m # NoRow =>
    /\ AmendmentRow(m)
    /\ m.unpaid => m.supplement = 0
    /\ m.base <= orders[m.order].revision
    /\ m.status \in {"QUOTED", "AWAITING_PAYMENT"} /\ m.base = orders[m.order].revision =>
         /\ ~m.unpaid => orders[m.order].status = "CONFIRMED"
         /\ \A l \in DOMAIN m.changes :
              lines[l].state = "ACTIVE" /\ m.changes[l].old = lines[l].slot

\* The courts a needs are covered by what it staged and the lines that move.
CourtsHeld(a) ==
  \A l \in DOMAIN amendments[a].changes :
    Covered(amendments[a].changes[l].new, Own(a, amendments[a].changes) \cap live)

\* What waits is of the present order, alone, and holds its courts.
WaitFits(a) ==
  LET m == amendments[a] IN
  IsAwaiting(a) =>
    /\ orders[m.order].status = "CONFIRMED" /\ orders[m.order].revision = m.base
    /\ m.supplement > 0
    /\ \A b \in Amendments : IsAwaiting(b) /\ amendments[b].order = m.order => b = a
    /\ CourtsHeld(a)

\* A payment of an order that is not settled yet holds the order, and the payment
\* of an amendment is of the amendment's order.
PaymentRow(r) ==
  /\ DOMAIN r = {"order", "amendment", "external", "wallet", "status", "reserve"}
  /\ r.order \in Orders /\ r.amendment \in Amendments \cup {Nil}

PaymentFits(p) ==
  LET r == payments[p] IN
  r # NoRow =>
    /\ PaymentRow(r)
    /\ r.amendment # Nil => /\ amendments[r.amendment] # NoRow
                           /\ amendments[r.amendment].order = r.order
    /\ r.status = "PENDING" /\ r.amendment = Nil => IsHeld(r.order)

CourtInv ==
  /\ RowsFit /\ Disjoint(live) /\ StagedAwaits
  /\ \A o \in Orders : CourtsOf(o)
  /\ \A a \in Amendments : QuoteFits(a) /\ WaitFits(a)

(***************************************************************************)
(* What a step does to an order.                                           *)
(***************************************************************************)
OrderStays(o) ==
  /\ orders'[o] = orders[o]
  /\ \A l \in LinesOf(o) : lines'[l] = lines[l]
  /\ \A u \in live \cup live' : u.kind = "LINE" /\ OrderOf[u.source] = o =>
       (u \in live' <=> u \in live)

\* It gets a later revision, and no amendment of it waits then.
OrderChanges(o) ==
  /\ OrderRow(orders'[o]) /\ orders'[o].revision > orders[o].revision
  /\ \A l \in LinesOf(o) : LineRow(lines'[l])
  /\ CourtsOf(o)'
  /\ \A a \in Amendments : IsAwaiting(a)' => amendments'[a].order # o

(***************************************************************************)
(* Rows after what was due has expired.                                    *)
(***************************************************************************)
LEMMA EndedRow ==
  ASSUME NEW a \in Amendments, amendments[a] # NoRow, AmendmentRow(amendments[a]),
         NEW status \in {"APPLIED", "CANCELLED", "EXPIRED"},
         amendments[a].status \in {"QUOTED", "AWAITING_PAYMENT"}
  PROVE  LET m == amendments[a]
             e == EndedAmendment(a, status)
         IN /\ e # NoRow /\ AmendmentRow(e) /\ e.status = status
            /\ e.order = m.order /\ e.base = m.base /\ e.unpaid = m.unpaid
            /\ e.supplement = m.supplement /\ e.changes = m.changes
<1> DEFINE m == amendments[a]
           e == EndedAmendment(a, status)
<1>1. e = [m EXCEPT !.status = status, !.holdUntil = 0]
  BY DEF EndedAmendment
<1>2. DOMAIN m = {"order", "base", "unpaid", "status", "expiresAt", "holdUntil",
                  "supplement", "changes"}
  BY DEF AmendmentRow
<1>3. /\ e.status = status /\ e.order = m.order /\ e.base = m.base /\ e.unpaid = m.unpaid
      /\ e.supplement = m.supplement /\ e.changes = m.changes /\ DOMAIN e = DOMAIN m
  BY <1>1, <1>2
<1>4. e # NoRow
  BY <1>3 DEF NoRow
<1> HIDE DEF e
<1>5. AmendmentRow(e)
  BY <1>2, <1>3 DEF AmendmentRow
<1> QED
  BY <1>3, <1>4, <1>5 DEF e

LEMMA ExpiredOrder ==
  ASSUME RowsFit, NEW Q, NEW o \in Orders
  PROVE  /\ o \notin Q => OrdersAfter(Q)[o] = orders[o]
         /\ o \in Q => /\ OrderRow(OrdersAfter(Q)[o])
                       /\ OrdersAfter(Q)[o].status = "EXPIRED"
                       /\ OrdersAfter(Q)[o].revision > orders[o].revision
<1>1. CASE o \in Q
  <2>1. OrdersAfter(Q)[o] = [orders[o] EXCEPT !.status = "EXPIRED", !.holdUntil = 0,
                                              !.revision = @ + 1]
    BY <1>1 DEF OrdersAfter
  <2>2. OrderRow(orders[o])
    BY DEF RowsFit
  <2> QED
    BY <1>1, <2>1, <2>2 DEF OrderRow
<1>2. CASE o \notin Q
  BY <1>2 DEF OrdersAfter
<1> QED
  BY <1>1, <1>2

LEMMA ExpiredAmendment ==
  ASSUME CourtInv, NEW E, E \subseteq {x \in Amendments : IsAwaiting(x)}, NEW a \in Amendments
  PROVE  LET m == amendments[a]
             e == AmendmentsAfter(E)[a]
         IN /\ a \notin E => e = m
            /\ a \in E => /\ e # NoRow /\ AmendmentRow(e) /\ e.status = "EXPIRED"
                          /\ e.order = m.order /\ e.base = m.base /\ e.unpaid = m.unpaid
                          /\ e.supplement = m.supplement /\ e.changes = m.changes
<1>1. CASE a \in E
  <2>1. AmendmentsAfter(E)[a] = EndedAmendment(a, "EXPIRED")
    BY <1>1 DEF AmendmentsAfter
  <2>2. amendments[a] # NoRow /\ amendments[a].status = "AWAITING_PAYMENT"
    BY <1>1 DEF IsAwaiting
  <2>3. AmendmentRow(amendments[a])
    BY <2>2 DEF CourtInv, QuoteFits
  <2> QED
    BY <1>1, <2>1, <2>2, <2>3, EndedRow
<1>2. CASE a \notin E
  BY <1>2 DEF AmendmentsAfter
<1> QED
  BY <1>1, <1>2

LEMMA DueAreHeld ==
  /\ \A t : DueAmendments(t) \subseteq {x \in Amendments : IsAwaiting(x)}
  /\ \A t : DueOrders(t) \subseteq {x \in Orders : orders[x].status = "HELD"}
BY DEF DueAmendments, DueOrders

LEMMA CoveredByMore ==
  ASSUME NEW s, NEW X, NEW Y, X \subseteq Y, Covered(s, X)
  PROVE  Covered(s, Y)
BY DEF Covered

(***************************************************************************)
(* A command: what is due expires, and the orders O and amendments A are   *)
(* written beside that.                                                    *)
(***************************************************************************)
\* What the rest of the rows look like after the command.
Swept(E, Q, O, A) ==
  /\ DOMAIN orders' = Orders /\ DOMAIN lines' = Lines /\ DOMAIN amendments' = Amendments
  /\ \A o \in Orders \ O : orders'[o] = OrdersAfter(Q)[o]
  /\ \A l \in Lines : OrderOf[l] \notin O => lines'[l] = lines[l]
  /\ \A a \in Amendments \ A : amendments'[a] = AmendmentsAfter(E)[a]
  /\ \A u \in live \cup live' : u.kind = "LINE" /\ OrderOf[u.source] \notin O =>
       (u \in live' <=> u \in LiveAfter(E, Q))
  /\ \A u \in live \cup live' : u.kind = "STAGED" /\ u.source \notin A =>
       (u \in live' <=> u \in LiveAfter(E, Q))

LEMMA SweepStep ==
  ASSUME CourtInv,
         NEW E, E \subseteq {x \in Amendments : IsAwaiting(x)},
         NEW Q, Q \subseteq {x \in Orders : orders[x].status = "HELD"},
         NEW O \in SUBSET Orders, NEW A \in SUBSET Amendments,
         Swept(E, Q, O, A),
         \A u \in live' : LiveRow(u), Disjoint(live)',
         \A o \in O : OrderStays(o) \/ OrderChanges(o),
         \A a \in A : /\ QuoteFits(a)' /\ WaitFits(a)'
                      /\ \A u \in live' : u.kind = "STAGED" /\ u.source = a => IsAwaiting(a)'
  PROVE  CourtInv'
<1>1. \A a \in Amendments \ E : AmendmentsAfter(E)[a] = amendments[a]
  BY ExpiredAmendment
<1>2. \A a \in E : AmendmentsAfter(E)[a] # NoRow /\ AmendmentsAfter(E)[a].status = "EXPIRED"
  BY ExpiredAmendment
<1>3. ASSUME NEW a \in Amendments \ A, IsAwaiting(a)'
      PROVE  IsAwaiting(a) /\ a \notin E /\ amendments'[a] = amendments[a]
  BY <1>1, <1>2, <1>3 DEF Swept, IsAwaiting
<1>4. ASSUME NEW o \in Orders PROVE OrderStays(o) \/ OrderChanges(o)
  <2>1. CASE o \in O
    BY <2>1
  <2>2. CASE o \notin O /\ o \in Q
    <3>1. orders'[o] = OrdersAfter(Q)[o]
      BY <2>2 DEF Swept
    <3>2. /\ OrderRow(orders'[o]) /\ orders'[o].status = "EXPIRED"
          /\ orders'[o].revision > orders[o].revision
      BY <2>2, <3>1, ExpiredOrder DEF CourtInv
    <3>3. \A l \in LinesOf(o) : lines'[l] = lines[l] /\ LineRow(lines'[l])
      BY <2>2 DEF Swept, LinesOf, CourtInv, RowsFit
    <3>4. \A u \in live' : u.kind = "LINE" => OrderOf[u.source] # o
      BY <2>2 DEF Swept, LiveAfter
    <3>5. CourtsOf(o)'
      BY <3>2, <3>4 DEF CourtsOf, Alive
    <3>6. ASSUME NEW a \in Amendments, IsAwaiting(a)' PROVE amendments'[a].order # o
      <4>1. CASE a \in A
        BY <4>1, <3>2, <3>6 DEF WaitFits
      <4>2. CASE a \notin A
        <5>1. IsAwaiting(a) /\ amendments'[a] = amendments[a]
          BY <4>2, <3>6, <1>3
        <5>2. orders[amendments[a].order].status = "CONFIRMED"
          BY <5>1 DEF CourtInv, WaitFits
        <5> QED
          BY <5>1, <5>2, <2>2
      <4> QED
        BY <4>1, <4>2
    <3> QED
      BY <3>2, <3>3, <3>5, <3>6 DEF OrderChanges
  <2>3. CASE o \notin O /\ o \notin Q
    <3>1. orders'[o] = orders[o]
      BY <2>3, ExpiredOrder DEF Swept, CourtInv
    <3>2. \A l \in LinesOf(o) : lines'[l] = lines[l]
      BY <2>3 DEF Swept, LinesOf
    <3>3. \A u \in live \cup live' : u.kind = "LINE" /\ OrderOf[u.source] = o =>
            (u \in live' <=> u \in live)
      BY <2>3 DEF Swept, LiveAfter
    <3> QED
      BY <3>1, <3>2, <3>3 DEF OrderStays
  <2> QED
    BY <2>1, <2>2, <2>3
<1>5. RowsFit'
  <2>1. \A o \in Orders : OrderRow(orders'[o])
    BY <1>4 DEF OrderStays, OrderChanges, CourtInv, RowsFit
  <2>2. \A l \in Lines : LineRow(lines'[l])
    <3> SUFFICES ASSUME NEW l \in Lines PROVE LineRow(lines'[l])
      OBVIOUS
    <3>1. OrderOf[l] \in Orders /\ l \in LinesOf(OrderOf[l])
      BY BookingsAssumption DEF LinesOf
    <3> QED
      BY <1>4, <3>1 DEF OrderStays, OrderChanges, CourtInv, RowsFit
  <2> QED
    BY <2>1, <2>2 DEF RowsFit, Swept
<1>6. ASSUME NEW o \in Orders PROVE CourtsOf(o)'
  <2>1. CASE OrderStays(o)
    <3>1. CourtsOf(o)
      BY DEF CourtInv
    <3>2. /\ orders'[o] = orders[o]
          /\ \A l \in LinesOf(o) : lines'[l] = lines[l]
          /\ \A u \in live \cup live' : u.kind = "LINE" /\ OrderOf[u.source] = o =>
               (u \in live' <=> u \in live)
      BY <2>1 DEF OrderStays
    <3>3. ActiveLines(o)' = ActiveLines(o)
      BY <3>2 DEF ActiveLines
    <3>4. ActiveLines(o) \subseteq LinesOf(o)
      BY DEF ActiveLines
    <3>5. Alive(o)' <=> Alive(o)
      BY <3>2 DEF Alive
    <3>6. ASSUME NEW u \in live', u.kind = "LINE", OrderOf[u.source] = o
          PROVE  Alive(o)' /\ u.source \in ActiveLines(o)' /\ u.slot = lines'[u.source].slot
      BY <3>1, <3>2, <3>3, <3>4, <3>5, <3>6 DEF CourtsOf
    <3>7. ASSUME Alive(o)', NEW l \in ActiveLines(o)'
          PROVE  Line(l, lines'[l].slot) \in live'
      <4>1. Line(l, lines[l].slot) \in live /\ lines'[l] = lines[l]
        BY <3>1, <3>2, <3>3, <3>4, <3>5, <3>7 DEF CourtsOf
      <4>2. Line(l, lines[l].slot).kind = "LINE" /\ OrderOf[Line(l, lines[l].slot).source] = o
        BY <3>3, <3>7 DEF Line, ActiveLines, LinesOf
      <4> QED
        BY <4>1, <4>2, <3>2
    <3> QED
      BY <3>6, <3>7 DEF CourtsOf
  <2> QED
    BY <1>4, <2>1 DEF OrderChanges
<1>7. StagedAwaits'
  <2> SUFFICES ASSUME NEW u \in live', u.kind = "STAGED" PROVE IsAwaiting(u.source)'
    BY DEF StagedAwaits
  <2>1. u.source \in Amendments
    BY DEF LiveRow
  <2>2. CASE u.source \in A
    BY <2>2
  <2>3. CASE u.source \notin A
    <3>1. u \in live /\ u.source \notin E
      BY <2>3 DEF Swept, LiveAfter
    <3>2. amendments'[u.source] = amendments[u.source]
      BY <1>1, <2>1, <2>3, <3>1 DEF Swept
    <3> QED
      BY <3>1, <3>2 DEF CourtInv, StagedAwaits, IsAwaiting
  <2> QED
    BY <2>2, <2>3
<1>8. ASSUME NEW a \in Amendments PROVE QuoteFits(a)'
  <2>1. CASE a \in A
    BY <2>1
  <2>2. CASE a \notin A /\ a \in E
    <3> DEFINE m == amendments[a]
               e == amendments'[a]
    <3>1. e = AmendmentsAfter(E)[a]
      BY <2>2 DEF Swept
    <3>2. /\ AmendmentRow(e) /\ e.status = "EXPIRED"
          /\ e.order = m.order /\ e.base = m.base /\ e.unpaid = m.unpaid
          /\ e.supplement = m.supplement
      BY <2>2, <3>1, ExpiredAmendment
    <3>3. m # NoRow
      BY <2>2 DEF IsAwaiting
    <3>4. AmendmentRow(m) /\ (m.unpaid => m.supplement = 0) /\ m.base <= orders[m.order].revision
      BY <3>3 DEF CourtInv, QuoteFits
    <3>5. m.order \in Orders /\ m.base \in Nat
      BY <3>4 DEF AmendmentRow
    <3>6. orders'[m.order] = orders[m.order] \/ orders'[m.order].revision > orders[m.order].revision
      BY <1>4, <3>5 DEF OrderStays, OrderChanges
    <3>7. orders[m.order].revision \in Nat /\ orders'[m.order].revision \in Nat
      BY <1>5, <3>5 DEF CourtInv, RowsFit, OrderRow
    <3>8. m.base <= orders'[m.order].revision
      BY <3>4, <3>5, <3>6, <3>7
    <3> HIDE DEF m, e
    <3>9. e.base <= orders'[e.order].revision /\ (e.unpaid => e.supplement = 0)
      BY <3>2, <3>4, <3>8
    <3> QED
      BY <3>2, <3>9 DEF QuoteFits, e
  <2>3. CASE a \notin A /\ a \notin E
    <3> DEFINE m == amendments[a]
               o == m.order
    <3>1. amendments'[a] = m
      BY <1>1, <2>3 DEF Swept
    <3>2. CASE m = NoRow
      BY <3>1, <3>2 DEF QuoteFits
    <3>3. CASE m # NoRow
      <4>1. /\ AmendmentRow(m) /\ (m.unpaid => m.supplement = 0) /\ m.base <= orders[o].revision
            /\ m.status \in {"QUOTED", "AWAITING_PAYMENT"} /\ m.base = orders[o].revision =>
                 /\ ~m.unpaid => orders[o].status = "CONFIRMED"
                 /\ \A l \in DOMAIN m.changes :
                      lines[l].state = "ACTIVE" /\ m.changes[l].old = lines[l].slot
        BY <3>3 DEF CourtInv, QuoteFits
      <4>2. o \in Orders /\ m.base \in Nat /\ DOMAIN m.changes \subseteq LinesOf(o)
        BY <4>1 DEF AmendmentRow
      <4>3. orders[o].revision \in Nat /\ orders'[o].revision \in Nat
        BY <1>5, <4>2 DEF CourtInv, RowsFit, OrderRow
      <4> HIDE DEF m, o
      <4>4. CASE OrderStays(o)
        <5>1. /\ orders'[o] = orders[o]
              /\ \A l \in DOMAIN m.changes : lines'[l] = lines[l]
          BY <4>2, <4>4 DEF OrderStays
        <5> QED
          BY <3>1, <4>1, <5>1 DEF QuoteFits, o
      <4>5. CASE OrderChanges(o)
        <5>1. orders'[o].revision > orders[o].revision
          BY <4>5 DEF OrderChanges
        <5>2. m.base <= orders'[o].revision /\ m.base # orders'[o].revision
          BY <4>1, <4>2, <4>3, <5>1
        <5> QED
          BY <3>1, <4>1, <5>2 DEF QuoteFits, o
      <4> QED
        BY <1>4, <4>2, <4>4, <4>5
    <3> QED
      BY <3>2, <3>3
  <2> QED
    BY <2>1, <2>2, <2>3
<1>9. ASSUME NEW a \in Amendments PROVE WaitFits(a)'
  <2>1. CASE a \in A
    BY <2>1
  <2>2. CASE a \notin A
    <3> SUFFICES ASSUME IsAwaiting(a)' PROVE WaitFits(a)'
      BY DEF WaitFits
    <3> DEFINE m == amendments[a]
               o == m.order
    <3>1. IsAwaiting(a) /\ a \notin E /\ amendments'[a] = m
      BY <1>3, <2>2
    <3>2. /\ orders[o].status = "CONFIRMED" /\ orders[o].revision = m.base /\ m.supplement > 0
          /\ \A b \in Amendments : IsAwaiting(b) /\ amendments[b].order = o => b = a
          /\ CourtsHeld(a)
      BY <3>1 DEF CourtInv, WaitFits
    <3>3. o \in Orders /\ DOMAIN m.changes \subseteq LinesOf(o)
      BY <3>1 DEF CourtInv, QuoteFits, AmendmentRow, IsAwaiting
    <3>4. OrderStays(o)
      BY <1>4, <3>1, <3>3 DEF OrderChanges
    <3>5. orders'[o] = orders[o]
      BY <3>4 DEF OrderStays
    <3>6. ASSUME NEW b \in Amendments, IsAwaiting(b)', amendments'[b].order = o
          PROVE  b = a
      <4>1. CASE b \in A
        BY <4>1, <3>1, <3>6 DEF WaitFits
      <4>2. CASE b \notin A
        BY <4>2, <1>3, <3>2, <3>6
      <4> QED
        BY <4>1, <4>2
    <3>7. Own(a, m.changes) \cap live \subseteq (Own(a, m.changes) \cap live)'
      <4> SUFFICES ASSUME NEW u \in Own(a, m.changes) \cap live
                   PROVE  u \in Own(a, m.changes)' /\ u \in live'
        OBVIOUS
      <4>1. CASE u \in {Line(l, m.changes[l].old) : l \in DOMAIN m.changes}
        <5>1. PICK l \in DOMAIN m.changes : u = Line(l, m.changes[l].old)
          BY <4>1
        <5>2. u.kind = "LINE" /\ OrderOf[u.source] = o
          BY <5>1, <3>3 DEF Line, LinesOf
        <5>3. u \in live'
          BY <3>4, <5>2 DEF OrderStays
        <5> QED
          BY <3>1, <4>1, <5>3 DEF Own
      <4>2. CASE u.kind = "STAGED" /\ u.source = a
        <5>1. u \in LiveAfter(E, Q)
          BY <3>1, <4>2 DEF LiveAfter
        <5>2. u \in live'
          BY <2>2, <4>2, <5>1 DEF Swept
        <5> QED
          BY <4>2, <5>2 DEF Own
      <4> QED
        BY <4>1, <4>2 DEF Own
    <3>8. CourtsHeld(a)'
      BY <3>1, <3>2, <3>7, CoveredByMore DEF CourtsHeld
    <3> QED
      BY <3>1, <3>2, <3>5, <3>6, <3>8 DEF WaitFits
  <2> QED
    BY <2>1, <2>2
<1> QED
  BY <1>5, <1>6, <1>7, <1>8, <1>9 DEF CourtInv

(***************************************************************************)
(* Occupancies.                                                            *)
(***************************************************************************)
LEMMA SlotsAreIntervals == \A s \in Slots : IsInterval(s)
<1> SUFFICES ASSUME NEW f \in Offers PROVE IsInterval(f.slot)
  BY DEF Slots
<1>1. f.slot \in [court: {g.slot.court : g \in Offers}, start: Nat, end: Nat]
  BY CatalogAssumption
<1>2. f.slot.start < f.slot.end
  BY CatalogAssumption DEF Slots
<1> QED
  BY <1>1, <1>2 DEF IsInterval

LEMMA OverlapCommutes ==
  ASSUME NEW i, NEW j, IsInterval(i), IsInterval(j), Overlap(i, j)
  PROVE  Overlap(j, i)
BY DEF Overlap, IsInterval

Within(i, s) ==
  IsInterval(i) /\ IsInterval(s) /\ i.court = s.court /\ s.start <= i.start /\ i.end <= s.end

LEMMA OverlapWithin ==
  ASSUME NEW i, NEW s, NEW j, NEW r, Within(i, s), Within(j, r), Overlap(i, j)
  PROVE  Overlap(s, r)
BY DEF Within, Overlap, IsInterval

LEMMA LiveAfterShrinks ==
  ASSUME CourtInv, NEW E, NEW Q
  PROVE  LiveAfter(E, Q) \subseteq live /\ Disjoint(LiveAfter(E, Q))
BY DEF LiveAfter, CourtInv, Disjoint

(***************************************************************************)
(* An amendment that takes effect.                                         *)
(***************************************************************************)
LEMMA AppliedOrder ==
  ASSUME CourtInv, NEW a \in Amendments, amendments[a] # NoRow,
         NEW approved, NEW pays
  PROVE  LET o == amendments[a].order
             r == OrderApplied(a, approved, pays)
         IN /\ OrderRow(r) /\ r.revision > orders[o].revision
            /\ ~amendments[a].unpaid => r.status = orders[o].status
            /\ amendments[a].unpaid =>
                 \/ r.status \in {"HELD", "CONFIRMED"}
                 \/ /\ r.status = "CANCELLED"
                    /\ {l \in LinesOf(o) : LinesApplied(a, approved)[l].state = "ACTIVE"} = {}
<1> DEFINE o == amendments[a].order
           r == OrderApplied(a, approved, pays)
<1>1. OrderRow(orders[o])
  BY DEF CourtInv, RowsFit, QuoteFits, AmendmentRow
<1>2. /\ DOMAIN orders[o] = {"status", "paid", "holdUntil", "revision", "returned"}
      /\ orders[o].revision \in Nat
  BY <1>1 DEF OrderRow
<1>3. CASE amendments[a].unpaid
  <2> DEFINE rows == LinesApplied(a, approved)
  <2>1. r = RefreshedUnpaid(o, rows)
    BY <1>3 DEF OrderApplied
  <2> HIDE DEF r, rows, o
  <2>2. /\ DOMAIN r = DOMAIN orders[o] /\ r.revision = orders[o].revision + 1
        /\ \/ r.status \in {"HELD", "CONFIRMED"}
           \/ r.status = "CANCELLED" /\ {l \in LinesOf(o) : rows[l].state = "ACTIVE"} = {}
    <3> DEFINE active == {l \in LinesOf(o) : rows[l].state = "ACTIVE"}
               free   == TotalOf(o, rows) = 0
               status == IF active = {} THEN "CANCELLED" ELSE IF free THEN "CONFIRMED" ELSE "HELD"
               paid   == IF active # {} /\ free THEN "NOT_REQUIRED" ELSE "UNPAID"
               hold   == IF active = {} \/ free THEN 0 ELSE orders[o].holdUntil
    <3>1. r = [orders[o] EXCEPT !.status = status, !.paid = paid, !.holdUntil = hold,
                                !.revision = @ + 1]
      BY <2>1, <1>2 DEF RefreshedUnpaid
    <3>2. \/ status \in {"HELD", "CONFIRMED"}
          \/ status = "CANCELLED" /\ active = {}
      OBVIOUS
    <3> HIDE DEF status, paid, hold
    <3> QED
      BY <1>2, <3>1, <3>2
  <2>3. OrderRow(r) /\ r.revision > orders[o].revision
    BY <1>2, <2>2 DEF OrderRow
  <2> QED
    BY <1>3, <2>2, <2>3 DEF r, rows, o
<1>4. CASE ~amendments[a].unpaid
  <2> DEFINE more == IF SumOf(approved) > 0 THEN 2 ELSE 1
             back == SumOf(approved)
             paid == CASE Captured(o, pays) > 0 -> "SETTLED"
                       [] Captured(o, pays) = 0 /\ TotalOf(o, LinesApplied(a, approved)) = 0
                            -> "NOT_REQUIRED"
                       [] OTHER -> "UNPAID"
  <2>1. r = [orders[o] EXCEPT !.revision = @ + more, !.returned = @ + back, !.paid = paid]
    BY <1>4 DEF OrderApplied
  <2>2. more \in Nat \ {0}
    OBVIOUS
  <2> HIDE DEF r, more, back, paid, o
  <2>3. /\ DOMAIN r = DOMAIN orders[o] /\ r.revision = orders[o].revision + more
        /\ r.status = orders[o].status
    BY <1>2, <2>1
  <2>4. OrderRow(r) /\ r.revision > orders[o].revision
    BY <1>2, <2>2, <2>3 DEF OrderRow
  <2> QED
    BY <1>4, <2>3, <2>4 DEF r, o
<1> QED
  BY <1>3, <1>4

LEMMA AppliedAmendment ==
  ASSUME CourtInv, NEW E, NEW Q, NEW a \in Amendments, NEW t, NEW approved, NEW pays,
         amendments[a] # NoRow, Applicable(a, pays, E, Q, t), Apply(a, approved, pays, E, Q)
  PROVE  LET m == amendments[a]
             e == amendments'[a]
         IN /\ e # NoRow /\ AmendmentRow(e) /\ e.status = "APPLIED"
            /\ e.order = m.order /\ e.base = m.base /\ e.unpaid = m.unpaid
            /\ e.supplement = m.supplement
<1> DEFINE m == amendments[a]
<1>1. a \notin E /\ m.status \in {"QUOTED", "AWAITING_PAYMENT"}
  BY DEF Applicable
<1>2. AmendmentsAfter(E)[a] = m /\ DOMAIN AmendmentsAfter(E) = Amendments
  BY <1>1 DEF AmendmentsAfter
<1>3. amendments'[a] = [m EXCEPT !.status = "APPLIED", !.holdUntil = 0]
  BY <1>2 DEF Apply
<1>4. amendments'[a] = EndedAmendment(a, "APPLIED")
  BY <1>1, <1>3 DEF EndedAmendment
<1>5. AmendmentRow(m)
  BY DEF CourtInv, QuoteFits
<1> QED
  BY <1>1, <1>4, <1>5, EndedRow

LEMMA ApplyStep ==
  ASSUME CourtInv,
         NEW E, E \subseteq {x \in Amendments : IsAwaiting(x)},
         NEW Q, Q \subseteq {x \in Orders : orders[x].status = "HELD"},
         NEW a \in Amendments, NEW t, NEW approved, NEW pays,
         amendments[a] # NoRow, amendments[a].order \notin Q,
         Applicable(a, pays, E, Q, t), Apply(a, approved, pays, E, Q),
         \A b \in Amendments \ (E \cup {a}) :
           IsAwaiting(b) => amendments[b].order # amendments[a].order
  PROVE  CourtInv'
<1> SUFFICES ASSUME NEW o, o = amendments[a].order PROVE CourtInv'
  OBVIOUS
<1> DEFINE m == amendments[a]
           C == m.changes
           D == DOMAIN m.changes
<1>1. /\ AmendmentRow(m) /\ (m.unpaid => m.supplement = 0) /\ m.base <= orders[o].revision
      /\ \A u \in live : LiveRow(u)
      /\ DOMAIN lines = Lines /\ DOMAIN orders = Orders /\ DOMAIN amendments = Amendments
  BY DEF CourtInv, QuoteFits, RowsFit
<1>2. o \in Orders /\ D \subseteq LinesOf(o) /\ D \subseteq Lines
  BY <1>1 DEF AmendmentRow, LinesOf
<1>3. /\ a \notin E /\ m.status \in {"QUOTED", "AWAITING_PAYMENT"} /\ orders[o].revision = m.base
      /\ m.unpaid => orders[o].status = "HELD"
      /\ ~m.unpaid => orders[o].status = "CONFIRMED"
      /\ TargetsFree(a, o, C, LiveAfter(E, Q), t)
      /\ \A l \in D : Line(l, C[l].old) \in live
  BY DEF Applicable, UnpaidEditable, IsHeld
<1>4. /\ lines' = LinesApplied(a, approved) /\ live' = LiveApplied(a, E, Q)
      /\ orders' = [OrdersAfter(Q) EXCEPT ![o] = OrderApplied(a, approved, pays)]
      /\ amendments' = [AmendmentsAfter(E) EXCEPT ![a].status = "APPLIED", ![a].holdUntil = 0]
  BY DEF Apply
<1>5. /\ \A l \in Lines : LineRow(lines[l]) /\ IsInterval(lines[l].slot)
      /\ \A l \in D : /\ C[l].old \in Slots /\ IsInterval(C[l].old)
                      /\ C[l].new \in Slots /\ IsInterval(C[l].new)
  BY <1>1, SlotsAreIntervals DEF CourtInv, RowsFit, LineRow, AmendmentRow
<1>6. \A l \in D : l \in ActiveLines(o) /\ C[l].old = lines[l].slot /\ lines[l].state = "ACTIVE"
  <2> SUFFICES ASSUME NEW l \in D PROVE l \in ActiveLines(o) /\ C[l].old = lines[l].slot
    BY DEF ActiveLines
  <2>1. Line(l, C[l].old) \in live
    BY <1>3
  <2>2. /\ Line(l, C[l].old).kind = "LINE" /\ Line(l, C[l].old).source = l
        /\ Line(l, C[l].old).slot = C[l].old
    BY DEF Line
  <2>3. OrderOf[l] = o
    BY <1>2 DEF LinesOf
  <2> QED
    BY <1>2, <2>1, <2>2, <2>3 DEF CourtInv, CourtsOf
<1>7. /\ DOMAIN lines' = Lines
      /\ \A l \in Lines \ D : lines'[l] = lines[l]
      /\ \A l \in D : /\ LineRow(lines'[l])
                      /\ lines'[l].slot = C[l].new /\ lines'[l].state = "ACTIVE"
  <2>1. \A l \in Lines \ D : lines'[l] = lines[l]
    BY <1>4 DEF LinesApplied
  <2>2. ASSUME NEW l \in D
        PROVE  /\ LineRow(lines'[l])
               /\ lines'[l].slot = C[l].new /\ lines'[l].state = "ACTIVE"
    <3> DEFINE left == IF m.unpaid THEN C[l].cents ELSE lines[l].left + C[l].delta - approved[l]
    <3>1. DOMAIN lines[l] = {"slot", "cents", "state", "left"}
      BY <1>2, <1>5 DEF LineRow
    <3>2. lines'[l] = [lines[l] EXCEPT !.slot = C[l].new, !.cents = C[l].cents, !.left = left]
      BY <1>2, <1>4, <3>1 DEF LinesApplied
    <3> HIDE DEF left
    <3>3. /\ DOMAIN lines'[l] = {"slot", "cents", "state", "left"}
          /\ lines'[l].slot = C[l].new /\ lines'[l].state = lines[l].state
      BY <3>1, <3>2
    <3> QED
      BY <1>5, <1>6, <3>3 DEF LineRow
  <2> QED
    BY <1>4, <2>1, <2>2 DEF LinesApplied
<1>8. ASSUME NEW u \in live'
      PROVE  \/ u \in LiveAfter(E, Q) /\ u \in live /\ u \notin Own(a, C)
             \/ \E l \in D : u = Line(l, C[l].new)
  BY <1>4, LiveAfterShrinks DEF LiveApplied
<1>9. \A l \in D : /\ Line(l, C[l].new) \in live'
                   /\ Line(l, C[l].new).kind = "LINE" /\ Line(l, C[l].new).source = l
                   /\ Line(l, C[l].new).slot = C[l].new /\ LiveRow(Line(l, C[l].new))
  BY <1>2, <1>4, <1>5 DEF LiveApplied, Line, LiveRow
<1>10. \A u \in live : u \in LiveAfter(E, Q) /\ u \notin Own(a, C) => u \in live'
  BY <1>4 DEF LiveApplied
<1>11. \A u \in live : u.kind = "LINE" => (u \in Own(a, C) <=> u.source \in D)
  <2> SUFFICES ASSUME NEW u \in live, u.kind = "LINE"
               PROVE  u \in Own(a, C) <=> u.source \in D
    OBVIOUS
  <2>1. ASSUME u \in Own(a, C) PROVE u.source \in D
    BY <2>1 DEF Own, Line
  <2>2. ASSUME u.source \in D PROVE u \in Own(a, C)
    <3>1. OrderOf[u.source] = o
      BY <1>2, <2>2 DEF LinesOf
    <3>2. u.slot = C[u.source].old
      BY <1>2, <1>6, <2>2, <3>1 DEF CourtInv, CourtsOf
    <3>3. u = Line(u.source, C[u.source].old)
      BY <1>1, <3>2 DEF LiveRow, Line
    <3> QED
      BY <2>2, <3>3 DEF Own
  <2> QED
    BY <2>1, <2>2
<1>12. \A u \in live' : LiveRow(u)
  BY <1>1, <1>8, <1>9
<1>13. Disjoint(live)'
  <2> SUFFICES ASSUME NEW u \in live', NEW v \in live', u # v PROVE ~Overlap(u.slot, v.slot)
    BY DEF Disjoint, Overlap
  <2>1. \A w \in LiveAfter(E, Q) : w \notin Own(a, C) =>
          \A l \in D : ~Overlap(C[l].new, w.slot)
    BY <1>3 DEF TargetsFree
  <2>2. \A w \in live' : IsInterval(w.slot)
    BY <1>12 DEF LiveRow
  <2>3. CASE u \in live /\ v \in live /\ u \in LiveAfter(E, Q) /\ v \in LiveAfter(E, Q)
    BY <2>3 DEF CourtInv, Disjoint
  <2>4. CASE /\ u \in LiveAfter(E, Q) /\ u \notin Own(a, C)
             /\ \E l \in D : v = Line(l, C[l].new)
    BY <1>9, <2>1, <2>2, <2>4, OverlapCommutes
  <2>5. CASE /\ v \in LiveAfter(E, Q) /\ v \notin Own(a, C)
             /\ \E l \in D : u = Line(l, C[l].new)
    BY <1>9, <2>1, <2>5
  <2>6. CASE /\ \E l \in D : u = Line(l, C[l].new)
             /\ \E k \in D : v = Line(k, C[k].new)
    <3>1. PICK l \in D : u = Line(l, C[l].new)
      BY <2>6
    <3>2. PICK k \in D : v = Line(k, C[k].new)
      BY <2>6
    <3>3. l # k
      BY <3>1, <3>2
    <3>4. ~Overlap(C[l].new, C[k].new)
      BY <1>3, <1>6, <3>3 DEF TargetsFree
    <3> QED
      BY <3>1, <3>2, <3>4, <1>9
  <2> QED
    BY <1>8, <2>3, <2>4, <2>5, <2>6
<1>14. /\ OrderRow(orders'[o]) /\ orders'[o].revision > orders[o].revision
       /\ Alive(o)' \/ ActiveLines(o)' = {}
  <2>1. orders'[o] = OrderApplied(a, approved, pays)
    BY <1>2, <1>4 DEF OrdersAfter
  <2>2. ActiveLines(o)' = {l \in LinesOf(o) : LinesApplied(a, approved)[l].state = "ACTIVE"}
    BY <1>4 DEF ActiveLines
  <2> QED
    BY <1>3, <2>1, <2>2, AppliedOrder DEF Alive
<1>15. /\ amendments'[a] # NoRow /\ AmendmentRow(amendments'[a])
       /\ amendments'[a].status = "APPLIED" /\ amendments'[a].order = o
       /\ amendments'[a].base = m.base /\ amendments'[a].unpaid = m.unpaid
       /\ amendments'[a].supplement = m.supplement
  BY <1>1, <1>3, AppliedAmendment
<1>16. Swept(E, Q, {o}, {a})
  <2>1. \A x \in Orders \ {o} : orders'[x] = OrdersAfter(Q)[x]
    BY <1>4 DEF OrdersAfter
  <2>2. \A l \in Lines : OrderOf[l] # o => lines'[l] = lines[l]
    BY <1>2, <1>7 DEF LinesOf
  <2>3. \A x \in Amendments \ {a} : amendments'[x] = AmendmentsAfter(E)[x]
    BY <1>4 DEF AmendmentsAfter
  <2>4. ASSUME NEW u \in live \cup live', u.kind = "LINE", OrderOf[u.source] # o
        PROVE  u \in live' <=> u \in LiveAfter(E, Q)
    <3>1. u.source \notin D
      BY <1>2, <2>4 DEF LinesOf
    <3>2. u \in live
      BY <1>8, <1>9, <3>1
    <3> QED
      BY <1>8, <1>9, <1>10, <1>11, <2>4, <3>1, <3>2
  <2>5. ASSUME NEW u \in live \cup live', u.kind = "STAGED", u.source # a
        PROVE  u \in live' <=> u \in LiveAfter(E, Q)
    <3>1. u \notin Own(a, C)
      BY <2>5 DEF Own, Line
    <3>2. u \in live
      BY <1>8, <1>9, <2>5
    <3> QED
      BY <1>8, <1>9, <1>10, <2>5, <3>1, <3>2
  <2> QED
    BY <1>1, <1>4, <1>7, <2>1, <2>2, <2>3, <2>4, <2>5
       DEF Swept, OrdersAfter, AmendmentsAfter
<1>17. CourtsOf(o)'
  <2>1. ASSUME NEW u \in live', u.kind = "LINE", OrderOf[u.source] = o
        PROVE  Alive(o)' /\ u.source \in ActiveLines(o)' /\ u.slot = lines'[u.source].slot
    <3>1. u.source \in ActiveLines(o)' /\ u.slot = lines'[u.source].slot
      <4>1. CASE u \in live /\ u \notin Own(a, C)
        <5>1. u.source \notin D /\ u.source \in Lines
          BY <1>1, <1>11, <2>1, <4>1 DEF LiveRow
        <5>2. u.source \in ActiveLines(o) /\ u.slot = lines[u.source].slot
          BY <1>2, <2>1, <4>1 DEF CourtInv, CourtsOf
        <5> QED
          BY <1>7, <5>1, <5>2 DEF ActiveLines
      <4>2. CASE \E l \in D : u = Line(l, C[l].new)
        BY <1>2, <1>7, <1>9, <4>2 DEF ActiveLines
      <4> QED
        BY <1>8, <4>1, <4>2
    <3> QED
      BY <1>14, <3>1
  <2>2. ASSUME NEW l \in ActiveLines(o)' PROVE Line(l, lines'[l].slot) \in live'
    <3>1. CASE l \in D
      BY <1>7, <1>9, <3>1
    <3>2. CASE l \notin D
      <4>1. l \in ActiveLines(o) /\ lines'[l] = lines[l] /\ OrderOf[l] = o
        BY <1>7, <2>2, <3>2 DEF ActiveLines, LinesOf
      <4>2. Line(l, lines[l].slot) \in live
        BY <1>2, <1>3, <4>1 DEF CourtInv, CourtsOf, Alive
      <4>3. /\ Line(l, lines[l].slot).kind = "LINE" /\ Line(l, lines[l].slot).source = l
        BY DEF Line
      <4>4. Line(l, lines[l].slot) \in LiveAfter(E, Q)
        BY <4>1, <4>2, <4>3 DEF LiveAfter
      <4> QED
        BY <1>10, <1>11, <3>2, <4>1, <4>2, <4>3, <4>4
    <3> QED
      BY <3>1, <3>2
  <2> QED
    BY <2>1, <2>2 DEF CourtsOf
<1>18. ASSUME NEW b \in Amendments, IsAwaiting(b)' PROVE amendments'[b].order # o
  <2>1. b # a
    BY <1>15, <1>18 DEF IsAwaiting
  <2>2. amendments'[b] = AmendmentsAfter(E)[b]
    BY <1>16, <2>1 DEF Swept
  <2>3. b \notin E /\ amendments'[b] = amendments[b]
    BY <1>18, <2>2, ExpiredAmendment DEF IsAwaiting
  <2> QED
    BY <1>18, <2>1, <2>3 DEF IsAwaiting
<1>19. OrderChanges(o)
  <2>1. \A l \in LinesOf(o) : LineRow(lines'[l])
    BY <1>5, <1>7 DEF LinesOf
  <2> QED
    BY <1>14, <1>17, <1>18, <2>1 DEF OrderChanges
<1>20. /\ QuoteFits(a)' /\ WaitFits(a)'
       /\ \A u \in live' : ~(u.kind = "STAGED" /\ u.source = a)
  <2>1. QuoteFits(a)'
    <3>1. m.base \in Nat /\ orders[o].revision \in Nat /\ orders'[o].revision \in Nat
      BY <1>1, <1>2, <1>14 DEF AmendmentRow, OrderRow, CourtInv, RowsFit
    <3>2. m.base <= orders'[o].revision
      BY <1>1, <1>14, <3>1
    <3> HIDE DEF m
    <3> QED
      BY <1>1, <1>15, <3>2 DEF QuoteFits
  <2>2. WaitFits(a)'
    BY <1>15 DEF WaitFits, IsAwaiting
  <2>3. ASSUME NEW u \in live', u.kind = "STAGED", u.source = a PROVE FALSE
    BY <1>8, <1>9, <2>3 DEF Own
  <2> QED
    BY <2>1, <2>2, <2>3
<1> QED
  <2>1. {o} \in SUBSET Orders /\ {a} \in SUBSET Amendments
    BY <1>2
  <2> HIDE DEF m
  <2> QED
    BY <1>12, <1>13, <1>16, <1>19, <1>20, <2>1, SweepStep

(***************************************************************************)
(* The pieces of a target that are staged.                                 *)
(***************************************************************************)
LEMMA GreatestOf ==
  ASSUME NEW S \in SUBSET Nat, S # {}, NEW b \in Nat, \A n \in S : n <= b
  PROVE  \E m \in S : \A n \in S : n <= m
<1> DEFINE T == {b - n : n \in S}
<1>1. T \in SUBSET Nat /\ T # {}
  <2>1. \A n \in S : n \in Nat /\ b - n \in Nat
    OBVIOUS
  <2>2. PICK n \in S : TRUE
    OBVIOUS
  <2>3. b - n \in T
    OBVIOUS
  <2> QED
    BY <2>1, <2>3
<1>2. PICK d \in T : \A e \in T : d <= e
  BY <1>1, LeastOf
<1>3. PICK m \in S : d = b - m
  BY <1>2
<1>4. \A n \in S : b - m <= b - n
  BY <1>2, <1>3
<1>5. \A n \in S : n <= m
  BY <1>4
<1> QED
  BY <1>5

LEMMA PieceRow ==
  ASSUME NEW olds, \A j \in olds : IsInterval(j), NEW s, IsInterval(s),
         NEW i \in UncoveredPieces(olds, s)
  PROVE  /\ IsInterval(i) /\ i.court = s.court /\ s.start <= i.start /\ i.end <= s.end
         /\ i = [court |-> i.court, start |-> i.start, end |-> i.end]
         /\ i.start \in {s.start} \cup {j.end : j \in olds}
         /\ i.end \in {s.end} \cup {j.start : j \in olds}
         /\ \A j \in olds : ~Overlap(i, j)
<1>1. i \in Pieces(olds, s)
  BY DEF UncoveredPieces
<1>2. /\ i.court = s.court /\ i = [court |-> i.court, start |-> i.start, end |-> i.end]
      /\ i.start \in {s.start} \cup {j.end : j \in olds}
      /\ i.end \in {s.end} \cup {j.start : j \in olds}
  BY <1>1 DEF Pieces
<1>3. i.start \in Nat /\ i.end \in Nat
  BY <1>2 DEF IsInterval
<1> QED
  BY <1>2, <1>3 DEF UncoveredPieces, IsInterval

\* Largest pieces of a target lie apart.
LEMMA PiecesLieApart ==
  ASSUME NEW olds, \A j \in olds : IsInterval(j), NEW s, IsInterval(s),
         NEW i \in LargestPieces(olds, s), NEW j \in LargestPieces(olds, s), Overlap(i, j)
  PROVE  i = j
<1> DEFINE x == IF i.start <= j.start THEN i.start ELSE j.start
           y == IF i.end <= j.end THEN j.end ELSE i.end
           k == [court |-> s.court, start |-> x, end |-> y]
<1>1. i \in UncoveredPieces(olds, s) /\ j \in UncoveredPieces(olds, s)
  BY DEF LargestPieces
<1>2. /\ IsInterval(i) /\ i.court = s.court /\ s.start <= i.start /\ i.end <= s.end
      /\ i.start \in {s.start} \cup {o.end : o \in olds}
      /\ i.end \in {s.end} \cup {o.start : o \in olds}
      /\ \A o \in olds : ~Overlap(i, o)
  BY <1>1, PieceRow
<1>3. /\ IsInterval(j) /\ j.court = s.court /\ s.start <= j.start /\ j.end <= s.end
      /\ j.start \in {s.start} \cup {o.end : o \in olds}
      /\ j.end \in {s.end} \cup {o.start : o \in olds}
      /\ \A o \in olds : ~Overlap(j, o)
  BY <1>1, PieceRow
<1>4. k.court = s.court /\ k.start = x /\ k.end = y
  OBVIOUS
<1>5. k \in Pieces(olds, s)
  <2>1. /\ x \in {s.start} \cup {o.end : o \in olds}
        /\ y \in {s.end} \cup {o.start : o \in olds}
    BY <1>2, <1>3
  <2> HIDE DEF x, y
  <2> QED
    BY <2>1 DEF Pieces
<1>6. /\ x < y /\ s.start <= x /\ y <= s.end
      /\ x <= i.start /\ i.end <= y /\ x <= j.start /\ j.end <= y
  BY <1>2, <1>3 DEF IsInterval
<1>7. ASSUME NEW o \in olds PROVE ~Overlap(k, o)
  <2>1. ~Overlap(i, o) /\ ~Overlap(j, o) /\ IsInterval(o)
    BY <1>2, <1>3
  <2> HIDE DEF k
  <2> QED
    BY <1>2, <1>3, <1>4, <2>1 DEF Overlap, IsInterval
<1> HIDE DEF k, x, y
<1>8. k \in UncoveredPieces(olds, s)
  BY <1>4, <1>5, <1>6, <1>7 DEF UncoveredPieces
<1> QED
  BY <1>4, <1>6, <1>8 DEF LargestPieces

\* Every minute of a target that no line which moves covers is in a piece.
LEMMA PiecesCover ==
  ASSUME NEW olds, \A j \in olds : IsInterval(j), NEW s, IsInterval(s),
         NEW t \in s.start .. s.end - 1,
         \A j \in olds : j.court = s.court => ~(j.start <= t /\ t < j.end)
  PROVE  \E i \in LargestPieces(olds, s) : i.start <= t /\ t < i.end
<1> DEFINE X == {x \in {s.start} \cup {j.end : j \in {o \in olds : o.court = s.court}} :
                   s.start <= x /\ x <= t}
           Y == {y \in {s.end} \cup {j.start : j \in {o \in olds : o.court = s.court}} :
                   y <= s.end /\ t < y}
<1>1. s.start \in Nat /\ s.end \in Nat /\ t \in Nat /\ s.start <= t /\ t < s.end
  BY DEF IsInterval
<1>2. X \in SUBSET Nat /\ s.start \in X /\ Y \in SUBSET Nat /\ s.end \in Y
  BY <1>1 DEF IsInterval
<1>3. PICK x \in X : \A n \in X : n <= x
  BY <1>1, <1>2, GreatestOf
<1>4. PICK y \in Y : \A n \in Y : y <= n
  BY <1>2, LeastOf
<1> DEFINE k == [court |-> s.court, start |-> x, end |-> y]
<1>5. k.court = s.court /\ k.start = x /\ k.end = y
  OBVIOUS
<1>6. k \in Pieces(olds, s)
  <2>1. /\ x \in {s.start} \cup {o.end : o \in olds}
        /\ y \in {s.end} \cup {o.start : o \in olds}
    OBVIOUS
  <2> HIDE DEF X, Y
  <2> QED
    BY <2>1 DEF Pieces
<1>7. x \in Nat /\ y \in Nat /\ s.start <= x /\ x <= t /\ t < y /\ y <= s.end
  BY <1>2
<1> HIDE DEF k
<1>8. ASSUME NEW j \in olds PROVE ~Overlap(k, j)
  <2> SUFFICES ASSUME j.court = s.court, x < j.end, j.start < y PROVE FALSE
    BY <1>5, <1>7 DEF Overlap, IsInterval
  <2>1. j.start \in Nat /\ j.end \in Nat
    BY DEF IsInterval
  <2>2. CASE j.end <= t
    <3>1. j.end \in X
      BY <1>1, <1>7, <2>1, <2>2
    <3> QED
      BY <1>3, <1>7, <2>1, <3>1
  <2>3. CASE t < j.start
    <3>1. j.start \in Y
      BY <1>1, <1>7, <2>1, <2>3
    <3> QED
      BY <1>4, <1>7, <2>1, <3>1
  <2> QED
    BY <1>1, <2>1, <2>2, <2>3
<1>9. k \in UncoveredPieces(olds, s)
  BY <1>1, <1>5, <1>6, <1>7, <1>8 DEF UncoveredPieces
<1>10. ASSUME NEW i \in UncoveredPieces(olds, s), i.start <= x, y <= i.end
      PROVE  i = k
  <2>1. /\ IsInterval(i) /\ i.court = s.court /\ s.start <= i.start /\ i.end <= s.end
        /\ i = [court |-> i.court, start |-> i.start, end |-> i.end]
        /\ \A j \in olds : ~Overlap(i, j)
    BY PieceRow
  <2>2. i.start = x
    <3> SUFFICES ASSUME i.start < x PROVE FALSE
      BY <1>7, <1>10, <2>1 DEF IsInterval
    <3>1. PICK j \in olds : j.court = s.court /\ x = j.end
      BY <1>1, <1>7, <2>1 DEF IsInterval
    <3>2. IsInterval(j) /\ ~Overlap(i, j)
      BY <2>1
    <3> QED
      BY <1>1, <1>7, <1>10, <2>1, <3>1, <3>2 DEF Overlap, IsInterval
  <2>3. i.end = y
    <3> SUFFICES ASSUME y < i.end PROVE FALSE
      BY <1>7, <1>10, <2>1 DEF IsInterval
    <3>1. PICK j \in olds : j.court = s.court /\ y = j.start
      BY <1>1, <1>7, <2>1 DEF IsInterval
    <3>2. IsInterval(j) /\ ~Overlap(i, j)
      BY <2>1
    <3> QED
      BY <1>1, <1>7, <1>10, <2>1, <3>1, <3>2 DEF Overlap, IsInterval
  <2> QED
    BY <2>1, <2>2, <2>3 DEF k
<1>11. k \in LargestPieces(olds, s)
  BY <1>5, <1>9, <1>10 DEF LargestPieces
<1> QED
  BY <1>5, <1>7, <1>11

(***************************************************************************)
(* Quoting a change, and holding what a confirmed one needs.               *)
(***************************************************************************)
LEMMA PreviewStep ==
  ASSUME CourtInv, NEW a \in Amendments, NEW o \in Orders,
         NEW L, NEW new \in [L -> Offers], NEW t, PreviewOrderAmendment(a, o, new, t)
  PROVE  CourtInv'
<1> DEFINE E       == DueAmendments(now)
           unpaid  == IsHeld(o)
           changes == Quoted(unpaid, new)
           r       == amendments'[a]
<1>1. /\ amendments[a] = NoRow
      /\ DOMAIN new # {} /\ DOMAIN new \subseteq ActiveLines(o)
      /\ ~unpaid => orders[o].status = "CONFIRMED"
      /\ \A l \in DOMAIN new : Line(l, lines[l].slot) \in live
      /\ live' = LiveAfter(E, {}) /\ orders' = orders /\ lines' = lines
  BY DEF PreviewOrderAmendment
<1>2. /\ \A l \in Lines : LineRow(lines[l])
      /\ DOMAIN orders = Orders /\ DOMAIN lines = Lines /\ DOMAIN amendments = Amendments
      /\ orders[o].revision \in Nat /\ \A u \in live : LiveRow(u)
  BY DEF CourtInv, RowsFit, OrderRow
<1>3. E \subseteq {x \in Amendments : IsAwaiting(x)}
  BY DueAreHeld
<1>4. /\ DOMAIN r = {"order", "base", "unpaid", "status", "expiresAt", "holdUntil",
                     "supplement", "changes"}
      /\ r.order = o /\ r.base = orders[o].revision /\ r.unpaid = unpaid
      /\ r.status = "QUOTED" /\ r.supplement = Supplement(unpaid, changes)
      /\ r.changes = changes
  <2> DEFINE row(expiry, more) ==
        [order |-> o, base |-> orders[o].revision, unpaid |-> unpaid, status |-> "QUOTED",
         expiresAt |-> expiry, holdUntil |-> 0, supplement |-> more, changes |-> changes]
  <2>1. PICK expiry : amendments' = [AmendmentsAfter(E) EXCEPT ![a] =
                                       row(expiry, Supplement(unpaid, changes))]
    BY DEF PreviewOrderAmendment
  <2>2. DOMAIN AmendmentsAfter(E) = Amendments
    BY DEF AmendmentsAfter
  <2> HIDE DEF unpaid, changes
  <2>3. r = row(expiry, Supplement(unpaid, changes))
    BY <2>1, <2>2
  <2> QED
    BY <2>3
<1>5. \A x \in Amendments \ {a} : amendments'[x] = AmendmentsAfter(E)[x]
  BY DEF PreviewOrderAmendment, AmendmentsAfter
<1>6. DOMAIN amendments' = Amendments
  BY DEF PreviewOrderAmendment, AmendmentsAfter
<1>7. r # NoRow
  BY <1>4 DEF NoRow
<1>8. DOMAIN changes = DOMAIN new
  BY DEF Quoted
<1>9. ASSUME NEW l \in DOMAIN changes
      PROVE  /\ changes[l].old = lines[l].slot /\ changes[l].old \in Slots
             /\ lines[l].state = "ACTIVE"
  <2>1. l \in ActiveLines(o) /\ l \in Lines /\ lines[l].state = "ACTIVE"
    BY <1>1, <1>8 DEF ActiveLines, LinesOf
  <2>2. changes[l].old = lines[l].slot
    BY <1>8 DEF Quoted
  <2> QED
    BY <1>2, <2>1, <2>2 DEF LineRow
<1>10. ASSUME NEW l \in DOMAIN changes PROVE changes[l].new \in Slots
  <2>1. changes[l].new = new[l].slot
    BY <1>8 DEF Quoted
  <2> QED
    BY <1>8, <2>1 DEF Slots
<1>11. QuoteFits(a)'
  <2>1. unpaid => r.supplement = 0
    BY <1>4 DEF Supplement
  <2>2. DOMAIN r.changes \subseteq LinesOf(o)
    BY <1>1, <1>4, <1>8 DEF ActiveLines
  <2> HIDE DEF r, changes, unpaid
  <2>3. AmendmentRow(r)
    BY <1>2, <1>4, <1>9, <1>10, <2>2 DEF AmendmentRow
  <2>4. \A l \in DOMAIN r.changes : lines'[l].state = "ACTIVE" /\ r.changes[l].old = lines'[l].slot
    BY <1>1, <1>4, <1>9
  <2> QED
    BY <1>1, <1>2, <1>4, <2>1, <2>3, <2>4 DEF QuoteFits, r
<1>12. WaitFits(a)' /\ ~IsAwaiting(a)'
  BY <1>4 DEF WaitFits, IsAwaiting
<1>13. \A u \in live' : ~(u.kind = "STAGED" /\ u.source = a)
  BY <1>1, LiveAfterShrinks DEF CourtInv, StagedAwaits, IsAwaiting
<1>14. Swept(E, {}, {}, {a})
  BY <1>1, <1>2, <1>5, <1>6 DEF Swept, OrdersAfter, LiveAfter
<1>15. (\A u \in live' : LiveRow(u)) /\ Disjoint(live)'
  BY <1>1, <1>2, LiveAfterShrinks DEF Disjoint
<1> HIDE DEF E
<1> QED
  BY <1>3, <1>11, <1>12, <1>13, <1>14, <1>15, SweepStep, DueAreHeld

LEMMA ConfirmSupplementStep ==
  ASSUME CourtInv, NEW a \in Amendments, NEW t, ConfirmSupplement(a, t)
  PROVE  CourtInv'
<1> SUFFICES ASSUME NEW o, o = amendments[a].order PROVE CourtInv'
  OBVIOUS
<1> DEFINE E    == DueAmendments(now)
           m    == amendments[a]
           C    == m.changes
           D    == DOMAIN m.changes
           olds == {C[l].old : l \in D}
           r    == amendments'[a]
<1>1. /\ m # NoRow /\ m.status = "QUOTED" /\ orders[o].revision = m.base
      /\ NoneAwaits(o, E) /\ m.supplement > 0
      /\ TargetsFree(a, o, C, LiveAfter(E, {}), t)
      /\ live' = LiveAfter(E, {}) \cup NewCoverage(a, C)
      /\ orders' = orders /\ lines' = lines
      /\ amendments' = [AmendmentsAfter(E) EXCEPT ![a].status = "AWAITING_PAYMENT",
                                                  ![a].holdUntil = PaymentDeadline(m, t)]
  BY DEF ConfirmSupplement, Confirmable
<1>2. /\ AmendmentRow(m) /\ (m.unpaid => m.supplement = 0)
      /\ ~m.unpaid => orders[o].status = "CONFIRMED"
      /\ \A l \in D : lines[l].state = "ACTIVE" /\ C[l].old = lines[l].slot
      /\ \A u \in live : LiveRow(u)
      /\ DOMAIN orders = Orders /\ DOMAIN lines = Lines /\ DOMAIN amendments = Amendments
  BY <1>1 DEF CourtInv, QuoteFits, RowsFit
<1>3. o \in Orders /\ D \subseteq LinesOf(o) /\ D \subseteq Lines /\ D \subseteq ActiveLines(o)
  BY <1>2 DEF AmendmentRow, LinesOf, ActiveLines
<1>4. ~m.unpaid /\ orders[o].status = "CONFIRMED"
  BY <1>1, <1>2
<1>5. E \subseteq {x \in Amendments : IsAwaiting(x)} /\ a \notin E
  BY <1>1, DueAreHeld DEF IsAwaiting
<1>6. \A l \in D : IsInterval(C[l].old) /\ IsInterval(C[l].new)
  BY <1>2, SlotsAreIntervals DEF AmendmentRow
<1>7. \A j \in olds : IsInterval(j)
  BY <1>6
<1>8. /\ DOMAIN r = DOMAIN m /\ r.order = o /\ r.base = m.base /\ r.unpaid = m.unpaid
      /\ r.status = "AWAITING_PAYMENT" /\ r.supplement = m.supplement /\ r.changes = C
  <2> DEFINE deadline == PaymentDeadline(m, t)
  <2>1. AmendmentsAfter(E)[a] = m /\ DOMAIN AmendmentsAfter(E) = Amendments
    BY <1>5 DEF AmendmentsAfter
  <2>2. r = [m EXCEPT !.status = "AWAITING_PAYMENT", !.holdUntil = deadline]
    BY <1>1, <2>1
  <2>3. DOMAIN m = {"order", "base", "unpaid", "status", "expiresAt", "holdUntil",
                    "supplement", "changes"}
    BY <1>2 DEF AmendmentRow
  <2> HIDE DEF deadline
  <2> QED
    BY <2>2, <2>3
<1>9. AmendmentRow(r) /\ r # NoRow
  <2> HIDE DEF m, r
  <2> QED
    BY <1>2, <1>8 DEF AmendmentRow, NoRow, m
<1>10. ASSUME NEW u \in live, u.kind = "STAGED" PROVE u.source # a
  BY <1>1, <1>10 DEF CourtInv, StagedAwaits, IsAwaiting
<1>11. ASSUME NEW u \in NewCoverage(a, C)
       PROVE  \E l \in D : \E i \in LargestPieces(olds, C[l].new) :
                u = Staged(a, i) /\ i \in UncoveredPieces(olds, C[l].new)
  BY <1>11 DEF NewCoverage, LargestPieces
<1>12. ASSUME NEW l \in D, NEW i \in UncoveredPieces(olds, C[l].new)
       PROVE  /\ IsInterval(i) /\ i.court = C[l].new.court
              /\ C[l].new.start <= i.start /\ i.end <= C[l].new.end
              /\ \A k \in D : ~Overlap(i, C[k].old)
  <2> DEFINE s == C[l].new
  <2>1. IsInterval(s) /\ \A k \in D : C[k].old \in olds
    BY <1>6
  <2> HIDE DEF s, olds
  <2>2. /\ IsInterval(i) /\ i.court = s.court /\ s.start <= i.start /\ i.end <= s.end
        /\ \A j \in olds : ~Overlap(i, j)
    BY <1>7, <1>12, <2>1, PieceRow DEF s
  <2> QED
    BY <2>1, <2>2 DEF s
<1>13. ASSUME NEW u \in NewCoverage(a, C)
       PROVE  u.kind = "STAGED" /\ u.source = a /\ LiveRow(u)
  <2>1. PICK l \in D : \E i \in UncoveredPieces(olds, C[l].new) : u = Staged(a, i)
    BY <1>11, <1>13
  <2>2. PICK i \in UncoveredPieces(olds, C[l].new) : u = Staged(a, i)
    BY <2>1
  <2>3. IsInterval(i)
    BY <1>12
  <2> QED
    BY <2>2, <2>3 DEF LiveRow, Staged
<1>14. Disjoint(live)'
  <2>1. ASSUME NEW u \in LiveAfter(E, {}), NEW v \in NewCoverage(a, C), Overlap(u.slot, v.slot)
        PROVE  FALSE
    <3>1. PICK l \in D : \E i \in UncoveredPieces(olds, C[l].new) : v = Staged(a, i)
      BY <1>11
    <3>2. PICK i \in UncoveredPieces(olds, C[l].new) : v = Staged(a, i)
      BY <3>1
    <3>3. v.slot = i
      BY <3>2 DEF Staged
    <3>4. u \in live /\ IsInterval(u.slot)
      BY <1>2, LiveAfterShrinks DEF LiveRow
    <3>5. Overlap(i, u.slot)
      BY <1>12, <2>1, <3>3, <3>4, OverlapCommutes
    <3>6. Overlap(C[l].new, u.slot)
      <4>1. Within(i, C[l].new)
        BY <1>6, <1>12 DEF Within
      <4>2. Within(u.slot, u.slot)
        BY <3>4 DEF Within, IsInterval
      <4> QED
        BY <3>5, <4>1, <4>2, OverlapWithin
    <3>7. u \in Own(a, C)
      BY <1>1, <3>6 DEF TargetsFree
    <3>8. PICK k \in D : u = Line(k, C[k].old)
      BY <1>10, <3>4, <3>7 DEF Own
    <3>9. u.slot = C[k].old
      BY <3>8 DEF Line
    <3> QED
      BY <1>12, <3>5, <3>9
  <2>2. ASSUME NEW u \in NewCoverage(a, C), NEW v \in NewCoverage(a, C), Overlap(u.slot, v.slot)
        PROVE  u = v
    <3>1. PICK l \in D : \E i \in LargestPieces(olds, C[l].new) :
            u = Staged(a, i) /\ i \in UncoveredPieces(olds, C[l].new)
      BY <1>11
    <3>2. PICK i \in LargestPieces(olds, C[l].new) :
            u = Staged(a, i) /\ i \in UncoveredPieces(olds, C[l].new)
      BY <3>1
    <3>3. PICK k \in D : \E j \in LargestPieces(olds, C[k].new) :
            v = Staged(a, j) /\ j \in UncoveredPieces(olds, C[k].new)
      BY <1>11
    <3>4. PICK j \in LargestPieces(olds, C[k].new) :
            v = Staged(a, j) /\ j \in UncoveredPieces(olds, C[k].new)
      BY <3>3
    <3>5. Overlap(i, j)
      BY <2>2, <3>2, <3>4 DEF Staged
    <3>6. Overlap(C[l].new, C[k].new)
      <4>1. Within(i, C[l].new)
        BY <1>6, <1>12, <3>2 DEF Within
      <4>2. Within(j, C[k].new)
        BY <1>6, <1>12, <3>4 DEF Within
      <4> QED
        BY <3>5, <4>1, <4>2, OverlapWithin
    <3>7. l = k
      BY <1>1, <1>3, <3>6 DEF TargetsFree
    <3>8. i = j
      BY <1>6, <1>7, <3>5, <3>7, PiecesLieApart
    <3> QED
      BY <3>2, <3>4, <3>8
  <2>3. Disjoint(LiveAfter(E, {}))
    BY LiveAfterShrinks
  <2>4. \A u \in live' : IsInterval(u.slot)
    BY <1>1, <1>2, <1>13, LiveAfterShrinks DEF LiveRow
  <2> SUFFICES ASSUME NEW u \in live', NEW v \in live', u # v, Overlap(u.slot, v.slot)
               PROVE  FALSE
    BY DEF Disjoint, Overlap
  <2>5. Overlap(v.slot, u.slot)
    BY <2>4, OverlapCommutes
  <2> QED
    BY <1>1, <2>1, <2>2, <2>3, <2>5 DEF Disjoint
<1>15. CourtsHeld(a)'
  <2> DEFINE H == {Line(k, C[k].old) : k \in D} \cup {u \in live' : u.kind = "STAGED" /\ u.source = a}
  <2> SUFFICES ASSUME NEW l \in D, NEW x \in C[l].new.start .. C[l].new.end - 1
               PROVE  \E u \in H \cap live' :
                        u.slot.court = C[l].new.court /\ u.slot.start <= x /\ x < u.slot.end
    BY <1>8 DEF CourtsHeld, Covered, Own
  <2>1. CASE \E j \in olds : j.court = C[l].new.court /\ j.start <= x /\ x < j.end
    <3>1. PICK k \in D : /\ C[k].old.court = C[l].new.court
                        /\ C[k].old.start <= x /\ x < C[k].old.end
      BY <2>1
    <3>2. Line(k, C[k].old) \in live
      BY <1>2, <1>3, <1>4 DEF CourtInv, CourtsOf, Alive
    <3>3. Line(k, C[k].old).kind = "LINE" /\ Line(k, C[k].old).slot = C[k].old
      BY DEF Line
    <3>4. Line(k, C[k].old) \in live'
      BY <1>1, <3>2, <3>3 DEF LiveAfter
    <3>5. Line(k, C[k].old) \in H
      OBVIOUS
    <3> QED
      BY <3>1, <3>3, <3>4, <3>5
  <2>2. CASE \A j \in olds : j.court = C[l].new.court => ~(j.start <= x /\ x < j.end)
    <3>1. PICK i \in LargestPieces(olds, C[l].new) : i.start <= x /\ x < i.end
      BY <1>6, <1>7, <2>2, PiecesCover
    <3>2. Staged(a, i) \in NewCoverage(a, C)
      <4>1. Staged(a, i) \in {Staged(a, j) : j \in LargestPieces(olds, C[l].new)}
        OBVIOUS
      <4> QED
        BY <4>1 DEF NewCoverage
    <3>3. i.court = C[l].new.court
      BY <1>12 DEF LargestPieces
    <3>4. Staged(a, i) \in H \cap live'
      BY <1>1, <1>13, <3>2
    <3>5. Staged(a, i).slot = i
      BY DEF Staged
    <3> QED
      BY <3>1, <3>3, <3>4, <3>5
  <2> QED
    BY <2>1, <2>2
<1>16. QuoteFits(a)'
  <2>1. m.base \in Nat
    BY <1>2 DEF AmendmentRow
  <2> HIDE DEF m, r
  <2>2. /\ r.base <= orders'[r.order].revision /\ (r.unpaid => r.supplement = 0)
        /\ orders'[r.order].status = "CONFIRMED"
        /\ \A l \in DOMAIN r.changes :
             lines'[l].state = "ACTIVE" /\ r.changes[l].old = lines'[l].slot
    BY <1>1, <1>2, <1>4, <1>8, <2>1
  <2> QED
    BY <1>9, <2>2 DEF QuoteFits, r
<1>17. WaitFits(a)'
  <2>1. ASSUME NEW b \in Amendments, IsAwaiting(b)', amendments'[b].order = o, b # a
        PROVE  FALSE
    <3>1. amendments'[b] = AmendmentsAfter(E)[b]
      BY <1>1, <2>1 DEF AmendmentsAfter
    <3>2. b \notin E /\ amendments'[b] = amendments[b]
      BY <1>5, <2>1, <3>1, ExpiredAmendment DEF IsAwaiting
    <3> QED
      BY <1>1, <2>1, <3>2 DEF NoneAwaits, IsAwaiting
  <2> QED
    BY <1>1, <1>4, <1>8, <1>15, <2>1 DEF WaitFits
<1>18. IsAwaiting(a)'
  BY <1>8, <1>9 DEF IsAwaiting
<1>19. \A u \in live' : LiveRow(u)
  BY <1>1, <1>2, <1>13, LiveAfterShrinks
<1>20. Swept(E, {}, {}, {a})
  <2>1. \A x \in Amendments \ {a} : amendments'[x] = AmendmentsAfter(E)[x]
    BY <1>1 DEF AmendmentsAfter
  <2>2. DOMAIN amendments' = Amendments
    BY <1>1 DEF AmendmentsAfter
  <2>3. \A u \in live \cup live' : u.kind = "LINE" \/ u.source # a =>
          (u \in live' <=> u \in LiveAfter(E, {}))
    BY <1>1, <1>13
  <2> QED
    BY <1>1, <1>2, <2>1, <2>2, <2>3 DEF Swept, OrdersAfter
<1> HIDE DEF E
<1> QED
  BY <1>5, <1>14, <1>16, <1>17, <1>18, <1>19, <1>20, SweepStep

(***************************************************************************)
(* The other commands.                                                     *)
(***************************************************************************)
\* The orders Q expire and nothing else happens to orders.
OrdersExpire(Q) ==
  /\ DOMAIN orders' = Orders /\ \A o \in Orders : orders'[o] = OrdersAfter(Q)[o]
  /\ lines' = lines

LEMMA OrdersStay ==
  ASSUME CourtInv, UNCHANGED <<orders, lines>>
  PROVE  OrdersExpire({})
BY DEF OrdersExpire, OrdersAfter, CourtInv, RowsFit

LEMMA OrdersDo ==
  ASSUME NEW Q, orders' = OrdersAfter(Q), lines' = lines
  PROVE  OrdersExpire(Q)
BY DEF OrdersExpire, OrdersAfter

\* Nothing of the courts, the orders and the amendments but what was due.
LEMMA ExpiryStep ==
  ASSUME CourtInv, NEW t, NEW Q, Q \subseteq {x \in Orders : orders[x].status = "HELD"},
         amendments' = AmendmentsAfter(DueAmendments(t)),
         live' = LiveAfter(DueAmendments(t), Q), OrdersExpire(Q)
  PROVE  CourtInv'
<1> DEFINE E == DueAmendments(t)
<1>1. Swept(E, Q, {}, {})
  BY DEF Swept, AmendmentsAfter, OrdersExpire, CourtInv, RowsFit
<1>2. (\A u \in live' : LiveRow(u)) /\ Disjoint(live)'
  BY LiveAfterShrinks DEF CourtInv, RowsFit, Disjoint
<1>3. E \subseteq {x \in Amendments : IsAwaiting(x)}
  BY DueAreHeld
<1> HIDE DEF E
<1> QED
  BY <1>1, <1>2, <1>3, SweepStep

\* The occupancies made without an order change, or nothing does.
LEMMA BlockStep ==
  ASSUME CourtInv, UNCHANGED <<orders, lines, amendments>>,
         \A u \in live' : LiveRow(u), Disjoint(live)',
         \A u \in live \cup live' : u.kind # "MANUAL" => (u \in live' <=> u \in live)
  PROVE  CourtInv'
<1>1. Swept({}, {}, {}, {})
  BY DEF Swept, AmendmentsAfter, OrdersAfter, LiveAfter, CourtInv, RowsFit
<1> QED
  BY <1>1, SweepStep

LEMMA OccupyStep ==
  ASSUME CourtInv, NEW b, NEW s \in BlockSlots, OccupyCourt(b, s)
  PROVE  CourtInv'
<1>1. IsInterval(s)
  BY CatalogAssumption DEF IsInterval
<1>2. /\ LiveRow(Block(b, s)) /\ Block(b, s).kind = "MANUAL" /\ Block(b, s).slot = s
  BY <1>1 DEF LiveRow, Block
<1>3. /\ live' = live \cup {Block(b, s)} /\ UNCHANGED <<orders, lines, amendments>>
      /\ \A u \in live : ~Overlap(s, u.slot)
  BY DEF OccupyCourt
<1>4. \A u \in live' : LiveRow(u) /\ IsInterval(u.slot)
  BY <1>2, <1>3 DEF CourtInv, RowsFit, LiveRow
<1>5. \A u \in live : ~Overlap(u.slot, s)
  BY <1>1, <1>3, <1>4, OverlapCommutes
<1>6. Disjoint(live)'
  BY <1>2, <1>3, <1>5 DEF CourtInv, Disjoint
<1> QED
  BY <1>2, <1>3, <1>4, <1>6, BlockStep

LEMMA ReleaseStep ==
  ASSUME CourtInv, NEW b, NEW s, ReleaseCourtOccupancy(b, s)
  PROVE  CourtInv'
<1>1. Block(b, s).kind = "MANUAL"
  BY DEF Block
<1>2. /\ live' = live \ {Block(b, s)} /\ UNCHANGED <<orders, lines, amendments>>
  BY DEF ReleaseCourtOccupancy
<1>3. (\A u \in live' : LiveRow(u)) /\ Disjoint(live)'
  BY <1>2 DEF CourtInv, RowsFit, Disjoint
<1> QED
  BY <1>1, <1>2, <1>3, BlockStep

\* An amendment a ends beside what was due: its staged holds go.
LEMMA EndStep ==
  ASSUME CourtInv,
         NEW E, E \subseteq {x \in Amendments : IsAwaiting(x)},
         NEW Q, Q \subseteq {x \in Orders : orders[x].status = "HELD"},
         NEW a \in Amendments, amendments[a] # NoRow,
         amendments' = RejectedAmendments(a, E), live' = RejectedLive(a, E, Q),
         OrdersExpire(Q)
  PROVE  CourtInv'
<1> DEFINE m == amendments[a]
           r == amendments'[a]
<1>1. AmendmentRow(m) /\ (m.unpaid => m.supplement = 0) /\ m.base <= orders[m.order].revision
  BY DEF CourtInv, QuoteFits
<1>2. m.status \in {"QUOTED", "AWAITING_PAYMENT", "APPLIED", "CANCELLED", "EXPIRED"}
  BY <1>1 DEF AmendmentRow
<1>3. /\ r # NoRow /\ AmendmentRow(r) /\ r.status \notin {"QUOTED", "AWAITING_PAYMENT"}
      /\ r.order = m.order /\ r.base = m.base /\ r.unpaid = m.unpaid
      /\ r.supplement = m.supplement
  <2>0. r = IF a \in E THEN AmendmentsAfter(E)[a] ELSE EndedAmendment(a, "CANCELLED")
    BY DEF RejectedAmendments, AmendmentsAfter
  <2>1. CASE a \in E
    BY <2>0, <2>1, ExpiredAmendment
  <2>2. CASE a \notin E /\ m.status \in {"QUOTED", "AWAITING_PAYMENT"}
    BY <1>1, <2>0, <2>2, EndedRow
  <2>3. CASE a \notin E /\ m.status \notin {"QUOTED", "AWAITING_PAYMENT"}
    BY <1>1, <2>0, <2>3 DEF EndedAmendment
  <2> QED
    BY <2>1, <2>2, <2>3
<1>4. m.order \in Orders /\ m.base \in Nat
  BY <1>1 DEF AmendmentRow
<1>5. /\ orders[m.order].revision \in Nat /\ orders'[m.order].revision \in Nat
      /\ orders[m.order].revision <= orders'[m.order].revision
  <2>1. OrderRow(orders[m.order])
    BY <1>4 DEF CourtInv, RowsFit
  <2>2. m.order \in Q => /\ OrderRow(orders'[m.order])
                         /\ orders'[m.order].revision > orders[m.order].revision
    BY <1>4, ExpiredOrder DEF CourtInv, OrdersExpire
  <2>3. m.order \notin Q => orders'[m.order] = orders[m.order]
    BY <1>4, ExpiredOrder DEF CourtInv, OrdersExpire
  <2> QED
    BY <2>1, <2>2, <2>3 DEF OrderRow
<1>6. QuoteFits(a)'
  <2>1. m.base <= orders'[m.order].revision
    BY <1>1, <1>4, <1>5
  <2> HIDE DEF m, r
  <2>2. r.base <= orders'[r.order].revision /\ (r.unpaid => r.supplement = 0)
    BY <1>1, <1>3, <2>1
  <2> QED
    BY <1>3, <2>2 DEF QuoteFits, r
<1>7. WaitFits(a)'
  BY <1>3 DEF WaitFits, IsAwaiting
<1>8. live' \subseteq live /\ \A u \in live' : ~(u.kind = "STAGED" /\ u.source = a)
  BY DEF RejectedLive, LiveAfter
<1>9. (\A u \in live' : LiveRow(u)) /\ Disjoint(live)'
  BY <1>8 DEF CourtInv, RowsFit, Disjoint
<1>10. Swept(E, Q, {}, {a})
  <2>1. \A x \in Amendments \ {a} : amendments'[x] = AmendmentsAfter(E)[x]
    BY DEF RejectedAmendments, AmendmentsAfter
  <2>2. DOMAIN amendments' = Amendments
    BY DEF RejectedAmendments, AmendmentsAfter
  <2>3. \A u \in live \cup live' : u.kind = "LINE" \/ (u.kind = "STAGED" /\ u.source # a) =>
          (u \in live' <=> u \in LiveAfter(E, Q))
    BY DEF RejectedLive, LiveAfter
  <2> QED
    BY <2>1, <2>2, <2>3 DEF Swept, OrdersExpire, CourtInv, RowsFit
<1> QED
  BY <1>6, <1>7, <1>8, <1>9, <1>10, SweepStep

LEMMA CancelAmendmentStep ==
  ASSUME CourtInv, NEW a \in Amendments, CancelOrderAmendment(a)
  PROVE  CourtInv'
<1>1. amendments' = RejectedAmendments(a, {})
  BY DEF CancelOrderAmendment, RejectedAmendments, AmendmentsAfter, CourtInv, RowsFit
<1>2. live' = RejectedLive(a, {}, {})
  BY DEF CancelOrderAmendment, RejectedLive, LiveAfter
<1>3. OrdersExpire({})
  BY OrdersStay DEF CancelOrderAmendment
<1> QED
  BY <1>1, <1>2, <1>3, EndStep DEF CancelOrderAmendment

\* What is left when the lines L of order o stay.
Staying(E, Q, o, L) ==
  {u \in LiveAfter(E, Q) : u.kind = "LINE" /\ OrderOf[u.source] = o => u.source \in L}

\* An order that no amendment waits for is written anew, and some of its lines
\* leave it; L are the lines that stay.
LEMMA OrderStep ==
  ASSUME CourtInv,
         NEW E, E \subseteq {x \in Amendments : IsAwaiting(x)},
         NEW Q, Q \subseteq {x \in Orders : orders[x].status = "HELD"},
         NEW o \in Orders \ Q, OrderRow(orders'[o]),
         orders'[o].revision > orders[o].revision,
         \A b \in Amendments \ E : IsAwaiting(b) => amendments[b].order # o,
         DOMAIN orders' = Orders,
         \A x \in Orders \ {o} : orders'[x] = OrdersAfter(Q)[x],
         DOMAIN amendments' = Amendments,
         \A b \in Amendments : amendments'[b] = AmendmentsAfter(E)[b],
         DOMAIN lines' = Lines,
         \A l \in Lines : /\ OrderOf[l] # o => lines'[l] = lines[l]
                          /\ LineRow(lines'[l]) /\ lines'[l].slot = lines[l].slot,
         NEW L \in SUBSET ActiveLines(o),
         L # {} /\ Alive(o) => Alive(o)',
         Alive(o)' => Alive(o) /\ ActiveLines(o)' = L,
         \A l \in L : lines'[l].state = "ACTIVE",
         live' = Staying(E, Q, o, L)
  PROVE  CourtInv'
<1>1. live' \subseteq live
  BY LiveAfterShrinks DEF Staying
<1>2. (\A u \in live' : LiveRow(u)) /\ Disjoint(live)'
  BY <1>1 DEF CourtInv, RowsFit, Disjoint
<1>3. Swept(E, Q, {o}, {})
  BY DEF Swept, AmendmentsAfter, LiveAfter, Staying
<1>4. CourtsOf(o)'
  <2>1. ASSUME NEW u \in live', u.kind = "LINE", OrderOf[u.source] = o
        PROVE  Alive(o)' /\ u.source \in ActiveLines(o)' /\ u.slot = lines'[u.source].slot
    <3>1. u \in live /\ u.source \in L
      BY <1>1, <2>1 DEF Staying
    <3>2. Alive(o) /\ u.slot = lines[u.source].slot /\ u.source \in ActiveLines(o)
      BY <2>1, <3>1 DEF CourtInv, CourtsOf
    <3> QED
      BY <3>1, <3>2 DEF ActiveLines, LinesOf
  <2>2. ASSUME Alive(o)', NEW l \in ActiveLines(o)'
        PROVE  Line(l, lines'[l].slot) \in live'
    <3>1. Alive(o) /\ l \in L /\ l \in ActiveLines(o)
      BY <2>2
    <3>2. Line(l, lines[l].slot) \in live
      BY <3>1 DEF CourtInv, CourtsOf
    <3>3. OrderOf[l] = o /\ lines'[l].slot = lines[l].slot
      BY <3>1 DEF ActiveLines, LinesOf
    <3>4. Line(l, lines[l].slot).kind = "LINE" /\ Line(l, lines[l].slot).source = l
      BY DEF Line
    <3> QED
      BY <3>1, <3>2, <3>3, <3>4 DEF LiveAfter, Staying
  <2> QED
    BY <2>1, <2>2 DEF CourtsOf
<1>5. ASSUME NEW b \in Amendments, IsAwaiting(b)' PROVE amendments'[b].order # o
  BY <1>5, ExpiredAmendment DEF IsAwaiting
<1>6. OrderChanges(o)
  BY <1>4, <1>5 DEF OrderChanges, LinesOf
<1> QED
  BY <1>2, <1>3, <1>6, SweepStep

\* The lines of a live order hold their courts, so that all of its occupancies stay.
LEMMA AllLinesStay ==
  ASSUME CourtInv, NEW E, NEW Q, NEW o \in Orders
  PROVE  LiveAfter(E, Q) = Staying(E, Q, o, ActiveLines(o))
BY LiveAfterShrinks DEF Staying, CourtInv, CourtsOf

LEMMA NoneAwaitsHeld ==
  ASSUME CourtInv, NEW o \in Orders, orders[o].status = "HELD"
  PROVE  \A b \in Amendments : IsAwaiting(b) => amendments[b].order # o
BY DEF CourtInv, WaitFits

\* A held order is paid.
LEMMA PaidStep ==
  ASSUME CourtInv,
         NEW E, E \subseteq {x \in Amendments : IsAwaiting(x)},
         NEW Q, Q \subseteq {x \in Orders : orders[x].status = "HELD"},
         NEW o \in Orders \ Q, orders[o].status = "HELD",
         orders' = [OrdersAfter(Q) EXCEPT ![o] = PaidOrder(o)],
         amendments' = AmendmentsAfter(E), live' = LiveAfter(E, Q), lines' = lines
  PROVE  CourtInv'
<1>1. OrderRow(orders[o]) /\ DOMAIN lines = Lines /\ \A l \in Lines : LineRow(lines[l])
  BY DEF CourtInv, RowsFit
<1>2. orders'[o] = PaidOrder(o) /\ DOMAIN orders' = Orders
  BY DEF OrdersAfter
<1>3. /\ OrderRow(orders'[o]) /\ orders'[o].revision > orders[o].revision
      /\ orders'[o].status = "CONFIRMED"
  BY <1>1, <1>2 DEF PaidOrder, OrderRow
<1>4. \A x \in Orders \ {o} : orders'[x] = OrdersAfter(Q)[x]
  BY DEF OrdersAfter
<1>5. \A b \in Amendments \ E : IsAwaiting(b) => amendments[b].order # o
  BY NoneAwaitsHeld
<1>6. DOMAIN amendments' = Amendments
  BY DEF AmendmentsAfter
<1>7. /\ Alive(o)' /\ Alive(o) /\ ActiveLines(o)' = ActiveLines(o)
      /\ \A l \in ActiveLines(o) : lines'[l].state = "ACTIVE"
  BY <1>3 DEF Alive, ActiveLines
<1>8. live' = Staying(E, Q, o, ActiveLines(o))
  BY AllLinesStay
<1> QED
  BY <1>1, <1>2, <1>3, <1>4, <1>5, <1>6, <1>7, <1>8, OrderStep

\* The lines L leave order o, which no amendment waits for, and the rest stays.
Leaves(E, Q, o, L) ==
  /\ \A b \in Amendments \ E : IsAwaiting(b) => amendments[b].order # o
  /\ DOMAIN orders' = Orders /\ OrderRow(orders'[o])
  /\ orders'[o].revision > orders[o].revision
  /\ \A x \in Orders \ {o} : orders'[x] = OrdersAfter(Q)[x]
  /\ DOMAIN amendments' = Amendments
  /\ \A b \in Amendments : amendments'[b] = AmendmentsAfter(E)[b]
  /\ L \subseteq ActiveLines(o) /\ DOMAIN lines' = Lines
  /\ \A l \in Lines :
       /\ OrderOf[l] # o => lines'[l] = lines[l]
       /\ LineRow(lines'[l]) /\ lines'[l].slot = lines[l].slot
       /\ IF l \in L THEN lines'[l].state # "ACTIVE" ELSE lines'[l].state = lines[l].state
  /\ Alive(o)' => Alive(o)
  /\ Alive(o) /\ ~(ActiveLines(o) \subseteq L) => Alive(o)'
  /\ live' = WithoutLines(LiveAfter(E, Q), L)

LEMMA LeftStep ==
  ASSUME CourtInv,
         NEW E, E \subseteq {x \in Amendments : IsAwaiting(x)},
         NEW Q, Q \subseteq {x \in Orders : orders[x].status = "HELD"},
         NEW o \in Orders \ Q, NEW L, Leaves(E, Q, o, L)
  PROVE  CourtInv'
<1> USE DEF Leaves
<1> DEFINE S == ActiveLines(o) \ L
<1>1. ActiveLines(o)' = S
  BY DEF ActiveLines, LinesOf
<1>2. \A l \in S : lines'[l].state = "ACTIVE"
  BY DEF ActiveLines, LinesOf
<1>3. live' = Staying(E, Q, o, S)
  <2>1. ASSUME NEW u \in LiveAfter(E, Q), u.kind = "LINE"
        PROVE  u.source \notin L <=> (OrderOf[u.source] = o => u.source \in S)
    <3>1. CASE OrderOf[u.source] = o
      BY <2>1, <3>1, LiveAfterShrinks DEF CourtInv, CourtsOf
    <3>2. CASE OrderOf[u.source] # o
      BY <3>2 DEF ActiveLines, LinesOf
    <3> QED
      BY <3>1, <3>2
  <2> QED
    BY <2>1 DEF WithoutLines, Staying
<1>4. S # {} /\ Alive(o) => Alive(o)'
  OBVIOUS
<1> HIDE DEF S
<1>5. S \in SUBSET ActiveLines(o)
  BY DEF S
<1>6. \A l \in Lines : /\ OrderOf[l] # o => lines'[l] = lines[l]
                       /\ LineRow(lines'[l]) /\ lines'[l].slot = lines[l].slot
  OBVIOUS
<1>7. Alive(o)' => Alive(o) /\ ActiveLines(o)' = S
  BY <1>1
<1> QED
  BY <1>2, <1>3, <1>4, <1>5, <1>6, <1>7, OrderStep

\* An order is cancelled: all of its lines leave.
LEMMA CancelledStep ==
  ASSUME CourtInv,
         NEW E, E \subseteq {x \in Amendments : IsAwaiting(x)},
         NEW Q, Q \subseteq {x \in Orders : orders[x].status = "HELD"},
         NEW o \in Orders \ Q,
         \A b \in Amendments \ E : IsAwaiting(b) => amendments[b].order # o,
         orders' = [OrdersAfter(Q) EXCEPT ![o] = CancelledOrder(o)],
         lines' = LinesCancelled(o),
         amendments' = AmendmentsAfter(E), live' = LiveAfter(E, Q \cup {o})
  PROVE  CourtInv'
<1> DEFINE L == ActiveLines(o)
<1>1. OrderRow(orders[o]) /\ \A l \in Lines : LineRow(lines[l])
  BY DEF CourtInv, RowsFit
<1>2. orders'[o] = CancelledOrder(o) /\ DOMAIN orders' = Orders
  BY DEF OrdersAfter
<1>3. /\ OrderRow(orders'[o]) /\ orders'[o].revision > orders[o].revision
      /\ Alive(o)' => Alive(o)
  BY <1>1, <1>2 DEF CancelledOrder, OrderRow, Alive
<1>4. \A x \in Orders \ {o} : orders'[x] = OrdersAfter(Q)[x]
  BY DEF OrdersAfter
<1>5. /\ DOMAIN amendments' = Amendments /\ DOMAIN lines' = Lines
      /\ \A b \in Amendments : amendments'[b] = AmendmentsAfter(E)[b]
  BY DEF AmendmentsAfter, LinesCancelled
<1>6. ASSUME NEW l \in Lines
      PROVE  /\ OrderOf[l] # o => lines'[l] = lines[l]
             /\ LineRow(lines'[l]) /\ lines'[l].slot = lines[l].slot
             /\ IF l \in L THEN lines'[l].state # "ACTIVE" ELSE lines'[l].state = lines[l].state
  BY <1>1 DEF LinesCancelled, ActiveLines, LinesOf, LineRow
<1>7. live' = WithoutLines(LiveAfter(E, Q), L)
  BY DEF LiveAfter, WithoutLines, CourtInv, CourtsOf, ActiveLines, LinesOf
<1>8. L \in SUBSET ActiveLines(o) /\ ActiveLines(o) \subseteq L
  OBVIOUS
<1>9. Leaves(E, Q, o, L)
  BY <1>2, <1>3, <1>4, <1>5, <1>6, <1>7, <1>8 DEF Leaves
<1> HIDE DEF L
<1> QED
  BY <1>9, LeftStep

LEMMA ConfirmFreeStep ==
  ASSUME CourtInv, NEW a \in Amendments, NEW approved, NEW t, ConfirmFree(a, approved, t)
  PROVE  CourtInv'
<1> DEFINE E == DueAmendments(now)
           pays == PaymentsAfter(E, {})
<1>1. /\ amendments[a] # NoRow /\ amendments[a].status = "QUOTED"
      /\ NoneAwaits(amendments[a].order, E)
      /\ Applicable(a, pays, E, {}, t) /\ Apply(a, approved, pays, E, {})
  BY DEF ConfirmFree, Confirmable
<1>2. \A b \in Amendments \ (E \cup {a}) : IsAwaiting(b) => amendments[b].order # amendments[a].order
  BY <1>1 DEF NoneAwaits
<1>3. E \subseteq {x \in Amendments : IsAwaiting(x)}
  BY DueAreHeld
<1> HIDE DEF E, pays
<1> QED
  BY <1>1, <1>2, <1>3, ApplyStep

\* An amendment that waited for its payment takes effect.
LEMMA PaidAmendmentStep ==
  ASSUME CourtInv,
         NEW E, E \subseteq {x \in Amendments : IsAwaiting(x)},
         NEW Q, Q \subseteq {x \in Orders : orders[x].status = "HELD"},
         NEW a \in Amendments, IsAwaiting(a), NEW t, NEW approved, NEW pays,
         Applicable(a, pays, E, Q, t), Apply(a, approved, pays, E, Q)
  PROVE  CourtInv'
<1>1. /\ orders[amendments[a].order].status = "CONFIRMED"
      /\ \A b \in Amendments : IsAwaiting(b) /\ amendments[b].order = amendments[a].order => b = a
  BY DEF CourtInv, WaitFits
<1>2. amendments[a] # NoRow /\ amendments[a].order \notin Q
  BY <1>1 DEF IsAwaiting
<1>3. \A b \in Amendments \ (E \cup {a}) :
        IsAwaiting(b) => amendments[b].order # amendments[a].order
  BY <1>1
<1> QED
  BY <1>2, <1>3, ApplyStep

LEMMA BeginOrderPaymentStep ==
  ASSUME CourtInv, NEW p \in Payments, NEW o \in Orders, NEW w, NEW t,
         BeginOrderPayment(p, o, w, t)
  PROVE  CourtInv'
<1> DEFINE E == DueAmendments(now)
           Q == DueOrders(now)
<1>1. /\ orders[o].status = "HELD" /\ o \notin Q
      /\ amendments' = AmendmentsAfter(E) /\ live' = LiveAfter(E, Q) /\ lines' = lines
      /\ \/ orders' = [OrdersAfter(Q) EXCEPT ![o] = PaidOrder(o)]
         \/ orders' = [OrdersAfter(Q) EXCEPT ![o] = @]
  BY DEF BeginOrderPayment, IsHeld
<1>2. /\ E \subseteq {x \in Amendments : IsAwaiting(x)}
      /\ Q \subseteq {x \in Orders : orders[x].status = "HELD"}
  BY DueAreHeld
<1>3. CASE orders' = [OrdersAfter(Q) EXCEPT ![o] = PaidOrder(o)]
  <2> HIDE DEF E, Q
  <2> QED
    BY <1>1, <1>2, <1>3, PaidStep
<1>4. CASE orders' = [OrdersAfter(Q) EXCEPT ![o] = @]
  <2>1. OrdersExpire(Q)
    BY <1>1, <1>4 DEF OrdersExpire, OrdersAfter
  <2> HIDE DEF Q
  <2> QED
    BY <1>1, <1>2, <2>1, ExpiryStep
<1> QED
  BY <1>1, <1>3, <1>4

LEMMA BeginAmendmentPaymentStep ==
  ASSUME CourtInv, NEW p \in Payments, NEW a \in Amendments, NEW w, NEW t,
         BeginAmendmentPayment(p, a, w, t)
  PROVE  CourtInv'
<1> DEFINE E == DueAmendments(now)
<1>1. E \subseteq {x \in Amendments : IsAwaiting(x)} /\ IsAwaiting(a)
  BY DueAreHeld DEF BeginAmendmentPayment
<1>2. CASE w = amendments[a].supplement
  <2> DEFINE pays == [PaymentsAfter(E, {}) EXCEPT ![p] =
                        NewPayment(amendments[a].order, a, amendments[a].supplement, w)]
             none == [l \in DOMAIN amendments[a].changes |-> 0]
  <2>1. Applicable(a, pays, E, {}, t) /\ Apply(a, none, pays, E, {})
    BY <1>2 DEF BeginAmendmentPayment
  <2> HIDE DEF E, pays, none
  <2> QED
    BY <1>1, <2>1, PaidAmendmentStep
<1>3. CASE w # amendments[a].supplement
  <2>1. amendments' = AmendmentsAfter(E) /\ live' = LiveAfter(E, {}) /\ OrdersExpire({})
    BY <1>3, OrdersStay DEF BeginAmendmentPayment
  <2> QED
    BY <2>1, ExpiryStep
<1> QED
  BY <1>2, <1>3

LEMMA SettleOrderStep ==
  ASSUME CourtInv, NEW p \in Payments, PaymentFits(p), NEW t, SettleOrder(p, t)
  PROVE  CourtInv'
<1> DEFINE u == SettleTime(p, t)
           E == DueAmendments(u)
           Q == DueOrders(u)
<1> SUFFICES ASSUME NEW o, o = payments[p].order PROVE CourtInv'
  OBVIOUS
<1>1. o \in Orders
  BY DEF PaymentFits, PaymentRow, SettleOrder, Uncaptured
<1>2. /\ amendments' = AmendmentsAfter(E) /\ live' = LiveAfter(E, Q) /\ lines' = lines
      /\ \/ /\ orders[o].status = "HELD" /\ o \notin Q
            /\ orders' = [OrdersAfter(Q) EXCEPT ![o] = PaidOrder(o)]
         \/ orders' = [OrdersAfter(Q) EXCEPT ![o] = @]
  BY DEF SettleOrder, IsHeld
<1>3. /\ E \subseteq {x \in Amendments : IsAwaiting(x)}
      /\ Q \subseteq {x \in Orders : orders[x].status = "HELD"}
  BY DueAreHeld
<1>4. CASE /\ orders[o].status = "HELD" /\ o \notin Q
           /\ orders' = [OrdersAfter(Q) EXCEPT ![o] = PaidOrder(o)]
  <2> HIDE DEF E, Q
  <2> QED
    BY <1>1, <1>2, <1>3, <1>4, PaidStep
<1>5. CASE orders' = [OrdersAfter(Q) EXCEPT ![o] = @]
  <2>1. OrdersExpire(Q)
    BY <1>2, <1>5 DEF OrdersExpire, OrdersAfter
  <2> HIDE DEF Q, u
  <2> QED
    BY <1>2, <1>3, <2>1, ExpiryStep
<1> QED
  BY <1>2, <1>4, <1>5

LEMMA SettleAppliedStep ==
  ASSUME CourtInv, NEW p \in Payments, PaymentFits(p), NEW t, SettleApplied(p, t)
  PROVE  CourtInv'
<1> SUFFICES ASSUME NEW a, a = payments[p].amendment PROVE CourtInv'
  OBVIOUS
<1> DEFINE E == DueAmendments(SettleTime(p, t))
           Q == DueOrders(SettleTime(p, t))
           pays == SettledPayments(p, E, Q, TRUE)
           none == [l \in DOMAIN amendments[a].changes |-> 0]
<1>1. /\ a \in Amendments /\ amendments[a] # NoRow
  BY DEF SettleApplied, Uncaptured, PaymentFits, PaymentRow
<1>2. IsAwaiting(a)
  BY <1>1 DEF SettleApplied, StillAwaited, IsAwaiting
<1>3. Applicable(a, pays, E, Q, t) /\ Apply(a, none, pays, E, Q)
  BY DEF SettleApplied
<1>4. /\ E \subseteq {x \in Amendments : IsAwaiting(x)}
      /\ Q \subseteq {x \in Orders : orders[x].status = "HELD"}
  BY DueAreHeld
<1> HIDE DEF E, Q, pays, none
<1> QED
  BY <1>1, <1>2, <1>3, <1>4, PaidAmendmentStep

LEMMA SettleRejectedStep ==
  ASSUME CourtInv, NEW p \in Payments, PaymentFits(p), NEW t, SettleRejected(p, t)
  PROVE  CourtInv'
<1> SUFFICES ASSUME NEW a, a = payments[p].amendment PROVE CourtInv'
  OBVIOUS
<1> DEFINE E == DueAmendments(SettleTime(p, t))
           Q == DueOrders(SettleTime(p, t))
<1>1. /\ a \in Amendments /\ amendments[a] # NoRow
  BY DEF SettleRejected, Uncaptured, PaymentFits, PaymentRow
<1>2. /\ amendments' = RejectedAmendments(a, E) /\ live' = RejectedLive(a, E, Q)
      /\ OrdersExpire(Q)
  BY OrdersDo DEF SettleRejected
<1>3. /\ E \subseteq {x \in Amendments : IsAwaiting(x)}
      /\ Q \subseteq {x \in Orders : orders[x].status = "HELD"}
  BY DueAreHeld
<1> HIDE DEF E, Q
<1> QED
  BY <1>1, <1>2, <1>3, EndStep

\* A payment that still waits after what was due has expired was not touched by that.
LEMMA StillPending ==
  ASSUME NEW E, NEW Q, NEW p \in Payments, PaymentFits(p),
         payments[p] # NoRow, PaymentsAfter(E, Q)[p].status = "PENDING"
  PROVE  /\ payments[p].status = "PENDING" /\ PaymentsAfter(E, Q)[p] = payments[p]
         /\ payments[p].amendment \notin E /\ payments[p].order \notin Q
<1>1. DOMAIN payments[p] = {"order", "amendment", "external", "wallet", "status", "reserve"}
  BY DEF PaymentFits, PaymentRow
<1>2. ReleasedPayment(payments[p], "EXPIRED").status = "EXPIRED"
  BY <1>1 DEF ReleasedPayment, SettleReservation
<1> QED
  BY <1>2 DEF PaymentsAfter, IsPending

LEMMA SettleFailureStep ==
  ASSUME CourtInv, NEW p \in Payments, PaymentFits(p), NEW t, SettleFailure(p, t)
  PROVE  CourtInv'
<1> SUFFICES ASSUME NEW a, a = payments[p].amendment, NEW o, o = payments[p].order
             PROVE  CourtInv'
  OBVIOUS
<1> DEFINE E == DueAmendments(SettleTime(p, t))
           Q == DueOrders(SettleTime(p, t))
<1>1. /\ E \subseteq {x \in Amendments : IsAwaiting(x)}
      /\ Q \subseteq {x \in Orders : orders[x].status = "HELD"}
  BY DueAreHeld
<1>2. payments[p] # NoRow /\ PaymentsAfter(E, Q)[p].status = "PENDING"
  BY DEF SettleFailure
<1>3. CASE a # Nil
  <2>1. a \in Amendments /\ amendments[a] # NoRow
    BY <1>2, <1>3 DEF PaymentFits, PaymentRow
  <2>2. /\ amendments' = RejectedAmendments(a, E) /\ live' = RejectedLive(a, E, Q)
        /\ OrdersExpire(Q)
    BY <1>3, OrdersDo DEF SettleFailure
  <2> HIDE DEF E, Q
  <2> QED
    BY <1>1, <2>1, <2>2, EndStep
<1>4. CASE a = Nil
  <2>1. payments[p].status = "PENDING" /\ o \notin Q
    BY <1>2, StillPending
  <2>2. o \in Orders /\ orders[o].status = "HELD"
    BY <1>2, <1>4, <2>1 DEF PaymentFits, PaymentRow, IsHeld
  <2>3. \A b \in Amendments \ E : IsAwaiting(b) => amendments[b].order # o
    BY <2>2, NoneAwaitsHeld
  <2>4. /\ orders' = [OrdersAfter(Q) EXCEPT ![o] = CancelledOrder(o)]
        /\ lines' = LinesCancelled(o)
        /\ amendments' = AmendmentsAfter(E) /\ live' = LiveAfter(E, Q \cup {o})
    BY <1>4 DEF SettleFailure
  <2> HIDE DEF E, Q
  <2> QED
    BY <1>1, <2>1, <2>2, <2>3, <2>4, CancelledStep
<1> QED
  BY <1>3, <1>4

LEMMA CancelUnpaidOrderStep ==
  ASSUME CourtInv, NEW o \in Orders, CancelUnpaidOrder(o)
  PROVE  CourtInv'
<1> DEFINE E == DueAmendments(now)
           Q == DueOrders(now)
<1>1. /\ E \subseteq {x \in Amendments : IsAwaiting(x)}
      /\ Q \subseteq {x \in Orders : orders[x].status = "HELD"}
  BY DueAreHeld
<1>2. /\ orders' = [OrdersAfter(Q) EXCEPT ![o] = CancelledOrder(o)]
      /\ lines' = LinesCancelled(o)
      /\ amendments' = AmendmentsAfter(E) /\ live' = LiveAfter(E, Q \cup {o})
      /\ o \notin Q
      /\ \A b \in Amendments \ E : IsAwaiting(b) => amendments[b].order # o
  BY DEF CancelUnpaidOrder, NoneAwaits
<1> HIDE DEF E, Q
<1> QED
  BY <1>1, <1>2, CancelledStep

LEMMA CancelUnpaidOrderLinesStep ==
  ASSUME CourtInv, NEW o \in Orders, NEW L, NEW t, CancelUnpaidOrderLines(o, L, t)
  PROVE  CourtInv'
<1> DEFINE rows == [l \in Lines |-> IF l \in L THEN [lines[l] EXCEPT !.state = "DROPPED",
                                                                   !.left = 0]
                                    ELSE lines[l]]
           active == {l \in LinesOf(o) : rows[l].state = "ACTIVE"}
           free   == TotalOf(o, rows) = 0
           status == IF active = {} THEN "CANCELLED" ELSE IF free THEN "CONFIRMED" ELSE "HELD"
           paid   == IF active # {} /\ free THEN "NOT_REQUIRED" ELSE "UNPAID"
           hold   == IF active = {} \/ free THEN 0 ELSE orders[o].holdUntil
           r      == RefreshedUnpaid(o, rows)
<1>1. /\ OrderRow(orders[o]) /\ \A l \in Lines : LineRow(lines[l])
      /\ DOMAIN orders = Orders /\ DOMAIN amendments = Amendments /\ DOMAIN lines = Lines
  BY DEF CourtInv, RowsFit
<1>2. /\ L \subseteq ActiveLines(o) /\ orders[o].status = "HELD" /\ NoneAwaits(o, {})
      /\ lines' = rows /\ live' = WithoutLines(live, L)
      /\ orders' = [orders EXCEPT ![o] = r] /\ amendments' = amendments
  BY DEF CancelUnpaidOrderLines, UnpaidEditable, IsHeld
<1>3. /\ OrderRow(r) /\ r.revision > orders[o].revision
      /\ ~(ActiveLines(o) \subseteq L) => r.status \in {"HELD", "CONFIRMED"}
  <2>1. r = [orders[o] EXCEPT !.status = status, !.paid = paid, !.holdUntil = hold,
                              !.revision = @ + 1]
    BY <1>1 DEF RefreshedUnpaid, OrderRow
  <2>2. ~(ActiveLines(o) \subseteq L) => active # {}
    BY DEF ActiveLines, LinesOf
  <2>3. ~(ActiveLines(o) \subseteq L) => status \in {"HELD", "CONFIRMED"}
    BY <2>2
  <2> HIDE DEF r, status, paid, hold
  <2> QED
    BY <1>1, <2>1, <2>3 DEF OrderRow
<1>4. ASSUME NEW l \in Lines
      PROVE  /\ OrderOf[l] # o => lines'[l] = lines[l]
             /\ LineRow(lines'[l]) /\ lines'[l].slot = lines[l].slot
             /\ IF l \in L THEN lines'[l].state # "ACTIVE" ELSE lines'[l].state = lines[l].state
  BY <1>1, <1>2 DEF ActiveLines, LinesOf, LineRow
<1> HIDE DEF r
<1>5. /\ orders'[o] = r /\ DOMAIN orders' = Orders
      /\ \A x \in Orders \ {o} : orders'[x] = OrdersAfter({})[x]
  BY <1>1, <1>2 DEF OrdersAfter
<1>6. /\ \A b \in Amendments \ {} : IsAwaiting(b) => amendments[b].order # o
      /\ \A b \in Amendments : amendments'[b] = AmendmentsAfter({})[b]
  BY <1>2 DEF NoneAwaits, AmendmentsAfter
<1>7. live' = WithoutLines(LiveAfter({}, {}), L)
  BY <1>2 DEF LiveAfter, WithoutLines
<1>8. DOMAIN lines' = Lines /\ DOMAIN amendments' = Amendments
  BY <1>1, <1>2
<1>9. /\ Alive(o)' => Alive(o)
      /\ Alive(o) /\ ~(ActiveLines(o) \subseteq L) => Alive(o)'
  BY <1>2, <1>3, <1>5 DEF Alive
<1>10. Leaves({}, {}, o, L)
  BY <1>2, <1>3, <1>4, <1>5, <1>6, <1>7, <1>8, <1>9 DEF Leaves
<1> QED
  BY <1>10, LeftStep

LEMMA LeftOrderRow ==
  ASSUME CourtInv, NEW o \in Orders, NEW L, NEW back
  PROVE  LET r == LeftOrder(o, L, back)
         IN /\ OrderRow(r) /\ r.revision > orders[o].revision
            /\ r.status = IF ActiveLines(o) \subseteq L THEN "CANCELLED" ELSE orders[o].status
<1> DEFINE r == LeftOrder(o, L, back)
           none == ActiveLines(o) \subseteq L
           status == IF none THEN "CANCELLED" ELSE orders[o].status
<1>1. OrderRow(orders[o])
  BY DEF CourtInv, RowsFit
<1>2. r = [orders[o] EXCEPT !.revision = @ + 1, !.returned = @ + back, !.status = status]
  BY <1>1 DEF LeftOrder, OrderRow
<1>3. OrderRow(r) /\ r.revision > orders[o].revision /\ r.status = status
  <2> HIDE DEF r, status
  <2> QED
    BY <1>1, <1>2 DEF OrderRow
<1> QED
  BY <1>3

LEMMA CancelFreeOrderLinesStep ==
  ASSUME CourtInv, NEW o \in Orders, NEW L, CancelFreeOrderLines(o, L)
  PROVE  CourtInv'
<1> DEFINE E == DueAmendments(now)
           Q == DueOrders(now)
           r == LeftOrder(o, L, 0)
<1>1. /\ \A l \in Lines : LineRow(lines[l])
  BY DEF CourtInv, RowsFit
<1>2. /\ L \subseteq ActiveLines(o) /\ orders[o].status = "CONFIRMED" /\ NoneAwaits(o, E)
      /\ lines' = LinesOut(L, "CANCELLED") /\ live' = WithoutLines(LiveAfter(E, Q), L)
      /\ orders' = [OrdersAfter(Q) EXCEPT ![o] = r] /\ amendments' = AmendmentsAfter(E)
  BY DEF CancelFreeOrderLines
<1>3. /\ E \subseteq {x \in Amendments : IsAwaiting(x)}
      /\ Q \subseteq {x \in Orders : orders[x].status = "HELD"}
  BY DueAreHeld
<1>4. /\ OrderRow(r) /\ r.revision > orders[o].revision
      /\ r.status = IF ActiveLines(o) \subseteq L THEN "CANCELLED" ELSE orders[o].status
  BY LeftOrderRow
<1>5. ASSUME NEW l \in Lines
      PROVE  /\ OrderOf[l] # o => lines'[l] = lines[l]
             /\ LineRow(lines'[l]) /\ lines'[l].slot = lines[l].slot
             /\ IF l \in L THEN lines'[l].state # "ACTIVE" ELSE lines'[l].state = lines[l].state
  BY <1>1, <1>2 DEF LinesOut, ActiveLines, LinesOf, LineRow
<1> HIDE DEF r, E, Q
<1>6. /\ orders'[o] = r /\ DOMAIN orders' = Orders
      /\ \A x \in Orders \ {o} : orders'[x] = OrdersAfter(Q)[x]
  BY <1>2 DEF OrdersAfter
<1>7. /\ \A b \in Amendments \ E : IsAwaiting(b) => amendments[b].order # o
      /\ \A b \in Amendments : amendments'[b] = AmendmentsAfter(E)[b]
      /\ DOMAIN lines' = Lines /\ DOMAIN amendments' = Amendments
  BY <1>2 DEF NoneAwaits, AmendmentsAfter, LinesOut
<1>8. /\ Alive(o)' => Alive(o)
      /\ Alive(o) /\ ~(ActiveLines(o) \subseteq L) => Alive(o)'
  BY <1>2, <1>4, <1>6 DEF Alive
<1>9. Leaves(E, Q, o, L)
  BY <1>2, <1>4, <1>5, <1>6, <1>7, <1>8 DEF Leaves
<1>10. o \notin Q
  BY <1>2, <1>3
<1> QED
  BY <1>3, <1>9, <1>10, LeftStep

LEMMA RequestOrderRefundStep ==
  ASSUME CourtInv, NEW o \in Orders, NEW C, NEW cents \in [C -> RefundCents], NEW L,
         RequestOrderRefund(o, cents, L)
  PROVE  CourtInv'
<1> DEFINE E == DueAmendments(now)
           back == SumOf(cents)
           r == LeftOrder(o, L, back)
<1>1. /\ \A l \in Lines : LineRow(lines[l])
      /\ DOMAIN orders = Orders
  BY DEF CourtInv, RowsFit
<1>2. /\ L \subseteq ActiveLines(o) /\ NoneAwaits(o, E)
      /\ DOMAIN cents \subseteq LinesOf(o) /\ L \subseteq DOMAIN cents
      /\ lines' = [l \in Lines |->
           IF l \in DOMAIN cents THEN [LinesOut(L, "CANCELLED")[l] EXCEPT !.left = @ - cents[l]]
           ELSE lines[l]]
      /\ live' = WithoutLines(LiveAfter(E, {}), L)
      /\ orders' = [orders EXCEPT ![o] = r] /\ amendments' = AmendmentsAfter(E)
  BY DEF RequestOrderRefund
<1>3. E \subseteq {x \in Amendments : IsAwaiting(x)}
  BY DueAreHeld
<1> HIDE DEF back
<1>4. /\ OrderRow(r) /\ r.revision > orders[o].revision
      /\ r.status = IF ActiveLines(o) \subseteq L THEN "CANCELLED" ELSE orders[o].status
  BY LeftOrderRow
<1>5. ASSUME NEW l \in Lines
      PROVE  /\ OrderOf[l] # o => lines'[l] = lines[l]
             /\ LineRow(lines'[l]) /\ lines'[l].slot = lines[l].slot
             /\ IF l \in L THEN lines'[l].state # "ACTIVE" ELSE lines'[l].state = lines[l].state
  <2> DEFINE out == LinesOut(L, "CANCELLED")[l]
             left == out.left - cents[l]
  <2>1. /\ LineRow(out) /\ out.slot = lines[l].slot
        /\ IF l \in L THEN out.state # "ACTIVE" ELSE out.state = lines[l].state
    BY <1>1 DEF LinesOut, LineRow
  <2>2. CASE l \in DOMAIN cents
    <3> HIDE DEF out, left
    <3>1. lines'[l] = [out EXCEPT !.left = left]
      BY <1>2, <2>1, <2>2 DEF out, left, LineRow
    <3>2. LineRow(lines'[l]) /\ lines'[l].slot = out.slot /\ lines'[l].state = out.state
      BY <2>1, <3>1 DEF LineRow
    <3> QED
      BY <1>2, <2>1, <2>2, <3>2 DEF LinesOf
  <2>3. CASE l \notin DOMAIN cents
    BY <1>1, <1>2, <2>3
  <2> QED
    BY <2>2, <2>3
<1> HIDE DEF r, E
<1>6. /\ orders'[o] = r /\ DOMAIN orders' = Orders
      /\ \A x \in Orders \ {o} : orders'[x] = OrdersAfter({})[x]
  BY <1>1, <1>2 DEF OrdersAfter
<1>7. /\ \A b \in Amendments \ E : IsAwaiting(b) => amendments[b].order # o
      /\ \A b \in Amendments : amendments'[b] = AmendmentsAfter(E)[b]
      /\ DOMAIN lines' = Lines /\ DOMAIN amendments' = Amendments
  BY <1>2 DEF NoneAwaits, AmendmentsAfter
<1>8. /\ Alive(o)' => Alive(o)
      /\ Alive(o) /\ ~(ActiveLines(o) \subseteq L) => Alive(o)'
  BY <1>2, <1>4, <1>6 DEF Alive
<1>9. Leaves(E, {}, o, L)
  BY <1>2, <1>4, <1>5, <1>6, <1>7, <1>8 DEF Leaves
<1> QED
  BY <1>3, <1>9, LeftStep

(***************************************************************************)
(* Every behaviour keeps the invariant.                                    *)
(***************************************************************************)
LEMMA CourtInit == Init => CourtInv
<1> SUFFICES ASSUME Init PROVE CourtInv
  OBVIOUS
<1>1. PICK booked \in Bookings :
        /\ lines = [l \in Lines |-> [slot |-> booked[l].slot, cents |-> booked[l].cents,
                                     state |-> "ACTIVE", left |-> booked[l].cents]]
        /\ live = {Line(l, booked[l].slot) : l \in Lines}
  BY DEF Init
<1>2. booked \in [Lines -> Offers]
      /\ \A l, m \in Lines : l # m => ~Overlap(booked[l].slot, booked[m].slot)
  BY BookingsAssumption
<1>3. ASSUME NEW l \in Lines
      PROVE  /\ LineRow(lines[l]) /\ lines[l].slot = booked[l].slot
             /\ lines[l].state = "ACTIVE" /\ IsInterval(booked[l].slot)
  BY <1>1, <1>2, SlotsAreIntervals DEF LineRow, Slots
<1>4. ASSUME NEW o \in Orders PROVE OrderRow(orders[o]) /\ Alive(o)
  <2> DEFINE free == TotalOf(o, lines) = 0
  <2>1. orders[o] = [status |-> IF free THEN "CONFIRMED" ELSE "HELD",
                     paid |-> IF free THEN "NOT_REQUIRED" ELSE "UNPAID",
                     holdUntil |-> IF free THEN 0 ELSE OrderHold,
                     revision |-> 1, returned |-> 0]
    BY DEF Init
  <2> HIDE DEF free
  <2> QED
    BY <2>1 DEF OrderRow, Alive
<1>5. ASSUME NEW u \in live
      PROVE  /\ LiveRow(u) /\ u.kind = "LINE" /\ u.source \in Lines
             /\ u.slot = booked[u.source].slot /\ u = Line(u.source, booked[u.source].slot)
  BY <1>1, <1>3, <1>5 DEF LiveRow, Line
<1>6. RowsFit
  BY <1>1, <1>3, <1>4, <1>5 DEF RowsFit, Init
<1>7. Disjoint(live)
  <2> SUFFICES ASSUME NEW u \in live, NEW v \in live, u # v PROVE ~Overlap(u.slot, v.slot)
    BY DEF Disjoint
  <2>1. u.source # v.source
    BY <1>5
  <2> QED
    BY <1>2, <1>5, <2>1
<1>8. StagedAwaits
  BY <1>5 DEF StagedAwaits
<1>9. ASSUME NEW o \in Orders PROVE CourtsOf(o)
  <2>1. ASSUME NEW u \in live, OrderOf[u.source] = o
        PROVE  u.source \in ActiveLines(o) /\ u.slot = lines[u.source].slot
    BY <1>3, <1>5, <2>1 DEF ActiveLines, LinesOf
  <2>2. \A l \in ActiveLines(o) : Line(l, lines[l].slot) \in live
    BY <1>1, <1>3 DEF ActiveLines, LinesOf
  <2> QED
    BY <1>4, <2>1, <2>2 DEF CourtsOf
<1>10. \A a \in Amendments : QuoteFits(a) /\ WaitFits(a)
  BY DEF Init, QuoteFits, WaitFits, IsAwaiting
<1> QED
  BY <1>6, <1>7, <1>8, <1>9, <1>10 DEF CourtInv

LEMMA CourtStep ==
  ASSUME CourtInv, \A p \in Payments : PaymentFits(p), [Next]_vars
  PROVE  CourtInv'
<1>1. CASE UNCHANGED vars \/ Tick \/ \E m \in Minimums : UpdateVenue(m)
  <2>1. UNCHANGED <<orders, lines, live, amendments>>
    BY <1>1 DEF vars, Tick, UpdateVenue
  <2> QED
    BY <2>1, BlockStep DEF CourtInv, RowsFit, Disjoint
<1>2. CASE ExpireVenueAmendments
  BY <1>2, ExpiryStep, OrdersStay DEF ExpireVenueAmendments
<1>3. CASE ExpireVenueHolds
  BY <1>3, ExpiryStep, OrdersDo, DueAreHeld DEF ExpireVenueHolds
<1>4. ASSUME NEW b \in Blocks, NEW s \in BlockSlots, OccupyCourt(b, s) \/ ReleaseCourtOccupancy(b, s)
      PROVE  CourtInv'
  BY <1>4, OccupyStep, ReleaseStep
<1>5. CASE Amend
  <2>1. ASSUME NEW a \in Amendments, NEW o \in Orders, NEW C \in SUBSET Lines, NEW t \in Clock,
               NEW new \in [C -> Offers], PreviewOrderAmendment(a, o, new, t)
        PROVE  CourtInv'
    BY <2>1, PreviewStep
  <2>2. ASSUME NEW a \in Amendments, NEW t \in Clock, NEW f \in Approvals(a), ConfirmFree(a, f, t)
        PROVE  CourtInv'
    BY <2>2, ConfirmFreeStep
  <2>3. ASSUME NEW a \in Amendments, NEW t \in Clock, ConfirmSupplement(a, t)
        PROVE  CourtInv'
    BY <2>3, ConfirmSupplementStep
  <2>4. ASSUME NEW a \in Amendments, CancelOrderAmendment(a)
        PROVE  CourtInv'
    BY <2>4, CancelAmendmentStep
  <2> QED
    BY <1>5, <2>1, <2>2, <2>3, <2>4 DEF Amend
<1>6. CASE Pay
  <2>1. ASSUME NEW p \in Payments, NEW t \in Clock, NEW w \in WalletParts,
               NEW o \in Orders, BeginOrderPayment(p, o, w, t)
        PROVE  CourtInv'
    BY <2>1, BeginOrderPaymentStep
  <2>2. ASSUME NEW p \in Payments, NEW t \in Clock, NEW w \in WalletParts,
               NEW a \in Amendments, BeginAmendmentPayment(p, a, w, t)
        PROVE  CourtInv'
    BY <2>2, BeginAmendmentPaymentStep
  <2>3. ASSUME NEW p \in Payments, NEW t \in Clock,
               \/ SettleOrder(p, t) \/ SettleApplied(p, t)
               \/ SettleRejected(p, t) \/ SettleFailure(p, t)
        PROVE  CourtInv'
    BY <2>3, SettleOrderStep, SettleAppliedStep, SettleRejectedStep, SettleFailureStep
  <2> QED
    BY <1>6, <2>1, <2>2, <2>3 DEF Pay
<1>7. CASE Leave
  <2>1. ASSUME NEW o \in Orders, CancelUnpaidOrder(o) PROVE CourtInv'
    BY <2>1, CancelUnpaidOrderStep
  <2>2. ASSUME NEW o \in Orders, NEW L \in SUBSET Lines, NEW t \in Clock,
               CancelUnpaidOrderLines(o, L, t)
        PROVE  CourtInv'
    BY <2>2, CancelUnpaidOrderLinesStep
  <2>3. ASSUME NEW o \in Orders, NEW L \in SUBSET Lines, CancelFreeOrderLines(o, L)
        PROVE  CourtInv'
    BY <2>3, CancelFreeOrderLinesStep
  <2>4. ASSUME NEW o \in Orders, NEW L \in SUBSET Lines, NEW C \in SUBSET Lines,
               NEW cents \in [C -> RefundCents], RequestOrderRefund(o, cents, L)
        PROVE  CourtInv'
    BY <2>4, RequestOrderRefundStep
  <2> QED
    BY <1>7, <2>1, <2>2, <2>3, <2>4 DEF Leave
<1> QED
  BY <1>1, <1>2, <1>3, <1>4, <1>5, <1>6, <1>7 DEF Next

(***************************************************************************)
(* What follows from the invariant.                                        *)
(***************************************************************************)
LEMMA InvImpliesCourtsFollowLines == CourtInv => CourtsFollowLines
<1> SUFFICES ASSUME CourtInv PROVE CourtsFollowLines
  OBVIOUS
<1>1. \A u, v \in live : u # v => ~Overlap(u.slot, v.slot)
  BY DEF CourtInv, Disjoint
<1>2. ASSUME NEW u \in live, u.kind = "LINE"
      PROVE  u \in {Line(l, lines[l].slot) : l \in HoldingLines}
  <2>1. u = Line(u.source, u.slot) /\ u.source \in Lines
    BY <1>2 DEF CourtInv, RowsFit, LiveRow, Line
  <2>2. OrderOf[u.source] \in Orders
    BY <2>1, BookingsAssumption
  <2>3. u.source \in HoldingLines /\ u.slot = lines[u.source].slot
    BY <1>2, <2>2 DEF CourtInv, CourtsOf, Alive, ActiveLines, LinesOf, HoldingLines
  <2> QED
    BY <2>1, <2>3
<1>3. ASSUME NEW l \in HoldingLines
      PROVE  Line(l, lines[l].slot) \in live /\ Line(l, lines[l].slot).kind = "LINE"
  <2>1. l \in Lines /\ OrderOf[l] \in Orders
    BY BookingsAssumption DEF HoldingLines
  <2>2. l \in ActiveLines(OrderOf[l]) /\ Alive(OrderOf[l])
    BY <2>1 DEF HoldingLines, ActiveLines, LinesOf, Alive
  <2> QED
    BY <2>1, <2>2 DEF CourtInv, CourtsOf, Line
<1>4. {u \in live : u.kind = "LINE"} \subseteq {Line(l, lines[l].slot) : l \in HoldingLines}
  BY <1>2
<1>5. {Line(l, lines[l].slot) : l \in HoldingLines} \subseteq {u \in live : u.kind = "LINE"}
  BY <1>3
<1> QED
  BY <1>1, <1>4, <1>5 DEF CourtsFollowLines

LEMMA InvImpliesAwaitingKeepsItsCourts == CourtInv => AwaitingKeepsItsCourts
BY DEF CourtInv, StagedAwaits, WaitFits, CourtsHeld, AwaitingKeepsItsCourts

(***************************************************************************)
(* What a step may do to the line l: the body of ChangesAreAgreed.         *)
(***************************************************************************)
AgreedChange(l) ==
  <<lines'[l].slot, lines'[l].cents>> # <<lines[l].slot, lines[l].cents>> =>
    \E a \in Amendments :
      LET m == amendments[a] IN
      /\ m # NoRow /\ m.status # "APPLIED" /\ amendments'[a].status = "APPLIED"
      /\ m.base = orders[OrderOf[l]].revision /\ l \in DOMAIN m.changes
      /\ m.changes[l].old = lines[l].slot /\ m.changes[l].new = lines'[l].slot
      /\ now' < (IF m.status = "QUOTED" THEN m.expiresAt ELSE m.holdUntil)
      /\ now' < lines[l].slot.start /\ now' < lines'[l].slot.start

LEMMA ApplyIsAgreed ==
  ASSUME CourtInv, NEW E, NEW Q, NEW a \in Amendments, NEW t, NEW approved, NEW pays,
         amendments[a] # NoRow, Applicable(a, pays, E, Q, t), Apply(a, approved, pays, E, Q),
         now' = t, NEW l \in Lines
  PROVE  AgreedChange(l)
<1> DEFINE m == amendments[a]
           c == m.changes[l]
<1>1. /\ a \notin E /\ m.status \in {"QUOTED", "AWAITING_PAYMENT"}
      /\ orders[m.order].revision = m.base
      /\ t < IF m.status = "QUOTED" THEN m.expiresAt ELSE m.holdUntil
      /\ l \in DOMAIN m.changes => c.old.start > t /\ c.new.start > t
  BY DEF Applicable, TargetsFree
<1>2. /\ AmendmentRow(m) /\ DOMAIN lines[l] = {"slot", "cents", "state", "left"}
      /\ l \in DOMAIN m.changes => c.old = lines[l].slot
  BY <1>1 DEF CourtInv, QuoteFits, RowsFit, LineRow
<1>3. CASE l \in DOMAIN m.changes
  <2> DEFINE left == IF m.unpaid THEN c.cents ELSE lines[l].left + c.delta - approved[l]
  <2>1. lines'[l] = [lines[l] EXCEPT !.slot = c.new, !.cents = c.cents, !.left = left]
    BY <1>2, <1>3 DEF Apply, LinesApplied
  <2> HIDE DEF left
  <2>2. lines'[l].slot = c.new
    BY <1>2, <2>1
  <2>3. OrderOf[l] = m.order
    BY <1>2, <1>3 DEF AmendmentRow, LinesOf
  <2>4. amendments'[a].status = "APPLIED"
    <3>1. AmendmentsAfter(E)[a] = m /\ DOMAIN AmendmentsAfter(E) = Amendments
      BY <1>1 DEF AmendmentsAfter
    <3>2. amendments'[a] = [m EXCEPT !.status = "APPLIED", !.holdUntil = 0]
      BY <3>1 DEF Apply
    <3> QED
      BY <1>2, <3>2 DEF AmendmentRow
  <2>5. m.status # "APPLIED" /\ m.base = orders[OrderOf[l]].revision
    BY <1>1, <2>3
  <2>6. now' < lines[l].slot.start /\ now' < lines'[l].slot.start
    BY <1>1, <1>2, <1>3, <2>2
  <2> HIDE DEF m
  <2> QED
    BY <1>1, <1>2, <1>3, <2>2, <2>4, <2>5, <2>6 DEF AgreedChange, m
<1>4. CASE l \notin DOMAIN m.changes
  BY <1>4 DEF Apply, LinesApplied, AgreedChange
<1> QED
  BY <1>3, <1>4

LEMMA AgreedStep ==
  ASSUME CourtInv, \A p \in Payments : PaymentFits(p), [Next]_vars, NEW l \in Lines
  PROVE  AgreedChange(l)
<1> DEFINE Same == lines'[l].slot = lines[l].slot /\ lines'[l].cents = lines[l].cents
<1>1. Same => AgreedChange(l)
  BY DEF AgreedChange
<1>2. DOMAIN lines[l] = {"slot", "cents", "state", "left"}
  BY DEF CourtInv, RowsFit, LineRow
<1>3. CASE UNCHANGED lines
  BY <1>1, <1>3
<1>4. ASSUME NEW a \in Amendments, NEW t, NEW f, ConfirmFree(a, f, t) PROVE AgreedChange(l)
  <2> DEFINE E == DueAmendments(now)
             pays == PaymentsAfter(E, {})
  <2>1. /\ amendments[a] # NoRow /\ Applicable(a, pays, E, {}, t) /\ Apply(a, f, pays, E, {})
        /\ now' = t
    BY <1>4 DEF ConfirmFree, Confirmable
  <2> HIDE DEF E, pays
  <2> QED
    BY <2>1, ApplyIsAgreed
<1>5. ASSUME NEW p \in Payments, NEW a \in Amendments, NEW w, NEW t,
             BeginAmendmentPayment(p, a, w, t)
      PROVE  AgreedChange(l)
  <2> DEFINE E == DueAmendments(now)
             pays == [PaymentsAfter(E, {}) EXCEPT ![p] =
                        NewPayment(amendments[a].order, a, amendments[a].supplement, w)]
             none == [k \in DOMAIN amendments[a].changes |-> 0]
  <2>1. \/ UNCHANGED lines
        \/ Applicable(a, pays, E, {}, t) /\ Apply(a, none, pays, E, {})
    BY <1>5 DEF BeginAmendmentPayment
  <2>2. amendments[a] # NoRow /\ now' = t
    BY <1>5 DEF BeginAmendmentPayment, IsAwaiting
  <2> HIDE DEF E, pays, none
  <2> QED
    BY <1>3, <2>1, <2>2, ApplyIsAgreed
<1>6. ASSUME NEW p \in Payments, NEW t, SettleApplied(p, t) PROVE AgreedChange(l)
  <2> SUFFICES ASSUME NEW a, a = payments[p].amendment PROVE AgreedChange(l)
    OBVIOUS
  <2> DEFINE E == DueAmendments(SettleTime(p, t))
             Q == DueOrders(SettleTime(p, t))
             pays == SettledPayments(p, E, Q, TRUE)
             none == [k \in DOMAIN amendments[a].changes |-> 0]
  <2>1. /\ Applicable(a, pays, E, Q, t) /\ Apply(a, none, pays, E, Q) /\ now' = t
        /\ a # Nil /\ payments[p] # NoRow
    BY <1>6 DEF SettleApplied, Uncaptured
  <2>2. a \in Amendments /\ amendments[a] # NoRow
    BY <2>1 DEF PaymentFits, PaymentRow
  <2> HIDE DEF E, Q, pays, none
  <2> QED
    BY <2>1, <2>2, ApplyIsAgreed
<1>7. ASSUME NEW o, lines' = LinesCancelled(o) PROVE AgreedChange(l)
  BY <1>1, <1>2, <1>7 DEF LinesCancelled
<1>8. ASSUME NEW p, NEW t, SettleFailure(p, t) PROVE AgreedChange(l)
  BY <1>3, <1>7, <1>8 DEF SettleFailure
<1>9. ASSUME NEW o, NEW L, NEW t, CancelUnpaidOrderLines(o, L, t) PROVE AgreedChange(l)
  BY <1>1, <1>2, <1>9 DEF CancelUnpaidOrderLines
<1>10. ASSUME NEW o, NEW L, CancelFreeOrderLines(o, L) PROVE AgreedChange(l)
  BY <1>1, <1>2, <1>10 DEF CancelFreeOrderLines, LinesOut
<1>11. ASSUME NEW o, NEW cents, NEW L, RequestOrderRefund(o, cents, L) PROVE AgreedChange(l)
  <2> DEFINE out == LinesOut(L, "CANCELLED")[l]
             left == out.left - cents[l]
  <2>1. DOMAIN out = DOMAIN lines[l] /\ out.slot = lines[l].slot /\ out.cents = lines[l].cents
    BY <1>2 DEF LinesOut
  <2>2. lines'[l] = [out EXCEPT !.left = left] \/ lines'[l] = lines[l]
    BY <1>2, <1>11, <2>1 DEF RequestOrderRefund
  <2> HIDE DEF out, left
  <2> QED
    BY <1>1, <1>2, <2>1, <2>2
<1>12. CASE Amend
  <2>1. ASSUME NEW a, NEW o, NEW new, NEW t, PreviewOrderAmendment(a, o, new, t)
        PROVE  AgreedChange(l)
    BY <1>3, <2>1 DEF PreviewOrderAmendment
  <2>2. ASSUME NEW a, NEW t, ConfirmSupplement(a, t) PROVE AgreedChange(l)
    BY <1>3, <2>2 DEF ConfirmSupplement
  <2>3. ASSUME NEW a, CancelOrderAmendment(a) PROVE AgreedChange(l)
    BY <1>3, <2>3 DEF CancelOrderAmendment
  <2> QED
    BY <1>4, <1>12, <2>1, <2>2, <2>3 DEF Amend
<1>13. CASE Pay
  <2>1. ASSUME NEW p, NEW o, NEW w, NEW t, BeginOrderPayment(p, o, w, t) PROVE AgreedChange(l)
    BY <1>3, <2>1 DEF BeginOrderPayment
  <2>2. ASSUME NEW p, NEW t, SettleOrder(p, t) \/ SettleRejected(p, t) PROVE AgreedChange(l)
    BY <1>3, <2>2 DEF SettleOrder, SettleRejected
  <2> QED
    BY <1>5, <1>6, <1>8, <1>13, <2>1, <2>2 DEF Pay
<1>14. CASE Leave
  <2>1. ASSUME NEW o, CancelUnpaidOrder(o) PROVE AgreedChange(l)
    BY <1>7, <2>1 DEF CancelUnpaidOrder
  <2> QED
    BY <1>9, <1>10, <1>11, <1>14, <2>1 DEF Leave
<1>15. CASE \/ UNCHANGED vars \/ Tick \/ (\E m \in Minimums : UpdateVenue(m))
            \/ ExpireVenueAmendments \/ ExpireVenueHolds
            \/ \E b \in Blocks, s \in BlockSlots : OccupyCourt(b, s) \/ ReleaseCourtOccupancy(b, s)
  BY <1>3, <1>15 DEF vars, Tick, UpdateVenue, ExpireVenueAmendments, ExpireVenueHolds,
                     OccupyCourt, ReleaseCourtOccupancy
<1> QED
  BY <1>12, <1>13, <1>14, <1>15 DEF Next

(***************************************************************************)
(* The payments.                                                           *)
(*                                                                         *)
(* The inductive invariant is PaymentInv beside CourtInv.  An amendment    *)
(* has at most one payment ever, because a payment that does not succeed   *)
(* ends the amendment, and an order at most one pending payment of its     *)
(* own.                                                                    *)
(***************************************************************************)
PaymentFollows(p) ==
  LET r == payments[p]
      a == r.amendment
  IN
  r # NoRow =>
    /\ r.status = "PENDING" /\ a # Nil => IsAwaiting(a)
    /\ r.status = "SUCCEEDED" /\ a # Nil =>
         amendments[a].status = "APPLIED" /\ Amount(r) = amendments[a].supplement
    /\ r.status \notin {"PENDING", "SUCCEEDED"} /\ a # Nil =>
         amendments[a].status \in {"CANCELLED", "EXPIRED"}
    /\ r.wallet > 0 =>
         r.reserve = CASE r.status = "PENDING" -> "RESERVED"
                       [] r.status = "SUCCEEDED" -> "CONSUMED"
                       [] OTHER -> "RELEASED"

\* Two payments are not of one amendment, and not both pending for one order.
Apart(r, s) ==
  /\ r.amendment = s.amendment => r.amendment = Nil
  /\ r.status = "PENDING" /\ s.status = "PENDING" /\ r.amendment = Nil /\ s.amendment = Nil =>
       r.order # s.order

Alone ==
  \A p, q \in Payments :
    p # q /\ payments[p] # NoRow /\ payments[q] # NoRow => Apart(payments[p], payments[q])

Captures(a) ==
  {p \in Payments : payments[p] # NoRow /\ payments[p].amendment = a
                    /\ payments[p].status = "SUCCEEDED"}

AppliedOnce(a) ==
  amendments[a] # NoRow /\ amendments[a].status = "APPLIED" /\ amendments[a].supplement > 0 =>
    Cardinality(Captures(a)) = 1

PaymentInv ==
  /\ DOMAIN payments = Payments
  /\ \A p \in Payments : PaymentFits(p) /\ PaymentFollows(p)
  /\ Alone
  /\ \A a \in Amendments : AppliedOnce(a)

(***************************************************************************)
(* Rows.                                                                   *)
(***************************************************************************)
LEMMA Released ==
  ASSUME NEW r, PaymentRow(r), NEW status \in {"FAILED", "EXPIRED", "CANCELLED"}
  PROVE  LET s == ReleasedPayment(r, status)
         IN /\ PaymentRow(s) /\ s # NoRow /\ s.status = status
            /\ s.order = r.order /\ s.amendment = r.amendment
            /\ s.wallet = r.wallet /\ s.external = r.external
            /\ s.reserve = IF r.reserve = "RESERVED" THEN "RELEASED" ELSE r.reserve
BY DEF PaymentRow, ReleasedPayment, SettleReservation, NoRow

\* Payment p is as it was or ended, and not pending unless it was.
Kept(p) ==
  payments'[p] # NoRow =>
    /\ payments[p] # NoRow
    /\ payments'[p].order = payments[p].order /\ payments'[p].amendment = payments[p].amendment
    /\ payments'[p].status = "PENDING" => payments[p].status = "PENDING"

\* What a command does to the payments P and to the rest.
PaySwept(E, Q, P, O, A) ==
  /\ DOMAIN payments' = Payments
  /\ \A p \in Payments \ P : payments'[p] = PaymentsAfter(E, Q)[p]
  /\ \A o \in Orders \ O : orders'[o] = OrdersAfter(Q)[o]
  /\ \A a \in Amendments \ A : amendments'[a] = AmendmentsAfter(E)[a]
  /\ \A p \in Payments \ P : payments[p] # NoRow =>
       /\ payments[p].amendment \notin A
       /\ payments[p].status = "PENDING" /\ payments[p].amendment = Nil =>
            payments[p].order \notin O

Written(p, A) ==
  /\ PaymentFits(p)' /\ PaymentFollows(p)'
  /\ \/ Kept(p)
     \/ \A q \in Payments \ {p} : payments'[q] # NoRow => Apart(payments'[p], payments'[q])
  /\ payments[p] # NoRow /\ payments[p].status = "SUCCEEDED" => payments[p].amendment \in A \cup {Nil}
  /\ payments'[p] # NoRow /\ payments'[p].status = "SUCCEEDED" => payments'[p].amendment \in A \cup {Nil}

LEMMA SweptPayment ==
  ASSUME CourtInv, PaymentInv,
         NEW E, E \subseteq {x \in Amendments : IsAwaiting(x)},
         NEW Q, Q \subseteq {x \in Orders : orders[x].status = "HELD"},
         NEW P, NEW O, NEW A, PaySwept(E, Q, P, O, A), NEW p \in Payments \ P
  PROVE  /\ PaymentFits(p)' /\ PaymentFollows(p)' /\ Kept(p)
         /\ payments'[p] # NoRow <=> payments[p] # NoRow
         /\ payments[p] # NoRow => (payments'[p].status = "SUCCEEDED" <=> payments[p].status = "SUCCEEDED")
<1> DEFINE r == payments[p]
           s == payments'[p]
           a == payments[p].amendment
<1>1. /\ s = PaymentsAfter(E, Q)[p]
      /\ r # NoRow => /\ a \notin A
                      /\ r.status = "PENDING" /\ a = Nil => r.order \notin O
  BY DEF PaySwept
<1>2. PaymentFits(p) /\ PaymentFollows(p)
  BY DEF PaymentInv
<1>3. CASE r = NoRow
  <2>1. s = NoRow
    BY <1>1, <1>3 DEF PaymentsAfter, IsPending
  <2> QED
    BY <1>3, <2>1 DEF PaymentFits, PaymentFollows, Kept
<1>4. CASE r # NoRow
  <2>1. /\ PaymentRow(r) /\ a \in Amendments \cup {Nil} /\ r.order \in Orders
        /\ a # Nil => amendments[a] # NoRow /\ amendments[a].order = r.order
    BY <1>2, <1>4 DEF PaymentFits, PaymentRow
  <2>2. a # Nil => /\ amendments'[a] # NoRow /\ amendments'[a].order = r.order
                   /\ a \notin E => amendments'[a] = amendments[a]
                   /\ a \in E => amendments'[a].status = "EXPIRED"
    <3>1. a # Nil => a \in Amendments /\ amendments'[a] = AmendmentsAfter(E)[a]
      BY <1>1, <1>4, <2>1 DEF PaySwept
    <3> QED
      BY <2>1, <3>1, ExpiredAmendment
  <2>3. CASE r.status = "PENDING" /\ (a \in E \/ r.order \in Q)
    <3>1. s = ReleasedPayment(r, "EXPIRED")
      BY <1>1, <1>4, <2>3 DEF PaymentsAfter, IsPending
    <3>2. /\ PaymentRow(s) /\ s # NoRow /\ s.status = "EXPIRED"
          /\ s.order = r.order /\ s.amendment = a /\ s.wallet = r.wallet
          /\ s.reserve = IF r.reserve = "RESERVED" THEN "RELEASED" ELSE r.reserve
      BY <2>1, <3>1, Released
    <3>3. a # Nil => a \in E
      <4>1. a # Nil => IsAwaiting(a)
        BY <1>2, <1>4, <2>3 DEF PaymentFollows
      <4>2. a # Nil => orders[r.order].status = "CONFIRMED"
        BY <2>1, <4>1 DEF CourtInv, WaitFits
      <4> QED
        BY <2>3, <4>2
    <3>4. r.wallet > 0 => r.reserve = "RESERVED"
      BY <1>2, <1>4, <2>3 DEF PaymentFollows
    <3> HIDE DEF r, s, a
    <3>5. PaymentFits(p)'
      BY <2>2, <3>2 DEF PaymentFits, s
    <3>6. PaymentFollows(p)'
      BY <2>2, <3>2, <3>3, <3>4 DEF PaymentFollows, s
    <3>7. Kept(p)
      BY <1>4, <2>3, <3>2 DEF Kept, r, s, a
    <3> QED
      BY <1>4, <2>3, <3>2, <3>5, <3>6, <3>7 DEF r, s
  <2>4. CASE ~(r.status = "PENDING" /\ (a \in E \/ r.order \in Q))
    <3>1. s = r
      BY <1>1, <2>4 DEF PaymentsAfter, IsPending
    <3>2. a # Nil => a \notin E /\ amendments'[a] = amendments[a]
      <4>1. a \in E => amendments[a].status = "AWAITING_PAYMENT"
        BY DEF IsAwaiting
      <4>2. a \in E /\ a # Nil => r.status = "PENDING"
        BY <1>2, <1>4, <4>1 DEF PaymentFollows
      <4> QED
        BY <2>2, <2>4, <4>2
    <3>3. r.status = "PENDING" /\ a = Nil => orders'[r.order] = orders[r.order]
      <4>1. r.status = "PENDING" /\ a = Nil => orders'[r.order] = OrdersAfter(Q)[r.order]
        BY <1>1, <1>4, <2>1 DEF PaySwept
      <4> QED
        BY <2>1, <2>4, <4>1, ExpiredOrder DEF CourtInv
    <3>4. PaymentFits(p)'
      BY <1>2, <1>4, <3>1, <3>2, <3>3 DEF PaymentFits, IsHeld
    <3>5. PaymentFollows(p)'
      BY <1>2, <1>4, <3>1, <3>2 DEF PaymentFollows, IsAwaiting
    <3> QED
      BY <1>4, <3>1, <3>4, <3>5 DEF Kept
  <2> QED
    BY <2>3, <2>4
<1> QED
  BY <1>3, <1>4

LEMMA PaymentSweep ==
  ASSUME CourtInv, PaymentInv,
         NEW E, E \subseteq {x \in Amendments : IsAwaiting(x)},
         NEW Q, Q \subseteq {x \in Orders : orders[x].status = "HELD"},
         NEW P, NEW O, NEW A, PaySwept(E, Q, P, O, A),
         \A p \in P \cap Payments : Written(p, A),
         \A a \in A \cap Amendments : AppliedOnce(a)'
  PROVE  PaymentInv'
<1>1. \A p \in Payments \ P :
        /\ PaymentFits(p)' /\ PaymentFollows(p)' /\ Kept(p)
        /\ payments'[p] # NoRow <=> payments[p] # NoRow
        /\ payments[p] # NoRow => (payments'[p].status = "SUCCEEDED" <=> payments[p].status = "SUCCEEDED")
  BY SweptPayment
<1>2. \A p \in Payments : PaymentFits(p)' /\ PaymentFollows(p)'
  BY <1>1 DEF Written
<1>3. Alone'
  <2> SUFFICES ASSUME NEW p \in Payments, NEW q \in Payments, p # q,
                      payments'[p] # NoRow, payments'[q] # NoRow
               PROVE  Apart(payments'[p], payments'[q])
    BY DEF Alone, Apart
  <2>1. CASE Kept(p) /\ Kept(q)
    <3>1. Apart(payments[p], payments[q])
      BY <2>1 DEF Kept, PaymentInv, Alone
    <3> QED
      BY <2>1, <3>1 DEF Kept, Apart
  <2>2. CASE \A x \in Payments \ {p} : payments'[x] # NoRow => Apart(payments'[p], payments'[x])
    BY <2>2
  <2>3. CASE \A x \in Payments \ {q} : payments'[x] # NoRow => Apart(payments'[q], payments'[x])
    BY <2>3 DEF Apart
  <2> QED
    BY <1>1, <2>1, <2>2, <2>3 DEF Written
<1>4. ASSUME NEW a \in Amendments PROVE AppliedOnce(a)'
  <2>1. CASE a \in A
    BY <2>1
  <2>2. CASE a \notin A /\ a \in E
    <3>1. amendments'[a].status = "EXPIRED"
      BY <2>2, ExpiredAmendment DEF PaySwept
    <3> QED
      BY <3>1 DEF AppliedOnce
  <2>3. CASE a \notin A /\ a \notin E
    <3>1. amendments'[a] = amendments[a]
      BY <2>3, ExpiredAmendment DEF PaySwept
    <3>2. a # Nil
      BY NilAssumption
    <3>3. ASSUME NEW p \in Payments PROVE p \in Captures(a)' <=> p \in Captures(a)
      <4>1. CASE p \in P
        BY <2>3, <3>2, <4>1 DEF Written, Captures
      <4>2. CASE p \notin P
        BY <1>1, <4>2 DEF Kept, Captures
      <4> QED
        BY <4>1, <4>2
    <3>4. Captures(a)' = Captures(a)
      BY <3>3 DEF Captures
    <3>5. AppliedOnce(a)
      BY DEF PaymentInv
    <3> QED
      BY <3>1, <3>4, <3>5 DEF AppliedOnce
  <2> QED
    BY <2>1, <2>2, <2>3
<1> QED
  BY <1>2, <1>3, <1>4 DEF PaymentInv, PaySwept

(***************************************************************************)
(* Commands that write no payment but what was due.                        *)
(***************************************************************************)
LEMMA NoneOfQuoted ==
  ASSUME PaymentInv, NEW a \in Amendments,
         amendments[a] = NoRow \/ amendments[a].status = "QUOTED",
         NEW p \in Payments, payments[p] # NoRow
  PROVE  payments[p].amendment # a
BY NilAssumption DEF PaymentInv, PaymentFits, PaymentFollows, IsAwaiting

\* What was due expires, and the orders O and amendments A are written, which no
\* payment waits on.
OnlyExpiry(t, Q, O, A) ==
  /\ payments' = PaymentsAfter(DueAmendments(t), Q)
  /\ \A o \in Orders \ O : orders'[o] = OrdersAfter(Q)[o]
  /\ \A a \in Amendments \ A : amendments'[a] = AmendmentsAfter(DueAmendments(t))[a]
  /\ \A p \in Payments : payments[p] # NoRow =>
       /\ payments[p].amendment \notin A
       /\ payments[p].status = "PENDING" /\ payments[p].amendment = Nil =>
            payments[p].order \notin O
  /\ \A a \in A \cap Amendments : AppliedOnce(a)'

LEMMA ExpiryPays ==
  ASSUME CourtInv, PaymentInv,
         NEW t, NEW Q, Q \subseteq {x \in Orders : orders[x].status = "HELD"}, NEW O, NEW A,
         OnlyExpiry(t, Q, O, A)
  PROVE  PaymentInv'
<1> USE DEF OnlyExpiry
<1> DEFINE E == DueAmendments(t)
           P == {}
<1>1. PaySwept(E, Q, P, O, A)
  BY DEF PaySwept, PaymentsAfter
<1>2. \A p \in P \cap Payments : Written(p, A)
  OBVIOUS
<1>3. E \subseteq {x \in Amendments : IsAwaiting(x)}
  BY DueAreHeld
<1> HIDE DEF E, P
<1> QED
  BY <1>1, <1>2, <1>3, PaymentSweep

LEMMA QuietPays ==
  ASSUME PaymentInv, UNCHANGED <<orders, amendments, payments>>
  PROVE  PaymentInv'
BY DEF PaymentInv, PaymentFits, PaymentFollows, Alone, AppliedOnce, Captures, IsAwaiting, IsHeld

LEMMA ExpireVenueAmendmentsPays ==
  ASSUME CourtInv, PaymentInv, ExpireVenueAmendments
  PROVE  PaymentInv'
<1>1. OnlyExpiry(now, {}, {}, {})
  BY DEF ExpireVenueAmendments, OrdersAfter, OnlyExpiry
<1> QED
  BY <1>1, ExpiryPays

LEMMA ExpireVenueHoldsPays ==
  ASSUME CourtInv, PaymentInv, ExpireVenueHolds
  PROVE  PaymentInv'
<1>1. OnlyExpiry(now, DueOrders(now), {}, {})
  BY DEF ExpireVenueHolds, OnlyExpiry
<1> QED
  BY <1>1, ExpiryPays, DueAreHeld

LEMMA PreviewPays ==
  ASSUME CourtInv, PaymentInv, NEW a \in Amendments, NEW o, NEW new, NEW t,
         PreviewOrderAmendment(a, o, new, t)
  PROVE  PaymentInv'
<1>1. /\ payments' = PaymentsAfter(DueAmendments(now), {})
      /\ \A x \in Orders \ {} : orders'[x] = OrdersAfter({})[x]
      /\ \A x \in Amendments \ {a} : amendments'[x] = AmendmentsAfter(DueAmendments(now))[x]
  BY DEF PreviewOrderAmendment, OrdersAfter, AmendmentsAfter
<1>2. amendments'[a].status = "QUOTED"
  BY DEF PreviewOrderAmendment, AmendmentsAfter
<1>3. \A x \in {a} \cap Amendments : AppliedOnce(x)'
  BY <1>2 DEF AppliedOnce
<1>4. \A p \in Payments : payments[p] # NoRow => payments[p].amendment \notin {a}
  BY NoneOfQuoted DEF PreviewOrderAmendment
<1>5. OnlyExpiry(now, {}, {}, {a})
  BY <1>1, <1>3, <1>4 DEF OnlyExpiry
<1> QED
  BY <1>5, ExpiryPays

LEMMA ConfirmSupplementPays ==
  ASSUME CourtInv, PaymentInv, NEW a \in Amendments, NEW t, ConfirmSupplement(a, t)
  PROVE  PaymentInv'
<1> DEFINE E == DueAmendments(now)
           deadline == PaymentDeadline(amendments[a], t)
<1>1. /\ payments' = PaymentsAfter(E, {})
      /\ \A x \in Orders \ {} : orders'[x] = OrdersAfter({})[x]
      /\ \A x \in Amendments \ {a} : amendments'[x] = AmendmentsAfter(E)[x]
      /\ amendments[a] # NoRow /\ amendments[a].status = "QUOTED"
  BY DEF ConfirmSupplement, Confirmable, OrdersAfter, AmendmentsAfter
<1>2. amendments'[a].status = "AWAITING_PAYMENT"
  <2>1. a \notin E /\ AmendmentRow(amendments[a])
    BY <1>1, DueAreHeld DEF IsAwaiting, CourtInv, QuoteFits
  <2>2. amendments' = [AmendmentsAfter(E) EXCEPT ![a].status = "AWAITING_PAYMENT",
                                                 ![a].holdUntil = deadline]
    BY DEF ConfirmSupplement
  <2>3. AmendmentsAfter(E)[a] = amendments[a] /\ DOMAIN AmendmentsAfter(E) = Amendments
    BY <2>1 DEF AmendmentsAfter
  <2> HIDE DEF deadline
  <2>4. amendments'[a] = [amendments[a] EXCEPT !.status = "AWAITING_PAYMENT",
                                               !.holdUntil = deadline]
    BY <2>2, <2>3
  <2> QED
    BY <2>1, <2>4 DEF AmendmentRow
<1>3. \A x \in {a} \cap Amendments : AppliedOnce(x)'
  BY <1>2 DEF AppliedOnce
<1>4. \A p \in Payments : payments[p] # NoRow => payments[p].amendment \notin {a}
  BY <1>1, NoneOfQuoted
<1>5. OnlyExpiry(now, {}, {}, {a})
  BY <1>1, <1>3, <1>4 DEF OnlyExpiry
<1> QED
  BY <1>5, ExpiryPays

LEMMA CancelUnpaidOrderLinesPays ==
  ASSUME CourtInv, PaymentInv, NEW o \in Orders, NEW L, NEW t, CancelUnpaidOrderLines(o, L, t)
  PROVE  PaymentInv'
<1>1. \A p \in Payments : payments[p] # NoRow /\ payments[p].order = o =>
        payments[p].status # "PENDING"
  BY DEF CancelUnpaidOrderLines, UnpaidEditable
<1>2. \A x \in Orders \ {o} : orders'[x] = OrdersAfter({})[x]
  BY DEF CancelUnpaidOrderLines, OrdersAfter, CourtInv, RowsFit
<1>3. \A a \in Amendments : amendments'[a] = AmendmentsAfter({})[a]
  BY DEF CancelUnpaidOrderLines, AmendmentsAfter
<1>4. \A p \in Payments : payments'[p] = PaymentsAfter({}, {})[p]
  BY DEF CancelUnpaidOrderLines, PaymentsAfter
<1>5. DOMAIN payments' = Payments
  BY DEF CancelUnpaidOrderLines, PaymentInv
<1> DEFINE P == {}
<1>6. PaySwept({}, {}, P, {o}, {})
  BY <1>1, <1>2, <1>3, <1>4, <1>5 DEF PaySwept
<1>7. \A p \in P \cap Payments : Written(p, {})
  OBVIOUS
<1> HIDE DEF P
<1> QED
  BY <1>6, <1>7, PaymentSweep

LEMMA CancelFreeOrderLinesPays ==
  ASSUME CourtInv, PaymentInv, NEW o \in Orders, NEW L, CancelFreeOrderLines(o, L)
  PROVE  PaymentInv'
<1>1. \A p \in Payments : payments[p] # NoRow =>
        /\ payments[p].amendment \notin {}
        /\ payments[p].status = "PENDING" /\ payments[p].amendment = Nil => payments[p].order # o
  BY DEF PaymentInv, PaymentFits, IsHeld, CancelFreeOrderLines
<1>2. /\ payments' = PaymentsAfter(DueAmendments(now), DueOrders(now))
      /\ amendments' = AmendmentsAfter(DueAmendments(now))
      /\ \A x \in Orders \ {o} : orders'[x] = OrdersAfter(DueOrders(now))[x]
  BY DEF CancelFreeOrderLines, OrdersAfter
<1>3. OnlyExpiry(now, DueOrders(now), {o}, {})
  BY <1>1, <1>2 DEF OnlyExpiry
<1> QED
  BY <1>3, ExpiryPays, DueAreHeld

LEMMA RequestOrderRefundPays ==
  ASSUME CourtInv, PaymentInv, NEW o \in Orders, NEW cents, NEW L, RequestOrderRefund(o, cents, L)
  PROVE  PaymentInv'
<1>1. \A p \in Payments : payments[p] # NoRow =>
        /\ payments[p].amendment \notin {}
        /\ payments[p].status = "PENDING" /\ payments[p].amendment = Nil => payments[p].order # o
  BY DEF PaymentInv, PaymentFits, IsHeld, RequestOrderRefund
<1>2. /\ payments' = PaymentsAfter(DueAmendments(now), {})
      /\ amendments' = AmendmentsAfter(DueAmendments(now))
      /\ \A x \in Orders \ {o} : orders'[x] = OrdersAfter({})[x]
  BY DEF RequestOrderRefund, OrdersAfter
<1>3. OnlyExpiry(now, {}, {o}, {})
  BY <1>1, <1>2 DEF OnlyExpiry
<1> QED
  BY <1>3, ExpiryPays

(***************************************************************************)
(* Commands that write payments.                                           *)
(***************************************************************************)
\* An amendment takes effect with the payments `pays`, P of which are not only what
\* expiry leaves.
TakesEffect(a, approved, pays, E, Q, t, P) ==
  /\ E \subseteq {x \in Amendments : IsAwaiting(x)}
  /\ Q \subseteq {x \in Orders : orders[x].status = "HELD"}
  /\ amendments[a] # NoRow
  /\ Applicable(a, pays, E, Q, t) /\ Apply(a, approved, pays, E, Q)
  /\ DOMAIN pays = Payments
  /\ \A p \in Payments \ P : /\ pays[p] = PaymentsAfter(E, Q)[p]
                             /\ payments[p] # NoRow => payments[p].amendment # a
  /\ \A p \in P \cap Payments : Written(p, {a})

LEMMA ApplyPays ==
  ASSUME CourtInv, PaymentInv, NEW a \in Amendments, NEW approved, NEW pays,
         NEW E, NEW Q, NEW t, NEW P, TakesEffect(a, approved, pays, E, Q, t, P)
  PROVE  PaymentInv'
<1> USE DEF TakesEffect
<1> SUFFICES ASSUME NEW o, o = amendments[a].order PROVE PaymentInv'
  OBVIOUS
<1>1. /\ payments' = pays
      /\ \A x \in Orders \ {o} : orders'[x] = OrdersAfter(Q)[x]
      /\ \A x \in Amendments \ {a} : amendments'[x] = AmendmentsAfter(E)[x]
  BY DEF Apply, OrdersAfter, AmendmentsAfter
<1>2. ASSUME NEW p \in Payments, payments[p] # NoRow, payments[p].status = "PENDING",
             payments[p].amendment = Nil
      PROVE  payments[p].order # o
  <2>1. IsHeld(payments[p].order)
    BY <1>2 DEF PaymentInv, PaymentFits
  <2> QED
    BY <1>2, <2>1 DEF Applicable, UnpaidEditable, IsHeld
<1>3. PaySwept(E, Q, P, {o}, {a})
  BY <1>1, <1>2 DEF PaySwept
<1>4. AppliedOnce(a)'
  <2>1. amendments'[a].supplement = amendments[a].supplement
    BY AppliedAmendment
  <2>2. Captures(a)' = {p \in Payments : /\ pays[p] # NoRow
                                         /\ pays[p].amendment = a
                                         /\ pays[p].status = "SUCCEEDED"}
    BY <1>1 DEF Captures
  <2>3. amendments[a].supplement > 0 => Cardinality(Captures(a)') = 1
    BY <2>2 DEF Applicable
  <2> QED
    BY <2>1, <2>3 DEF AppliedOnce
<1> QED
  BY <1>3, <1>4, PaymentSweep

LEMMA ConfirmFreePays ==
  ASSUME CourtInv, PaymentInv, NEW a \in Amendments, NEW approved, NEW t,
         ConfirmFree(a, approved, t)
  PROVE  PaymentInv'
<1> DEFINE E == DueAmendments(now)
           pays == PaymentsAfter(E, {})
           P == {}
<1>1. /\ amendments[a] # NoRow /\ amendments[a].status = "QUOTED"
      /\ Applicable(a, pays, E, {}, t) /\ Apply(a, approved, pays, E, {})
  BY DEF ConfirmFree, Confirmable
<1>2. \A p \in Payments \ P : payments[p] # NoRow => payments[p].amendment # a
  BY <1>1, NoneOfQuoted
<1>3. /\ DOMAIN pays = Payments
      /\ \A p \in Payments \ P : pays[p] = PaymentsAfter(E, {})[p]
      /\ \A p \in P \cap Payments : Written(p, {a})
  BY DEF PaymentsAfter
<1>4. E \subseteq {x \in Amendments : IsAwaiting(x)}
  BY DueAreHeld
<1> HIDE DEF E, pays, P
<1>5. TakesEffect(a, approved, pays, E, {}, t, P)
  BY <1>1, <1>2, <1>3, <1>4 DEF TakesEffect
<1> QED
  BY <1>5, ApplyPays

\* Payment p ends without success, and so does its amendment.
LEMMA EndWritten ==
  ASSUME NEW p \in Payments, NEW A,
         payments[p] # NoRow, payments[p].status # "SUCCEEDED",
         PaymentRow(payments'[p]), payments'[p] # NoRow,
         payments'[p].status \notin {"PENDING", "SUCCEEDED"},
         payments'[p].order = payments[p].order,
         payments'[p].amendment = payments[p].amendment,
         payments'[p].wallet > 0 => payments'[p].reserve = "RELEASED",
         NEW a, a = payments[p].amendment,
         a # Nil => /\ amendments'[a] # NoRow /\ amendments'[a].order = payments[p].order
                    /\ amendments'[a].status \in {"CANCELLED", "EXPIRED"}
  PROVE  Written(p, A)
<1>1. PaymentFits(p)'
  BY DEF PaymentFits
<1>2. PaymentFollows(p)'
  BY DEF PaymentFollows
<1> QED
  BY <1>1, <1>2 DEF Written, Kept

\* Payment p succeeds, and its amendment was applied.
LEMMA CapturedWritten ==
  ASSUME PaymentInv, NEW p \in Payments, NEW A, payments[p] # NoRow,
         payments[p].status = "PENDING",
         payments'[p] = [SettleReservation(payments[p], TRUE) EXCEPT !.status = "SUCCEEDED"],
         NEW a, a = payments[p].amendment, a \in A \cup {Nil},
         a # Nil => /\ amendments'[a] # NoRow /\ amendments'[a].order = payments[p].order
                    /\ amendments'[a].status = "APPLIED"
                    /\ Amount(payments'[p]) = amendments'[a].supplement
  PROVE  Written(p, A)
<1> DEFINE r == payments[p]
           s == payments'[p]
<1>1. PaymentRow(r) /\ (r.wallet > 0 => r.reserve = "RESERVED")
  BY DEF PaymentInv, PaymentFits, PaymentFollows
<1>2. /\ PaymentRow(s) /\ s # NoRow /\ s.status = "SUCCEEDED"
      /\ s.order = r.order /\ s.amendment = r.amendment /\ s.wallet = r.wallet
      /\ r.reserve = "RESERVED" => s.reserve = "CONSUMED"
  BY <1>1 DEF PaymentRow, SettleReservation, NoRow
<1>3. PaymentFits(p)'
  BY <1>2 DEF PaymentFits
<1>4. PaymentFollows(p)'
  BY <1>1, <1>2 DEF PaymentFollows
<1> QED
  BY <1>2, <1>3, <1>4 DEF Written, Kept

LEMMA CancelAmendmentPays ==
  ASSUME CourtInv, PaymentInv, NEW a \in Amendments, CancelOrderAmendment(a)
  PROVE  PaymentInv'
<1> DEFINE P == {p \in Payments : IsPending(p) /\ payments[p].amendment = a}
           m == amendments[a]
<1>1. /\ m # NoRow /\ m.status \in {"QUOTED", "AWAITING_PAYMENT"} /\ AmendmentRow(m)
      /\ amendments' = [amendments EXCEPT ![a] = EndedAmendment(a, "CANCELLED")]
      /\ payments' = [p \in Payments |->
           IF IsPending(p) /\ payments[p].amendment = a
           THEN ReleasedPayment(payments[p], "CANCELLED") ELSE payments[p]]
      /\ orders' = orders
  BY DEF CancelOrderAmendment, CourtInv, QuoteFits
<1>2. /\ amendments'[a] # NoRow /\ amendments'[a].status = "CANCELLED"
      /\ amendments'[a].order = m.order
  BY <1>1, EndedRow DEF CourtInv, RowsFit
<1>3. ASSUME NEW p \in Payments \ P, payments[p] # NoRow PROVE payments[p].amendment # a
  BY <1>1, <1>3, NilAssumption DEF PaymentInv, PaymentFollows, IsPending
<1>4. ASSUME NEW p \in P PROVE Written(p, {a})
  <2>1. /\ payments[p] # NoRow /\ payments[p].status = "PENDING" /\ payments[p].amendment = a
        /\ payments'[p] = ReleasedPayment(payments[p], "CANCELLED")
    BY <1>1 DEF IsPending
  <2>2. /\ PaymentRow(payments[p]) /\ (payments[p].wallet > 0 => payments[p].reserve = "RESERVED")
        /\ m.order = payments[p].order
    BY <2>1, NilAssumption DEF PaymentInv, PaymentFits, PaymentFollows
  <2>3. /\ PaymentRow(payments'[p]) /\ payments'[p] # NoRow /\ payments'[p].status = "CANCELLED"
        /\ payments'[p].order = payments[p].order
        /\ payments'[p].amendment = payments[p].amendment
        /\ payments'[p].wallet > 0 => payments'[p].reserve = "RELEASED"
    BY <2>1, <2>2, Released
  <2> HIDE DEF P, m
  <2> QED
    BY <1>2, <2>1, <2>2, <2>3, EndWritten DEF P
<1>5. PaySwept({}, {}, P, {}, {a})
  <2>1. \A p \in Payments \ P : payments'[p] = PaymentsAfter({}, {})[p]
    BY <1>1 DEF PaymentsAfter
  <2>2. \A x \in Amendments \ {a} : amendments'[x] = AmendmentsAfter({})[x]
    BY <1>1 DEF AmendmentsAfter
  <2>3. \A x \in Orders \ {} : orders'[x] = OrdersAfter({})[x]
    BY <1>1 DEF OrdersAfter
  <2> QED
    BY <1>1, <1>3, <2>1, <2>2, <2>3 DEF PaySwept
<1>6. \A x \in {a} \cap Amendments : AppliedOnce(x)'
  BY <1>2 DEF AppliedOnce
<1>7. \A p \in P \cap Payments : Written(p, {a})
  BY <1>4
<1> HIDE DEF P
<1> QED
  BY <1>5, <1>6, <1>7, PaymentSweep

\* The amendment a of payment p, which did not succeed, is given up.
GivenUp(p, a, E) ==
  /\ E \subseteq {x \in Amendments : IsAwaiting(x)}
  /\ payments[p] # NoRow /\ payments[p].status # "SUCCEEDED"
  /\ a = payments[p].amendment /\ a # Nil
  /\ amendments' = RejectedAmendments(a, E)

LEMMA RejectedAmendment ==
  ASSUME CourtInv, PaymentInv, NEW p \in Payments, NEW a, NEW E, GivenUp(p, a, E)
  PROVE  /\ a \in Amendments
         /\ amendments'[a] # NoRow /\ amendments'[a].order = payments[p].order
         /\ amendments'[a].status \in {"CANCELLED", "EXPIRED"}
         /\ \A x \in Amendments \ {a} : amendments'[x] = AmendmentsAfter(E)[x]
<1> USE DEF GivenUp
<1> DEFINE m == amendments[a]
<1>1. /\ a \in Amendments /\ m # NoRow /\ m.order = payments[p].order
      /\ m.status \in {"AWAITING_PAYMENT", "CANCELLED", "EXPIRED"}
  BY DEF PaymentInv, PaymentFits, PaymentFollows, PaymentRow, IsAwaiting
<1>2. AmendmentRow(m)
  BY <1>1 DEF CourtInv, QuoteFits
<1>3. amendments'[a] = IF a \in E THEN AmendmentsAfter(E)[a] ELSE EndedAmendment(a, "CANCELLED")
  BY <1>1 DEF RejectedAmendments, AmendmentsAfter
<1>4. CASE a \in E
  BY <1>1, <1>3, <1>4, ExpiredAmendment DEF RejectedAmendments, AmendmentsAfter
<1>5. CASE a \notin E /\ m.status = "AWAITING_PAYMENT"
  BY <1>1, <1>2, <1>3, <1>5, EndedRow DEF RejectedAmendments, AmendmentsAfter
<1>6. CASE a \notin E /\ m.status # "AWAITING_PAYMENT"
  BY <1>1, <1>3, <1>6 DEF RejectedAmendments, AmendmentsAfter, EndedAmendment
<1> QED
  BY <1>4, <1>5, <1>6

\* Other payments than p are not of its amendment, nor pending for its order.
LEMMA OthersApart ==
  ASSUME PaymentInv, NEW p \in Payments, payments[p] # NoRow
  PROVE  \A q \in Payments \ {p} : payments[q] # NoRow =>
           /\ payments[p].amendment # Nil => payments[q].amendment # payments[p].amendment
           /\ /\ payments[p].amendment = Nil /\ payments[p].status = "PENDING"
              /\ payments[q].status = "PENDING" /\ payments[q].amendment = Nil
              => payments[q].order # payments[p].order
BY DEF PaymentInv, Alone, Apart

\* A payment after what was due has expired.
LEMMA ExpiredPayment ==
  ASSUME PaymentInv, NEW E, NEW Q, NEW p \in Payments, payments[p] # NoRow
  PROVE  LET s == PaymentsAfter(E, Q)[p]
         IN /\ s # NoRow /\ PaymentRow(s)
            /\ s.order = payments[p].order /\ s.amendment = payments[p].amendment
            /\ s.wallet = payments[p].wallet
            /\ payments[p].status # "SUCCEEDED" /\ s.wallet > 0 =>
                 s.reserve \in {"RESERVED", "RELEASED"}
<1>1. /\ PaymentRow(payments[p])
      /\ payments[p].status # "SUCCEEDED" /\ payments[p].wallet > 0 =>
           payments[p].reserve \in {"RESERVED", "RELEASED"}
  BY DEF PaymentInv, PaymentFits, PaymentFollows
<1>2. CASE PaymentsAfter(E, Q)[p] = payments[p]
  BY <1>1, <1>2
<1>3. CASE PaymentsAfter(E, Q)[p] = ReleasedPayment(payments[p], "EXPIRED")
  BY <1>1, <1>3, Released
<1> QED
  BY <1>2, <1>3 DEF PaymentsAfter

\* A command that writes payment p beside what expires, the order of a pending
\* payment of an order, or the amendment of p.
OnlyPayment(p, E, Q, O, A) ==
  /\ DOMAIN payments' = Payments /\ payments[p] # NoRow
  /\ \A q \in Payments \ {p} : payments'[q] = PaymentsAfter(E, Q)[q]
  /\ \A o \in Orders \ O : orders'[o] = OrdersAfter(Q)[o]
  /\ \A a \in Amendments \ A : amendments'[a] = AmendmentsAfter(E)[a]
  /\ A \subseteq {payments[p].amendment} \ {Nil}
  /\ \/ O = {}
     \/ O = {payments[p].order} /\ payments[p].amendment = Nil /\ payments[p].status = "PENDING"
  /\ Written(p, A)
  /\ \A a \in A \cap Amendments : AppliedOnce(a)'

LEMMA OnePays ==
  ASSUME CourtInv, PaymentInv,
         NEW E, E \subseteq {x \in Amendments : IsAwaiting(x)},
         NEW Q, Q \subseteq {x \in Orders : orders[x].status = "HELD"},
         NEW p \in Payments, NEW O, NEW A, OnlyPayment(p, E, Q, O, A)
  PROVE  PaymentInv'
<1> USE DEF OnlyPayment
<1> DEFINE P == {p}
<1>1. \A q \in Payments \ {p} : payments[q] # NoRow =>
        /\ payments[p].amendment # Nil => payments[q].amendment # payments[p].amendment
        /\ /\ payments[p].amendment = Nil /\ payments[p].status = "PENDING"
           /\ payments[q].status = "PENDING" /\ payments[q].amendment = Nil
           => payments[q].order # payments[p].order
  BY OthersApart
<1>2. ASSUME NEW q \in Payments \ P, payments[q] # NoRow
      PROVE  /\ payments[q].amendment \notin A
             /\ payments[q].status = "PENDING" /\ payments[q].amendment = Nil =>
                  payments[q].order \notin O
  BY <1>1, <1>2
<1>3. PaySwept(E, Q, P, O, A)
  BY <1>2 DEF PaySwept
<1>4. \A q \in P \cap Payments : Written(q, A)
  OBVIOUS
<1> HIDE DEF P
<1> QED
  BY <1>3, <1>4, PaymentSweep

\* The money of payment p has to go back, after what was due has expired.
GivenBack(p, E, Q) ==
  /\ payments[p] # NoRow /\ payments[p].status # "SUCCEEDED"
  /\ payments'[p] = [SettleReservation(PaymentsAfter(E, Q)[p], FALSE) EXCEPT
                       !.status = "REFUND_REQUIRED"]

LEMMA GivenBackPayment ==
  ASSUME PaymentInv, NEW p \in Payments, NEW E, NEW Q, GivenBack(p, E, Q)
  PROVE  /\ PaymentRow(payments'[p]) /\ payments'[p] # NoRow
         /\ payments'[p].status = "REFUND_REQUIRED"
         /\ payments'[p].order = payments[p].order
         /\ payments'[p].amendment = payments[p].amendment
         /\ payments'[p].wallet > 0 => payments'[p].reserve = "RELEASED"
<1> USE DEF GivenBack
<1> DEFINE r == PaymentsAfter(E, Q)[p]
           s == payments'[p]
<1>1. /\ PaymentRow(r)
      /\ r.order = payments[p].order /\ r.amendment = payments[p].amendment
      /\ r.wallet > 0 => r.reserve \in {"RESERVED", "RELEASED"}
  BY ExpiredPayment
<1>2. s = [SettleReservation(r, FALSE) EXCEPT !.status = "REFUND_REQUIRED"]
  OBVIOUS
<1> HIDE DEF r, s
<1>3. /\ PaymentRow(s) /\ s # NoRow /\ s.status = "REFUND_REQUIRED"
      /\ s.order = r.order /\ s.amendment = r.amendment
      /\ s.wallet > 0 => s.reserve = "RELEASED"
  BY <1>1, <1>2 DEF PaymentRow, SettleReservation, NoRow
<1> QED
  BY <1>1, <1>3 DEF s

LEMMA SettleOrderPays ==
  ASSUME CourtInv, PaymentInv, NEW p \in Payments, NEW t, SettleOrder(p, t)
  PROVE  PaymentInv'
<1> DEFINE E == DueAmendments(SettleTime(p, t))
           Q == DueOrders(SettleTime(p, t))
<1> SUFFICES ASSUME NEW o, o = payments[p].order PROVE PaymentInv'
  OBVIOUS
<1>1. /\ E \subseteq {x \in Amendments : IsAwaiting(x)}
      /\ Q \subseteq {x \in Orders : orders[x].status = "HELD"}
  BY DueAreHeld
<1>2. /\ payments[p] # NoRow /\ payments[p].amendment = Nil
      /\ payments[p].status # "SUCCEEDED"
      /\ amendments' = AmendmentsAfter(E)
      /\ \A x \in Orders \ {o} : orders'[x] = OrdersAfter(Q)[x]
  BY DEF SettleOrder, Uncaptured, OrdersAfter
<1>3. CASE IsPending(p) /\ IsHeld(o) /\ o \notin Q
  <2>1. payments' = SettledPayments(p, E, Q, TRUE)
    BY <1>3 DEF SettleOrder
  <2>2. PaymentsAfter(E, Q)[p] = payments[p] /\ DOMAIN PaymentsAfter(E, Q) = Payments
    BY <1>1, <1>2, <1>3, NilAssumption DEF PaymentsAfter
  <2>3. /\ payments'[p] = [SettleReservation(payments[p], TRUE) EXCEPT !.status = "SUCCEEDED"]
        /\ DOMAIN payments' = Payments
        /\ \A q \in Payments \ {p} : payments'[q] = PaymentsAfter(E, Q)[q]
    BY <2>1, <2>2 DEF SettledPayments
  <2>4. payments[p].status = "PENDING"
    BY <1>3 DEF IsPending
  <2>5. Written(p, {})
    BY <1>2, <2>3, <2>4, CapturedWritten
  <2>6. OnlyPayment(p, E, Q, {o}, {})
    BY <1>2, <2>3, <2>4, <2>5 DEF OnlyPayment
  <2> HIDE DEF E, Q
  <2> QED
    BY <1>1, <2>6, OnePays
<1>4. CASE ~(IsPending(p) /\ IsHeld(o) /\ o \notin Q)
  <2>1. payments' = SettledPayments(p, E, Q, FALSE)
    BY <1>4 DEF SettleOrder
  <2>2. /\ payments'[p] = [SettleReservation(PaymentsAfter(E, Q)[p], FALSE) EXCEPT
                             !.status = "REFUND_REQUIRED"]
        /\ DOMAIN payments' = Payments
        /\ \A q \in Payments \ {p} : payments'[q] = PaymentsAfter(E, Q)[q]
    BY <2>1 DEF SettledPayments, PaymentsAfter
  <2>3. \A x \in Orders \ {} : orders'[x] = OrdersAfter(Q)[x]
    BY <1>4 DEF SettleOrder, OrdersAfter
  <2> HIDE DEF E, Q
  <2>4. /\ PaymentRow(payments'[p]) /\ payments'[p] # NoRow
        /\ payments'[p].status = "REFUND_REQUIRED"
        /\ payments'[p].order = payments[p].order
        /\ payments'[p].amendment = payments[p].amendment
        /\ payments'[p].wallet > 0 => payments'[p].reserve = "RELEASED"
    <3>1. GivenBack(p, E, Q)
      BY <1>2, <2>2 DEF GivenBack
    <3> QED
      BY <3>1, GivenBackPayment
  <2>5. Written(p, {})
    BY <1>2, <2>4, EndWritten
  <2>6. OnlyPayment(p, E, Q, {}, {})
    BY <1>2, <2>2, <2>3, <2>5 DEF OnlyPayment
  <2> QED
    BY <1>1, <2>6, OnePays
<1> QED
  BY <1>3, <1>4

LEMMA SettleRejectedPays ==
  ASSUME CourtInv, PaymentInv, NEW p \in Payments, NEW t, SettleRejected(p, t)
  PROVE  PaymentInv'
<1> DEFINE E == DueAmendments(SettleTime(p, t))
           Q == DueOrders(SettleTime(p, t))
<1> SUFFICES ASSUME NEW a, a = payments[p].amendment PROVE PaymentInv'
  OBVIOUS
<1>1. /\ E \subseteq {x \in Amendments : IsAwaiting(x)}
      /\ Q \subseteq {x \in Orders : orders[x].status = "HELD"}
  BY DueAreHeld
<1>2. /\ payments[p] # NoRow /\ a # Nil
      /\ payments[p].status # "SUCCEEDED"
      /\ payments' = SettledPayments(p, E, Q, FALSE)
      /\ amendments' = RejectedAmendments(a, E)
      /\ \A x \in Orders \ {} : orders'[x] = OrdersAfter(Q)[x]
  BY DEF SettleRejected, Uncaptured
<1>3. /\ payments'[p] = [SettleReservation(PaymentsAfter(E, Q)[p], FALSE) EXCEPT
                           !.status = "REFUND_REQUIRED"]
      /\ DOMAIN payments' = Payments
      /\ \A q \in Payments \ {p} : payments'[q] = PaymentsAfter(E, Q)[q]
  BY <1>2 DEF SettledPayments, PaymentsAfter
<1> HIDE DEF E, Q
<1>4. /\ PaymentRow(payments'[p]) /\ payments'[p] # NoRow
      /\ payments'[p].status = "REFUND_REQUIRED"
      /\ payments'[p].order = payments[p].order
      /\ payments'[p].amendment = payments[p].amendment
      /\ payments'[p].wallet > 0 => payments'[p].reserve = "RELEASED"
  <2>1. GivenBack(p, E, Q)
    BY <1>2, <1>3 DEF GivenBack
  <2> QED
    BY <2>1, GivenBackPayment
<1>5. /\ a \in Amendments
      /\ amendments'[a] # NoRow /\ amendments'[a].order = payments[p].order
      /\ amendments'[a].status \in {"CANCELLED", "EXPIRED"}
      /\ \A x \in Amendments \ {a} : amendments'[x] = AmendmentsAfter(E)[x]
  <2>1. GivenUp(p, a, E)
    BY <1>1, <1>2 DEF GivenUp
  <2> QED
    BY <2>1, RejectedAmendment
<1>6. Written(p, {a})
  BY <1>2, <1>4, <1>5, EndWritten
<1>7. AppliedOnce(a)'
  BY <1>5 DEF AppliedOnce
<1>8. OnlyPayment(p, E, Q, {}, {a})
  BY <1>2, <1>3, <1>5, <1>6, <1>7 DEF OnlyPayment
<1> QED
  BY <1>1, <1>8, OnePays

LEMMA SettleFailurePays ==
  ASSUME CourtInv, PaymentInv, NEW p \in Payments, NEW t, SettleFailure(p, t)
  PROVE  PaymentInv'
<1> DEFINE E == DueAmendments(SettleTime(p, t))
           Q == DueOrders(SettleTime(p, t))
<1> SUFFICES ASSUME NEW a, a = payments[p].amendment, NEW o, o = payments[p].order
             PROVE  PaymentInv'
  OBVIOUS
<1>1. /\ E \subseteq {x \in Amendments : IsAwaiting(x)}
      /\ Q \subseteq {x \in Orders : orders[x].status = "HELD"}
  BY DueAreHeld
<1>2. /\ payments[p] # NoRow /\ PaymentsAfter(E, Q)[p].status = "PENDING"
      /\ payments' = [PaymentsAfter(E, Q) EXCEPT ![p] = ReleasedPayment(@, "FAILED")]
  BY DEF SettleFailure
<1>3. payments[p].status = "PENDING" /\ PaymentsAfter(E, Q)[p] = payments[p]
  BY <1>2, StillPending DEF PaymentInv
<1>4. /\ payments'[p] = ReleasedPayment(payments[p], "FAILED")
      /\ DOMAIN payments' = Payments
      /\ \A q \in Payments \ {p} : payments'[q] = PaymentsAfter(E, Q)[q]
  BY <1>2, <1>3 DEF PaymentsAfter
<1>5. PaymentRow(payments[p]) /\ (payments[p].wallet > 0 => payments[p].reserve = "RESERVED")
  BY <1>2, <1>3 DEF PaymentInv, PaymentFits, PaymentFollows
<1>6. /\ PaymentRow(payments'[p]) /\ payments'[p] # NoRow
      /\ payments'[p].status = "FAILED"
      /\ payments'[p].order = payments[p].order
      /\ payments'[p].amendment = payments[p].amendment
      /\ payments'[p].wallet > 0 => payments'[p].reserve = "RELEASED"
  BY <1>4, <1>5, Released
<1>7. CASE a # Nil
  <2>1. /\ amendments' = RejectedAmendments(a, E)
        /\ \A x \in Orders \ {} : orders'[x] = OrdersAfter(Q)[x]
    BY <1>7 DEF SettleFailure
  <2> HIDE DEF E, Q
  <2>2. /\ a \in Amendments
        /\ amendments'[a] # NoRow /\ amendments'[a].order = payments[p].order
        /\ amendments'[a].status \in {"CANCELLED", "EXPIRED"}
        /\ \A x \in Amendments \ {a} : amendments'[x] = AmendmentsAfter(E)[x]
    <3>1. GivenUp(p, a, E)
      BY <1>1, <1>2, <1>3, <1>7, <2>1 DEF GivenUp
    <3> QED
      BY <3>1, RejectedAmendment
  <2>3. Written(p, {a})
    BY <1>2, <1>3, <1>6, <2>2, EndWritten
  <2>4. AppliedOnce(a)'
    BY <2>2 DEF AppliedOnce
  <2>5. OnlyPayment(p, E, Q, {}, {a})
    BY <1>2, <1>4, <1>7, <2>1, <2>2, <2>3, <2>4 DEF OnlyPayment
  <2> QED
    BY <1>1, <2>5, OnePays
<1>8. CASE a = Nil
  <2>1. /\ amendments' = AmendmentsAfter(E)
        /\ \A x \in Orders \ {o} : orders'[x] = OrdersAfter(Q)[x]
    BY <1>8 DEF SettleFailure, OrdersAfter
  <2> HIDE DEF E, Q
  <2>2. Written(p, {})
    BY <1>2, <1>3, <1>6, <1>8, EndWritten
  <2>3. OnlyPayment(p, E, Q, {o}, {})
    BY <1>2, <1>3, <1>4, <1>8, <2>1, <2>2 DEF OnlyPayment
  <2> QED
    BY <1>1, <2>3, OnePays
<1> QED
  BY <1>7, <1>8

LEMMA SettleAppliedPays ==
  ASSUME CourtInv, PaymentInv, NEW p \in Payments, NEW t, SettleApplied(p, t)
  PROVE  PaymentInv'
<1> SUFFICES ASSUME NEW a, a = payments[p].amendment PROVE PaymentInv'
  OBVIOUS
<1> DEFINE E == DueAmendments(SettleTime(p, t))
           Q == DueOrders(SettleTime(p, t))
           pays == SettledPayments(p, E, Q, TRUE)
           none == [l \in DOMAIN amendments[a].changes |-> 0]
           P == {p}
<1>1. /\ E \subseteq {x \in Amendments : IsAwaiting(x)}
      /\ Q \subseteq {x \in Orders : orders[x].status = "HELD"}
  BY DueAreHeld
<1>2. /\ payments[p] # NoRow /\ payments[p].status = "PENDING" /\ a # Nil /\ a \notin E
      /\ amendments[a].status = "AWAITING_PAYMENT"
      /\ orders[amendments[a].order].status = "CONFIRMED"
      /\ Applicable(a, pays, E, Q, t) /\ Apply(a, none, pays, E, Q)
  BY DEF SettleApplied, StillAwaited, IsPending
<1>3. /\ PaymentRow(payments[p]) /\ a \in Amendments
      /\ amendments[a] # NoRow /\ amendments[a].order = payments[p].order
  BY <1>2 DEF PaymentInv, PaymentFits, PaymentRow
<1>4. amendments[a].supplement > 0
  BY <1>2, <1>3 DEF CourtInv, WaitFits, IsAwaiting
<1>5. PaymentsAfter(E, Q)[p] = payments[p]
  BY <1>1, <1>2, <1>3 DEF PaymentsAfter
<1>6. /\ pays[p] = [SettleReservation(payments[p], TRUE) EXCEPT !.status = "SUCCEEDED"]
      /\ DOMAIN pays = Payments
      /\ \A q \in Payments \ P : pays[q] = PaymentsAfter(E, Q)[q]
  BY <1>5 DEF SettledPayments, PaymentsAfter
<1> HIDE DEF E, Q, pays, none, P
<1>7. /\ payments'[p] = [SettleReservation(payments[p], TRUE) EXCEPT !.status = "SUCCEEDED"]
      /\ payments' = pays
  BY <1>2, <1>6 DEF Apply
<1>8. /\ amendments'[a] # NoRow /\ amendments'[a].order = payments[p].order
      /\ amendments'[a].status = "APPLIED"
      /\ amendments'[a].supplement = amendments[a].supplement
  BY <1>2, <1>3, AppliedAmendment
<1>9. Amount(payments'[p]) = amendments'[a].supplement
  <2>1. pays[p] # NoRow /\ pays[p].amendment = a /\ pays[p].status = "SUCCEEDED"
    BY <1>3, <1>6 DEF PaymentRow, SettleReservation, NoRow
  <2>2. Amount(pays[p]) = amendments[a].supplement
    BY <1>2, <1>4, <2>1 DEF Applicable
  <2> QED
    BY <1>7, <1>8, <2>2
<1>10. Written(p, {a})
  BY <1>2, <1>7, <1>8, <1>9, CapturedWritten
<1>11. \A q \in Payments \ P : payments[q] # NoRow => payments[q].amendment # a
  BY <1>2, OthersApart DEF P
<1>12. \A q \in P \cap Payments : Written(q, {a})
  BY <1>10 DEF P
<1>13. TakesEffect(a, none, pays, E, Q, t, P)
  BY <1>1, <1>2, <1>3, <1>6, <1>11, <1>12 DEF TakesEffect
<1> QED
  BY <1>3, <1>13, ApplyPays

LEMMA NewRow ==
  ASSUME NEW o \in Orders, NEW a \in Amendments \cup {Nil}, NEW cents, NEW w
  PROVE  LET s == NewPayment(o, a, cents, w)
         IN /\ PaymentRow(s) /\ s # NoRow /\ s.order = o /\ s.amendment = a
            /\ s.wallet = w /\ s.external = cents - w
            /\ s.status = IF w = cents THEN "SUCCEEDED" ELSE "PENDING"
            /\ s.wallet > 0 => s.reserve = IF w = cents THEN "CONSUMED" ELSE "RESERVED"
BY DEF NewPayment, PaymentRow, NoRow

LEMMA BeginOrderPaymentPays ==
  ASSUME CourtInv, PaymentInv, NEW p \in Payments, NEW o \in Orders, NEW w, NEW t,
         BeginOrderPayment(p, o, w, t)
  PROVE  PaymentInv'
<1> DEFINE E == DueAmendments(now)
           Q == DueOrders(now)
           total == TotalOf(o, lines)
           P == {p}
<1>1. /\ E \subseteq {x \in Amendments : IsAwaiting(x)}
      /\ Q \subseteq {x \in Orders : orders[x].status = "HELD"}
  BY DueAreHeld
<1>2. /\ payments[p] = NoRow /\ IsHeld(o) /\ o \notin Q
      /\ NonePending(o, PaymentsAfter(E, Q))
      /\ payments' = [PaymentsAfter(E, Q) EXCEPT ![p] = NewPayment(o, Nil, total, w)]
      /\ orders' = [OrdersAfter(Q) EXCEPT ![o] = IF w = total THEN PaidOrder(o) ELSE @]
      /\ amendments' = AmendmentsAfter(E)
  BY DEF BeginOrderPayment
<1> HIDE DEF E, Q, total
<1>3. /\ payments'[p] = NewPayment(o, Nil, total, w) /\ DOMAIN payments' = Payments
      /\ \A q \in Payments \ P : payments'[q] = PaymentsAfter(E, Q)[q]
      /\ \A x \in Orders \ {o} : orders'[x] = OrdersAfter(Q)[x]
      /\ w # total => orders'[o] = orders[o]
  BY <1>2 DEF PaymentsAfter, OrdersAfter
<1>4. /\ PaymentRow(payments'[p]) /\ payments'[p] # NoRow
      /\ payments'[p].order = o /\ payments'[p].amendment = Nil
      /\ payments'[p].status = IF w = total THEN "SUCCEEDED" ELSE "PENDING"
      /\ payments'[p].wallet > 0 =>
           payments'[p].reserve = IF w = total THEN "CONSUMED" ELSE "RESERVED"
  BY <1>3, NewRow
<1>5. PaymentFits(p)'
  BY <1>2, <1>3, <1>4 DEF PaymentFits, IsHeld
<1>6. PaymentFollows(p)'
  BY <1>4 DEF PaymentFollows
<1>7. \A q \in Payments \ {p} : payments'[q] # NoRow => Apart(payments'[p], payments'[q])
  BY <1>2, <1>3, <1>4 DEF NonePending, Apart
<1>8. Written(p, {})
  BY <1>2, <1>4, <1>5, <1>6, <1>7 DEF Written
<1>9. ASSUME NEW q \in Payments \ P, payments[q] # NoRow, payments[q].status = "PENDING",
             payments[q].amendment = Nil
      PROVE  payments[q].order # o
  <2>1. payments[q].order = o => PaymentsAfter(E, Q)[q] = payments[q]
    BY <1>1, <1>2, <1>9, NilAssumption DEF PaymentsAfter
  <2> QED
    BY <1>2, <1>9, <2>1 DEF NonePending
<1>10. PaySwept(E, Q, P, {o}, {})
  BY <1>2, <1>3, <1>9 DEF PaySwept
<1>11. \A q \in P \cap Payments : Written(q, {})
  BY <1>8
<1> HIDE DEF P
<1> QED
  BY <1>1, <1>10, <1>11, PaymentSweep

\* Nothing else was ever paid for an amendment that waits and whose order has no
\* pending payment.
LEMMA NothingPaid ==
  ASSUME PaymentInv, NEW E, NEW a \in Amendments \ E, IsAwaiting(a),
         NonePending(amendments[a].order, PaymentsAfter(E, {})),
         NEW q \in Payments, payments[q] # NoRow
  PROVE  payments[q].amendment # a
<1> SUFFICES ASSUME payments[q].amendment = a PROVE FALSE
  OBVIOUS
<1>1. payments[q].status = "PENDING" /\ payments[q].order = amendments[a].order
  BY NilAssumption DEF PaymentInv, PaymentFits, PaymentFollows, IsAwaiting
<1>2. PaymentsAfter(E, {})[q] = payments[q]
  BY DEF PaymentsAfter
<1> QED
  BY <1>1, <1>2 DEF NonePending

LEMMA BeginAmendmentPaymentPays ==
  ASSUME CourtInv, PaymentInv, NEW p \in Payments, NEW a \in Amendments, NEW w \in WalletParts,
         NEW t, BeginAmendmentPayment(p, a, w, t)
  PROVE  PaymentInv'
<1> SUFFICES ASSUME NEW cents, cents = amendments[a].supplement PROVE PaymentInv'
  OBVIOUS
<1> DEFINE E == DueAmendments(now)
           o == amendments[a].order
           pays == [PaymentsAfter(E, {}) EXCEPT ![p] = NewPayment(o, a, cents, w)]
           none == [l \in DOMAIN amendments[a].changes |-> 0]
           P == {p}
<1>1. E \subseteq {x \in Amendments : IsAwaiting(x)}
  BY DueAreHeld
<1>2. /\ payments[p] = NoRow /\ IsAwaiting(a) /\ a \notin E
      /\ NonePending(o, PaymentsAfter(E, {}))
      /\ IF w = cents
         THEN Applicable(a, pays, E, {}, t) /\ Apply(a, none, pays, E, {})
         ELSE payments' = pays /\ amendments' = AmendmentsAfter(E) /\ orders' = orders
  BY DEF BeginAmendmentPayment
<1>3. amendments[a] # NoRow /\ o \in Orders
  BY <1>2 DEF IsAwaiting, CourtInv, QuoteFits, AmendmentRow
<1> HIDE DEF E, none
<1>4. ASSUME NEW q \in Payments, payments[q] # NoRow PROVE payments[q].amendment # a
  BY <1>2, <1>4, NothingPaid
<1>5. /\ pays[p] = NewPayment(o, a, cents, w) /\ DOMAIN pays = Payments
      /\ \A q \in Payments \ P : pays[q] = PaymentsAfter(E, {})[q]
  BY DEF PaymentsAfter
<1>6. payments' = pays
  BY <1>2 DEF Apply
<1> HIDE DEF pays, o
<1>7. /\ PaymentRow(payments'[p]) /\ payments'[p] # NoRow
      /\ payments'[p].order = o /\ payments'[p].amendment = a
      /\ payments'[p].wallet = w /\ payments'[p].external = cents - w
      /\ payments'[p].status = IF w = cents THEN "SUCCEEDED" ELSE "PENDING"
      /\ payments'[p].wallet > 0 =>
           payments'[p].reserve = IF w = cents THEN "CONSUMED" ELSE "RESERVED"
  BY <1>3, <1>5, <1>6, NewRow
<1>8. /\ amendments'[a] # NoRow /\ amendments'[a].order = o
      /\ w = cents => amendments'[a].status = "APPLIED" /\ amendments'[a].supplement = cents
      /\ w # cents => IsAwaiting(a)'
  <2>1. CASE w = cents
    <3>1. Applicable(a, pays, E, {}, t) /\ Apply(a, none, pays, E, {})
      BY <1>2, <2>1
    <3> QED
      BY <1>3, <2>1, <3>1, AppliedAmendment DEF o
  <2>2. CASE w # cents
    <3>1. amendments'[a] = amendments[a]
      BY <1>2, <2>2 DEF AmendmentsAfter
    <3> QED
      BY <1>2, <1>3, <2>2, <3>1 DEF IsAwaiting, o
  <2> QED
    BY <2>1, <2>2
<1>9. PaymentFits(p)'
  BY <1>7, <1>8, NilAssumption DEF PaymentFits
<1>10. PaymentFollows(p)'
  <2>1. w = cents => Amount(payments'[p]) = cents
    BY <1>7, PolicyAssumption DEF Amount
  <2> QED
    BY <1>7, <1>8, <2>1 DEF PaymentFollows
<1>11. ASSUME NEW q \in Payments \ P, payments'[q] # NoRow
       PROVE  Apart(payments'[p], payments'[q])
  <2>1. payments'[q] = PaymentsAfter(E, {})[q]
    BY <1>5, <1>6
  <2>2. payments[q] # NoRow
    BY <1>11, <2>1 DEF PaymentsAfter, IsPending
  <2>3. payments'[q].amendment = payments[q].amendment
    BY <2>1, <2>2, ExpiredPayment
  <2> QED
    BY <1>4, <1>7, <2>2, <2>3, NilAssumption DEF Apart
<1>12. Written(p, {a})
  BY <1>2, <1>7, <1>9, <1>10, <1>11 DEF Written, P
<1>13. CASE w = cents
  <2>1. Applicable(a, pays, E, {}, t) /\ Apply(a, none, pays, E, {})
    BY <1>2, <1>13
  <2>2. \A q \in P \cap Payments : Written(q, {a})
    BY <1>12 DEF P
  <2>3. \A q \in Payments \ P : payments[q] # NoRow => payments[q].amendment # a
    BY <1>4
  <2> HIDE DEF P
  <2>4. TakesEffect(a, none, pays, E, {}, t, P)
    BY <1>1, <1>3, <1>5, <2>1, <2>2, <2>3 DEF TakesEffect
  <2> QED
    BY <2>4, ApplyPays
<1>14. CASE w # cents
  <2>1. Written(p, {})
    BY <1>2, <1>7, <1>12, <1>14 DEF Written
  <2>2. /\ \A x \in Orders \ {} : orders'[x] = OrdersAfter({})[x]
        /\ amendments' = AmendmentsAfter(E)
    BY <1>2, <1>14 DEF OrdersAfter
  <2>3. PaySwept(E, {}, P, {}, {})
    BY <1>5, <1>6, <2>2 DEF PaySwept
  <2>4. \A q \in P \cap Payments : Written(q, {})
    BY <2>1 DEF P
  <2> HIDE DEF P
  <2> QED
    BY <1>1, <2>3, <2>4, PaymentSweep
<1> QED
  BY <1>13, <1>14

LEMMA CancelUnpaidOrderPays ==
  ASSUME CourtInv, PaymentInv, NEW o \in Orders, CancelUnpaidOrder(o)
  PROVE  PaymentInv'
<1> DEFINE E == DueAmendments(now)
           Q == DueOrders(now)
           P == {p \in Payments : IsPending(p) /\ payments[p].order = o}
<1>1. /\ E \subseteq {x \in Amendments : IsAwaiting(x)}
      /\ Q \subseteq {x \in Orders : orders[x].status = "HELD"}
  BY DueAreHeld
<1>2. /\ NoneAwaits(o, E)
      /\ payments' = [p \in Payments |->
           IF IsPending(p) /\ payments[p].order = o
           THEN ReleasedPayment(payments[p], "CANCELLED") ELSE PaymentsAfter(E, Q)[p]]
      /\ amendments' = AmendmentsAfter(E)
      /\ \A x \in Orders \ {o} : orders'[x] = OrdersAfter(Q)[x]
  BY DEF CancelUnpaidOrder, OrdersAfter
<1> HIDE DEF E, Q
<1>3. ASSUME NEW p \in P PROVE Written(p, {})
  <2> SUFFICES ASSUME NEW a, a = payments[p].amendment PROVE Written(p, {})
    OBVIOUS
  <2>1. /\ payments[p] # NoRow /\ payments[p].status = "PENDING" /\ payments[p].order = o
        /\ payments'[p] = ReleasedPayment(payments[p], "CANCELLED") /\ p \in Payments
    BY <1>2 DEF IsPending
  <2>2. /\ PaymentRow(payments[p]) /\ (payments[p].wallet > 0 => payments[p].reserve = "RESERVED")
        /\ a # Nil => IsAwaiting(a) /\ a \in Amendments /\ amendments[a].order = o
    BY <2>1 DEF PaymentInv, PaymentFits, PaymentFollows, PaymentRow
  <2>3. /\ PaymentRow(payments'[p]) /\ payments'[p] # NoRow /\ payments'[p].status = "CANCELLED"
        /\ payments'[p].order = payments[p].order
        /\ payments'[p].amendment = payments[p].amendment
        /\ payments'[p].wallet > 0 => payments'[p].reserve = "RELEASED"
    BY <2>1, <2>2, Released
  <2>4. a # Nil => /\ amendments'[a] # NoRow /\ amendments'[a].order = payments[p].order
                   /\ amendments'[a].status \in {"CANCELLED", "EXPIRED"}
    <3>1. a # Nil => a \in E /\ a \in Amendments
      BY <1>2, <2>2 DEF NoneAwaits
    <3> QED
      BY <1>1, <1>2, <2>1, <2>2, <3>1, ExpiredAmendment
  <2> HIDE DEF P
  <2> QED
    BY <2>1, <2>3, <2>4, EndWritten
<1>4. PaySwept(E, Q, P, {o}, {})
  BY <1>2 DEF PaySwept, IsPending
<1>5. \A p \in P \cap Payments : Written(p, {})
  BY <1>3
<1> HIDE DEF P
<1> QED
  BY <1>1, <1>4, <1>5, PaymentSweep

(***************************************************************************)
(* Every behaviour keeps both invariants.                                  *)
(***************************************************************************)
LEMMA PaymentInit == Init => PaymentInv
BY DEF Init, PaymentInv, PaymentFits, PaymentFollows, Alone, AppliedOnce

LEMMA PaymentStep ==
  ASSUME CourtInv, PaymentInv, [Next]_vars
  PROVE  PaymentInv'
<1>1. CASE UNCHANGED vars \/ Tick \/ \E m \in Minimums : UpdateVenue(m)
  <2>1. UNCHANGED <<orders, amendments, payments>>
    BY <1>1 DEF vars, Tick, UpdateVenue
  <2> QED
    BY <2>1, QuietPays
<1>2. CASE ExpireVenueAmendments \/ ExpireVenueHolds
  BY <1>2, ExpireVenueAmendmentsPays, ExpireVenueHoldsPays
<1>3. ASSUME NEW b \in Blocks, NEW s \in BlockSlots, OccupyCourt(b, s) \/ ReleaseCourtOccupancy(b, s)
      PROVE  PaymentInv'
  <2>1. UNCHANGED <<orders, amendments, payments>>
    BY <1>3 DEF OccupyCourt, ReleaseCourtOccupancy
  <2> QED
    BY <2>1, QuietPays
<1>4. CASE Amend
  <2>1. ASSUME NEW a \in Amendments, NEW o \in Orders, NEW C \in SUBSET Lines, NEW t \in Clock,
               NEW new \in [C -> Offers], PreviewOrderAmendment(a, o, new, t)
        PROVE  PaymentInv'
    BY <2>1, PreviewPays
  <2>2. ASSUME NEW a \in Amendments, NEW t \in Clock, NEW f \in Approvals(a), ConfirmFree(a, f, t)
        PROVE  PaymentInv'
    BY <2>2, ConfirmFreePays
  <2>3. ASSUME NEW a \in Amendments, NEW t \in Clock, ConfirmSupplement(a, t)
        PROVE  PaymentInv'
    BY <2>3, ConfirmSupplementPays
  <2>4. ASSUME NEW a \in Amendments, CancelOrderAmendment(a)
        PROVE  PaymentInv'
    BY <2>4, CancelAmendmentPays
  <2> QED
    BY <1>4, <2>1, <2>2, <2>3, <2>4 DEF Amend
<1>5. CASE Pay
  <2>1. ASSUME NEW p \in Payments, NEW t \in Clock, NEW w \in WalletParts,
               NEW o \in Orders, BeginOrderPayment(p, o, w, t)
        PROVE  PaymentInv'
    BY <2>1, BeginOrderPaymentPays
  <2>2. ASSUME NEW p \in Payments, NEW t \in Clock, NEW w \in WalletParts,
               NEW a \in Amendments, BeginAmendmentPayment(p, a, w, t)
        PROVE  PaymentInv'
    BY <2>2, BeginAmendmentPaymentPays
  <2>3. ASSUME NEW p \in Payments, NEW t \in Clock,
               \/ SettleOrder(p, t) \/ SettleApplied(p, t)
               \/ SettleRejected(p, t) \/ SettleFailure(p, t)
        PROVE  PaymentInv'
    BY <2>3, SettleOrderPays, SettleAppliedPays, SettleRejectedPays, SettleFailurePays
  <2> QED
    BY <1>5, <2>1, <2>2, <2>3 DEF Pay
<1>6. CASE Leave
  <2>1. ASSUME NEW o \in Orders, CancelUnpaidOrder(o) PROVE PaymentInv'
    BY <2>1, CancelUnpaidOrderPays
  <2>2. ASSUME NEW o \in Orders, NEW L \in SUBSET Lines, NEW t \in Clock,
               CancelUnpaidOrderLines(o, L, t)
        PROVE  PaymentInv'
    BY <2>2, CancelUnpaidOrderLinesPays
  <2>3. ASSUME NEW o \in Orders, NEW L \in SUBSET Lines, CancelFreeOrderLines(o, L)
        PROVE  PaymentInv'
    BY <2>3, CancelFreeOrderLinesPays
  <2>4. ASSUME NEW o \in Orders, NEW L \in SUBSET Lines, NEW C \in SUBSET Lines,
               NEW cents \in [C -> RefundCents], RequestOrderRefund(o, cents, L)
        PROVE  PaymentInv'
    BY <2>4, RequestOrderRefundPays
  <2> QED
    BY <1>6, <2>1, <2>2, <2>3, <2>4 DEF Leave
<1> QED
  BY <1>1, <1>2, <1>3, <1>4, <1>5, <1>6 DEF Next

LEMMA InvImpliesAmendmentsFollowPayments == PaymentInv => AmendmentsFollowPayments
BY DEF PaymentInv, PaymentFollows, AppliedOnce, Captures, AmendmentsFollowPayments

(***************************************************************************)
(* The money.                                                              *)
(*                                                                         *)
(* What is left of the lines follows what was captured because netting is  *)
(* exact: the increases of a quote beyond its decreases are its supplement, *)
(* and a decrease never moves more than is left of its line.  The quote is *)
(* worth that only while its order has the revision it was made for, so    *)
(* the inductive invariant MoneyInv compares a quote with the lines of     *)
(* that revision.  While an order is not paid, each of its lines has all   *)
(* of its price left, which is what its payment then asks for.             *)
(***************************************************************************)
\* What a line counts for in the total of its order.
Price(row) == IF row.state = "DROPPED" THEN 0 ELSE row.cents

LeftOf(o, rows) == SumOf([l \in LinesOf(o) |-> rows[l].left])

\* Order o with the row r, its lines and its payments.
OrderWorth(o, r, rows, pays) ==
  /\ r.returned \in Nat /\ r.paid \in {"UNPAID", "NOT_REQUIRED", "SETTLED"}
  /\ \A l \in LinesOf(o) : rows[l].cents \in Nat /\ rows[l].left \in Nat
  /\ r.status = "CONFIRMED" => r.paid # "UNPAID"
  /\ r.status = "HELD" => r.paid = "UNPAID" /\ TotalOf(o, rows) > 0
  /\ r.paid = "SETTLED" <=> Captured(o, pays) > 0
  /\ r.paid = "UNPAID" =>
       r.returned = 0 /\ \A l \in LinesOf(o) : rows[l].left = Price(rows[l])
  /\ r.paid # "UNPAID" =>
       /\ LeftOf(o, rows) + r.returned = Captured(o, pays)
       /\ TotalOf(o, rows) <= Captured(o, pays)

OrderMoney(o) == OrderWorth(o, orders[o], lines, payments)

\* A payment of an order that is under way asks for the price of the order.
PaymentMoney(p) ==
  payments[p] # NoRow =>
    /\ payments[p].external \in Nat /\ payments[p].wallet \in Nat
    /\ payments[p].status = "PENDING" /\ payments[p].amendment = Nil =>
         Amount(payments[p]) = TotalOf(payments[p].order, lines)

\* Netting adds up, for the lines as they were quoted.
NetsUp(m, rows) ==
  /\ SumOf([l \in DOMAIN m.changes |-> m.changes[l].delta]) = m.supplement
  /\ SumOf([l \in DOMAIN m.changes |-> m.changes[l].cents - rows[l].cents]) <= m.supplement
  /\ \A l \in DOMAIN m.changes : rows[l].left + m.changes[l].delta >= 0

QuoteMoney(a) ==
  LET m == amendments[a] IN
  m # NoRow =>
    /\ m.supplement \in Nat
    /\ \A l \in DOMAIN m.changes : m.changes[l].cents \in Nat /\ m.changes[l].delta \in Int
    /\ /\ m.status \in {"QUOTED", "AWAITING_PAYMENT"}
       /\ m.base = orders[m.order].revision /\ ~m.unpaid
       => NetsUp(m, lines)

MoneyInv ==
  /\ \A o \in Orders : OrderMoney(o)
  /\ \A p \in Payments : PaymentMoney(p)
  /\ \A a \in Amendments : QuoteMoney(a)

(***************************************************************************)
(* Sums over payments and lines.                                           *)
(***************************************************************************)
\* What a payment brought in for order o.
Gain(row, o) ==
  IF row # NoRow /\ row.order = o /\ row.status = "SUCCEEDED" THEN Amount(row) ELSE 0

Numbers(pays) ==
  \A p \in Payments : pays[p] # NoRow => pays[p].external \in Nat /\ pays[p].wallet \in Nat

LEMMA GainIsAmount ==
  ASSUME NEW pays, Numbers(pays), NEW p \in Payments, NEW o
  PROVE  Gain(pays[p], o) \in Nat
BY DEF Numbers, Gain, Amount

LEMMA CapturedIsSum ==
  ASSUME NEW pays, Numbers(pays), NEW o
  PROVE  /\ Captured(o, pays) = SumOf([p \in Payments |-> Gain(pays[p], o)])
         /\ Captured(o, pays) \in Nat
         /\ IsAmounts([p \in Payments |-> Gain(pays[p], o)])
<1> DEFINE C == {p \in Payments : pays[p] # NoRow /\ pays[p].order = o
                                  /\ pays[p].status = "SUCCEEDED"}
           f == [p \in C |-> Amount(pays[p])]
           g == [p \in Payments |-> Gain(pays[p], o)]
<1>1. Captured(o, pays) = SumOf(f)
  BY DEF Captured
<1>2. \A p \in Payments : Gain(pays[p], o) \in Nat
  BY GainIsAmount
<1>3. IsAmounts(g) /\ \A p \in Payments : g[p] >= 0
  BY <1>2, TablesAssumption DEF IsAmounts
<1>4. \A p \in C : f[p] = Gain(pays[p], o)
  BY DEF Gain
<1>5. IsAmounts(f)
  <2>1. IsFiniteSet(C)
    BY TablesAssumption, FS_Subset
  <2>2. \A p \in C : f[p] \in Int
    BY <1>2, <1>4
  <2> QED
    BY <2>1, <2>2 DEF IsAmounts
<1>6. \A p \in Payments \ C : g[p] = 0
  BY DEF Gain
<1>7. DOMAIN f = C /\ DOMAIN g = Payments /\ C \subseteq Payments /\ \A p \in C : g[p] = f[p]
  BY <1>4
<1> HIDE DEF f, g, C
<1>8. SumOf(g) = SumOf(f)
  BY <1>3, <1>5, <1>6, <1>7, SumOfWider
<1>9. SumOf(g) \in Nat
  BY <1>3, <1>7, SumOfType
<1> QED
  BY <1>1, <1>3, <1>8, <1>9 DEF g

LEMMA CapturedStays ==
  ASSUME NEW pays, Numbers(pays), NEW pays2, Numbers(pays2), NEW o,
         \A p \in Payments : Gain(pays2[p], o) = Gain(pays[p], o)
  PROVE  Captured(o, pays2) = Captured(o, pays)
<1>1. [p \in Payments |-> Gain(pays2[p], o)] = [p \in Payments |-> Gain(pays[p], o)]
  OBVIOUS
<1> QED
  BY <1>1, CapturedIsSum

LEMMA CapturedGrows ==
  ASSUME NEW pays, Numbers(pays), NEW pays2, Numbers(pays2), NEW o,
         NEW p \in Payments, Gain(pays[p], o) = 0,
         \A q \in Payments \ {p} : Gain(pays2[q], o) = Gain(pays[q], o)
  PROVE  Captured(o, pays2) = Captured(o, pays) + Gain(pays2[p], o)
<1> DEFINE f == [q \in Payments |-> Gain(pays[q], o)]
           g == [q \in Payments |-> Gain(pays2[q], o)]
<1>1. /\ IsAmounts(f) /\ IsAmounts(g)
      /\ Captured(o, pays) = SumOf(f) /\ Captured(o, pays2) = SumOf(g)
  BY CapturedIsSum
<1>2. /\ DOMAIN f = Payments /\ DOMAIN g = Payments
      /\ f[p] = 0 /\ g[p] = Gain(pays2[p], o) /\ \A q \in Payments \ {p} : g[q] = f[q]
  OBVIOUS
<1> HIDE DEF f, g
<1>3. SumOf(g) = SumOf(f) + g[p] - f[p]
  BY <1>1, <1>2, SumOfChanged
<1>4. SumOf(f) \in Int /\ g[p] \in Int
  BY <1>1, <1>2, SumOfType DEF IsAmounts
<1> QED
  BY <1>1, <1>2, <1>3, <1>4

LEMMA LinesAreFinite ==
  ASSUME NEW o
  PROVE  IsFiniteSet(LinesOf(o))
BY TablesAssumption, FS_Subset DEF LinesOf

LEMMA TotalIsSum ==
  ASSUME NEW o, NEW rows, \A l \in LinesOf(o) : rows[l].cents \in Nat
  PROVE  /\ TotalOf(o, rows) = SumOf([l \in LinesOf(o) |-> Price(rows[l])])
         /\ TotalOf(o, rows) \in Nat
         /\ IsAmounts([l \in LinesOf(o) |-> Price(rows[l])])
<1> DEFINE C == {k \in LinesOf(o) : rows[k].state # "DROPPED"}
           f == [l \in C |-> rows[l].cents]
           g == [l \in LinesOf(o) |-> Price(rows[l])]
<1>1. TotalOf(o, rows) = SumOf(f)
  BY DEF TotalOf
<1>2. IsFiniteSet(LinesOf(o)) /\ IsFiniteSet(C)
  BY LinesAreFinite, FS_Subset
<1>3. IsAmounts(g) /\ \A l \in LinesOf(o) : g[l] >= 0
  BY <1>2 DEF IsAmounts, Price
<1>4. IsAmounts(f)
  BY <1>2 DEF IsAmounts
<1>5. /\ DOMAIN f = C /\ DOMAIN g = LinesOf(o) /\ C \subseteq LinesOf(o)
      /\ \A l \in C : g[l] = f[l]
      /\ \A l \in LinesOf(o) \ C : g[l] = 0
  BY DEF Price
<1> HIDE DEF f, g, C
<1>6. SumOf(g) = SumOf(f) /\ SumOf(g) \in Nat
  BY <1>3, <1>4, <1>5, SumOfWider, SumOfType
<1> QED
  BY <1>1, <1>3, <1>6 DEF g

LEMMA TotalStays ==
  ASSUME NEW o, NEW rows, NEW rows2,
         \A l \in LinesOf(o) : rows[l].cents \in Nat /\ rows2[l].cents \in Nat,
         \A l \in LinesOf(o) : Price(rows2[l]) = Price(rows[l])
  PROVE  TotalOf(o, rows2) = TotalOf(o, rows)
<1>1. [l \in LinesOf(o) |-> Price(rows2[l])] = [l \in LinesOf(o) |-> Price(rows[l])]
  OBVIOUS
<1> QED
  BY <1>1, TotalIsSum

LEMMA LeftIsAmount ==
  ASSUME NEW o, NEW rows, \A l \in LinesOf(o) : rows[l].left \in Nat
  PROVE  LeftOf(o, rows) \in Nat /\ IsAmounts([l \in LinesOf(o) |-> rows[l].left])
<1> DEFINE f == [l \in LinesOf(o) |-> rows[l].left]
<1>1. IsAmounts(f) /\ \A l \in DOMAIN f : f[l] >= 0
  BY LinesAreFinite DEF IsAmounts
<1> HIDE DEF f
<1>2. SumOf(f) \in Nat
  BY <1>1, SumOfType
<1> QED
  BY <1>1, <1>2 DEF f, LeftOf

LEMMA LeftStays ==
  ASSUME NEW o, NEW rows, NEW rows2, \A l \in LinesOf(o) : rows2[l].left = rows[l].left
  PROVE  LeftOf(o, rows2) = LeftOf(o, rows)
<1>1. [l \in LinesOf(o) |-> rows2[l].left] = [l \in LinesOf(o) |-> rows[l].left]
  OBVIOUS
<1> QED
  BY <1>1 DEF LeftOf

\* Of a line that is not paid, all of its price is left.
LEMMA FullPriceLeft ==
  ASSUME NEW o, NEW rows, \A l \in LinesOf(o) : rows[l].cents \in Nat,
         \A l \in LinesOf(o) : rows[l].left = Price(rows[l])
  PROVE  LeftOf(o, rows) = TotalOf(o, rows)
<1>1. [l \in LinesOf(o) |-> rows[l].left] = [l \in LinesOf(o) |-> Price(rows[l])]
  OBVIOUS
<1> QED
  BY <1>1, TotalIsSum DEF LeftOf

(***************************************************************************)
(* What may happen to the money of an order.                               *)
(***************************************************************************)
\* The lines are worth what they were.
SameWorth(o, rows, rows2) ==
  \A l \in LinesOf(o) :
    /\ rows2[l].cents = rows[l].cents /\ rows2[l].left = rows[l].left
    /\ rows2[l].state = "DROPPED" <=> rows[l].state = "DROPPED"

LEMMA SameWorthSamePrice ==
  ASSUME NEW o, NEW rows, NEW rows2, SameWorth(o, rows, rows2)
  PROVE  \A l \in LinesOf(o) : Price(rows2[l]) = Price(rows[l])
BY DEF SameWorth, Price

\* Nothing happens, or the order ends.
LEMMA WorthStays ==
  ASSUME NEW o, NEW r, NEW r2, NEW rows, NEW rows2, NEW pays, NEW pays2,
         OrderWorth(o, r, rows, pays), Numbers(pays), Numbers(pays2),
         SameWorth(o, rows, rows2),
         \A p \in Payments : Gain(pays2[p], o) = Gain(pays[p], o),
         r2.paid = r.paid, r2.returned = r.returned,
         r2.status \in {r.status, "EXPIRED", "CANCELLED"}
  PROVE  OrderWorth(o, r2, rows2, pays2)
<1>1. Captured(o, pays2) = Captured(o, pays)
  BY CapturedStays
<1>2. \A l \in LinesOf(o) :
        /\ rows2[l].cents = rows[l].cents /\ rows2[l].left = rows[l].left
        /\ Price(rows2[l]) = Price(rows[l])
        /\ rows[l].cents \in Nat /\ rows[l].left \in Nat
  BY SameWorthSamePrice DEF SameWorth, OrderWorth
<1>3. TotalOf(o, rows2) = TotalOf(o, rows) /\ LeftOf(o, rows2) = LeftOf(o, rows)
  BY <1>2, TotalStays, LeftStays
<1> QED
  BY <1>1, <1>2, <1>3 DEF OrderWorth

\* A held order is paid with all it costs.
LEMMA WorthPaid ==
  ASSUME NEW o, NEW r, NEW r2, NEW rows, NEW pays, NEW pays2,
         OrderWorth(o, r, rows, pays), Numbers(pays), Numbers(pays2),
         r.status = "HELD", r2.status = "CONFIRMED", r2.paid = "SETTLED",
         r2.returned = r.returned,
         NEW p \in Payments, Gain(pays[p], o) = 0, Gain(pays2[p], o) = TotalOf(o, rows),
         \A q \in Payments \ {p} : Gain(pays2[q], o) = Gain(pays[q], o)
  PROVE  OrderWorth(o, r2, rows, pays2)
<1>1. /\ r.paid = "UNPAID" /\ r.returned = 0 /\ TotalOf(o, rows) > 0
      /\ ~(Captured(o, pays) > 0)
      /\ \A l \in LinesOf(o) : /\ rows[l].cents \in Nat /\ rows[l].left \in Nat
                               /\ rows[l].left = Price(rows[l])
  BY DEF OrderWorth
<1>2. Captured(o, pays) \in Nat /\ TotalOf(o, rows) \in Nat
  BY <1>1, CapturedIsSum, TotalIsSum
<1>3. Captured(o, pays2) = Captured(o, pays) + Gain(pays2[p], o)
  BY CapturedGrows
<1>4. Captured(o, pays2) = TotalOf(o, rows)
  BY <1>1, <1>2, <1>3
<1>5. LeftOf(o, rows) = TotalOf(o, rows)
  BY <1>1, FullPriceLeft
<1> QED
  BY <1>1, <1>2, <1>4, <1>5 DEF OrderWorth

\* Order o after refreshUnpaidProjection.
Refreshed(o, r2, rows2) ==
  \/ r2.status \notin {"HELD", "CONFIRMED"} /\ r2.paid = "UNPAID"
  \/ r2.status = "CONFIRMED" /\ r2.paid = "NOT_REQUIRED" /\ TotalOf(o, rows2) = 0
  \/ r2.status = "HELD" /\ r2.paid = "UNPAID" /\ TotalOf(o, rows2) # 0

\* An order that is not paid gets other lines.
LEMMA WorthRefreshed ==
  ASSUME NEW o, NEW r, NEW r2, NEW rows, NEW rows2, NEW pays, NEW pays2,
         OrderWorth(o, r, rows, pays), Numbers(pays), Numbers(pays2),
         r.paid = "UNPAID", r2.returned = r.returned,
         \A l \in LinesOf(o) : rows2[l].cents \in Nat /\ rows2[l].left = Price(rows2[l]),
         \A p \in Payments : Gain(pays2[p], o) = Gain(pays[p], o),
         Refreshed(o, r2, rows2)
  PROVE  OrderWorth(o, r2, rows2, pays2)
<1>1. r.returned = 0 /\ ~(Captured(o, pays) > 0)
  BY DEF OrderWorth
<1>2. Captured(o, pays2) = Captured(o, pays) /\ Captured(o, pays) \in Nat
  BY CapturedStays, CapturedIsSum
<1>3. Captured(o, pays2) = 0
  BY <1>1, <1>2
<1>4. \A l \in LinesOf(o) : rows2[l].left \in Nat
  BY DEF Price
<1>5. TotalOf(o, rows2) \in Nat /\ LeftOf(o, rows2) = TotalOf(o, rows2)
  BY TotalIsSum, FullPriceLeft
<1> QED
  BY <1>1, <1>3, <1>4, <1>5 DEF OrderWorth, Refreshed

\* The cents `back` of the lines go back, and lines may be cancelled.
Returned(o, r, r2, rows, rows2, back) ==
  /\ r.paid = "SETTLED" /\ r2.paid = r.paid /\ r2.status \in {r.status, "CANCELLED"}
  /\ DOMAIN back \subseteq LinesOf(o)
  /\ \A l \in DOMAIN back : back[l] \in Nat /\ back[l] <= rows[l].left
  /\ r2.returned = r.returned + SumOf(back)
  /\ \A l \in LinesOf(o) :
       /\ rows2[l].cents = rows[l].cents
       /\ rows2[l].state = "DROPPED" <=> rows[l].state = "DROPPED"
       /\ rows2[l].left = IF l \in DOMAIN back THEN rows[l].left - back[l] ELSE rows[l].left

\* Money of a paid order goes back.
LEMMA WorthReturned ==
  ASSUME NEW o, NEW r, NEW r2, NEW rows, NEW rows2, NEW pays, NEW pays2,
         OrderWorth(o, r, rows, pays), Numbers(pays), Numbers(pays2),
         NEW back, Returned(o, r, r2, rows, rows2, back),
         \A p \in Payments : Gain(pays2[p], o) = Gain(pays[p], o)
  PROVE  OrderWorth(o, r2, rows2, pays2)
<1> USE DEF Returned
<1> DEFINE f == [l \in LinesOf(o) |-> rows[l].left]
           g == [l \in LinesOf(o) |-> rows2[l].left]
<1>1. /\ \A l \in LinesOf(o) : rows[l].cents \in Nat /\ rows[l].left \in Nat
      /\ r.returned \in Nat /\ LeftOf(o, rows) + r.returned = Captured(o, pays)
      /\ TotalOf(o, rows) <= Captured(o, pays) /\ Captured(o, pays) > 0
      /\ r.status # "HELD"
  BY DEF OrderWorth
<1>2. \A l \in LinesOf(o) : rows2[l].left \in Nat
  BY <1>1
<1>3. IsAmounts(back) /\ SumOf(back) \in Nat
  <2>1. IsFiniteSet(DOMAIN back)
    BY LinesAreFinite, FS_Subset
  <2>2. IsAmounts(back) /\ \A l \in DOMAIN back : back[l] >= 0
    BY <2>1 DEF IsAmounts
  <2> QED
    BY <2>2, SumOfType
<1>4. IsAmounts(f) /\ IsAmounts(g) /\ LeftOf(o, rows) \in Nat /\ LeftOf(o, rows2) \in Nat
  BY <1>1, <1>2, LeftIsAmount
<1>5. /\ DOMAIN f = LinesOf(o) /\ DOMAIN g = LinesOf(o)
      /\ \A l \in DOMAIN back : f[l] = g[l] + back[l]
      /\ \A l \in LinesOf(o) \ DOMAIN back : f[l] = g[l]
  BY <1>1
<1>6. LeftOf(o, rows) = SumOf(f) /\ LeftOf(o, rows2) = SumOf(g)
  BY DEF LeftOf
<1> HIDE DEF f, g
<1>7. SumOf(f) = SumOf(g) + SumOf(back)
  BY <1>3, <1>4, <1>5, SumOfShifted
<1>8. LeftOf(o, rows2) + r2.returned = Captured(o, pays)
  BY <1>1, <1>3, <1>4, <1>6, <1>7
<1>9. Captured(o, pays2) = Captured(o, pays)
  BY CapturedStays
<1>10. TotalOf(o, rows2) = TotalOf(o, rows)
  <2>1. \A l \in LinesOf(o) : Price(rows2[l]) = Price(rows[l])
    BY DEF Price
  <2> QED
    BY <1>1, <2>1, TotalStays
<1>11. r2.returned \in Nat
  BY <1>1, <1>3
<1> QED
  BY <1>1, <1>2, <1>8, <1>9, <1>10, <1>11 DEF OrderWorth

\* The lines in the domain of `more` change price and what is left of them.
Repriced(o, rows, rows2, dearer, more) ==
  /\ DOMAIN more \subseteq LinesOf(o) /\ DOMAIN dearer = DOMAIN more
  /\ \A l \in DOMAIN more :
       /\ more[l] \in Int /\ dearer[l] \in Int
       /\ rows[l].state # "DROPPED" /\ rows2[l].state # "DROPPED"
       /\ rows2[l].cents = rows[l].cents + dearer[l]
       /\ rows2[l].left = rows[l].left + more[l]
  /\ \A l \in LinesOf(o) \ DOMAIN more : rows2[l] = rows[l]
  /\ \A l \in LinesOf(o) :
       /\ rows[l].cents \in Nat /\ rows[l].left \in Nat
       /\ rows2[l].cents \in Nat /\ rows2[l].left \in Nat

LEMMA RepricedSums ==
  ASSUME NEW o, NEW rows, NEW rows2, NEW dearer, NEW more, Repriced(o, rows, rows2, dearer, more)
  PROVE  /\ TotalOf(o, rows2) = TotalOf(o, rows) + SumOf(dearer)
         /\ LeftOf(o, rows2) = LeftOf(o, rows) + SumOf(more)
         /\ SumOf(dearer) \in Int /\ SumOf(more) \in Int
<1> USE DEF Repriced
<1> DEFINE f == [l \in LinesOf(o) |-> rows[l].left]
           g == [l \in LinesOf(o) |-> rows2[l].left]
           h == [l \in LinesOf(o) |-> Price(rows[l])]
           k == [l \in LinesOf(o) |-> Price(rows2[l])]
<1>1. IsAmounts(f) /\ IsAmounts(g) /\ LeftOf(o, rows) = SumOf(f) /\ LeftOf(o, rows2) = SumOf(g)
  BY LeftIsAmount DEF LeftOf
<1>2. /\ IsAmounts(h) /\ IsAmounts(k)
      /\ TotalOf(o, rows) = SumOf(h) /\ TotalOf(o, rows2) = SumOf(k)
  BY TotalIsSum
<1>3. IsAmounts(dearer) /\ IsAmounts(more)
  <2>1. IsFiniteSet(DOMAIN more)
    BY LinesAreFinite, FS_Subset
  <2> QED
    BY <2>1 DEF IsAmounts
<1>4. /\ DOMAIN f = LinesOf(o) /\ DOMAIN g = LinesOf(o)
      /\ \A l \in DOMAIN more : g[l] = f[l] + more[l]
      /\ \A l \in LinesOf(o) \ DOMAIN more : g[l] = f[l]
  OBVIOUS
<1>5. /\ DOMAIN h = LinesOf(o) /\ DOMAIN k = LinesOf(o)
      /\ \A l \in DOMAIN dearer : k[l] = h[l] + dearer[l]
      /\ \A l \in LinesOf(o) \ DOMAIN dearer : k[l] = h[l]
  BY DEF Price
<1> HIDE DEF f, g, h, k
<1>6. SumOf(g) = SumOf(f) + SumOf(more)
  BY <1>1, <1>3, <1>4, SumOfShifted
<1>7. SumOf(k) = SumOf(h) + SumOf(dearer)
  BY <1>2, <1>3, <1>5, SumOfShifted
<1> QED
  BY <1>1, <1>2, <1>3, <1>6, <1>7, SumOfType

\* A change of a paid order takes effect: its supplement came in, and `back` cents
\* go back.
LEMMA WorthApplied ==
  ASSUME NEW o, NEW r, NEW r2, NEW rows, NEW rows2, NEW pays, NEW pays2,
         OrderWorth(o, r, rows, pays), Numbers(pays2),
         r.status = "CONFIRMED", r2.status = "CONFIRMED",
         NEW dearer, NEW more, Repriced(o, rows, rows2, dearer, more),
         NEW supplement \in Nat, NEW back \in Nat,
         SumOf(more) = supplement - back, SumOf(dearer) <= supplement,
         r2.returned = r.returned + back,
         Captured(o, pays2) = Captured(o, pays) + supplement,
         r2.paid = CASE Captured(o, pays2) > 0 -> "SETTLED"
                     [] Captured(o, pays2) = 0 /\ TotalOf(o, rows2) = 0 -> "NOT_REQUIRED"
                     [] OTHER -> "UNPAID"
  PROVE  OrderWorth(o, r2, rows2, pays2)
<1>1. /\ r.paid # "UNPAID" /\ r.returned \in Nat
      /\ LeftOf(o, rows) + r.returned = Captured(o, pays)
      /\ TotalOf(o, rows) <= Captured(o, pays)
      /\ \A l \in LinesOf(o) : rows[l].cents \in Nat /\ rows[l].left \in Nat
  BY DEF OrderWorth
<1>2. \A l \in LinesOf(o) : rows2[l].cents \in Nat /\ rows2[l].left \in Nat
  BY DEF Repriced
<1>3. /\ TotalOf(o, rows2) = TotalOf(o, rows) + SumOf(dearer)
      /\ LeftOf(o, rows2) = LeftOf(o, rows) + SumOf(more)
      /\ SumOf(dearer) \in Int /\ SumOf(more) \in Int
  BY RepricedSums
<1>4. /\ TotalOf(o, rows) \in Nat /\ TotalOf(o, rows2) \in Nat
      /\ LeftOf(o, rows) \in Nat /\ LeftOf(o, rows2) \in Nat
      /\ Captured(o, pays2) \in Nat
  BY <1>1, <1>2, TotalIsSum, LeftIsAmount, CapturedIsSum
<1>5. /\ LeftOf(o, rows2) + r2.returned = Captured(o, pays2)
      /\ TotalOf(o, rows2) <= Captured(o, pays2)
      /\ r2.returned \in Nat
  BY <1>1, <1>3, <1>4
<1>6. CASE Captured(o, pays2) > 0
  BY <1>2, <1>5, <1>6 DEF OrderWorth
<1>7. CASE ~(Captured(o, pays2) > 0)
  <2>1. Captured(o, pays2) = 0 /\ TotalOf(o, rows2) = 0
    BY <1>4, <1>5, <1>7
  <2>2. r2.paid = "NOT_REQUIRED"
    BY <2>1
  <2> QED
    BY <1>2, <1>5, <1>7, <2>2 DEF OrderWorth
<1> QED
  BY <1>6, <1>7

(***************************************************************************)
(* A command: some orders, payments and amendments are written, and the    *)
(* rest is left or ends.                                                   *)
(***************************************************************************)
OrderRests(o) ==
  /\ orders'[o].paid = orders[o].paid /\ orders'[o].returned = orders[o].returned
  /\ orders'[o].status \in {orders[o].status, "EXPIRED", "CANCELLED"}
  /\ orders'[o].revision >= orders[o].revision
  /\ SameWorth(o, lines, lines')

OrderWritten(o) == OrderMoney(o)' /\ orders'[o].revision > orders[o].revision

PaymentRests(p) ==
  /\ payments'[p] = NoRow <=> payments[p] = NoRow
  /\ payments[p] # NoRow =>
       /\ payments'[p].order = payments[p].order
       /\ payments'[p].amendment = payments[p].amendment
       /\ payments'[p].external = payments[p].external
       /\ payments'[p].wallet = payments[p].wallet
       /\ payments'[p].status = "SUCCEEDED" <=> payments[p].status = "SUCCEEDED"
       /\ payments'[p].status = "PENDING" =>
            /\ payments[p].status = "PENDING"
            /\ payments[p].amendment = Nil => OrderRests(payments[p].order)

PaymentWritten(p) ==
  /\ PaymentMoney(p)'
  /\ \A o \in Orders : ~OrderWritten(o) => Gain(payments'[p], o) = Gain(payments[p], o)

AmendmentRests(a) ==
  amendments'[a] # NoRow =>
    /\ amendments[a] # NoRow
    /\ amendments'[a].order = amendments[a].order /\ amendments'[a].base = amendments[a].base
    /\ amendments'[a].unpaid = amendments[a].unpaid
    /\ amendments'[a].supplement = amendments[a].supplement
    /\ amendments'[a].changes = amendments[a].changes
    /\ amendments'[a].status \in {"QUOTED", "AWAITING_PAYMENT"} =>
         amendments[a].status \in {"QUOTED", "AWAITING_PAYMENT"}

MoneyMoves ==
  /\ \A o \in Orders : OrderRests(o) \/ OrderWritten(o)
  /\ \A p \in Payments : PaymentRests(p) \/ PaymentWritten(p)
  /\ \A a \in Amendments : AmendmentRests(a) \/ QuoteMoney(a)'

LEMMA SameGain ==
  ASSUME NEW p \in Payments, PaymentRests(p), NEW o
  PROVE  Gain(payments'[p], o) = Gain(payments[p], o)
BY DEF PaymentRests, Gain, Amount

LEMMA PaymentsHaveNumbers ==
  ASSUME MoneyInv
  PROVE  Numbers(payments)
BY DEF MoneyInv, PaymentMoney, Numbers

LEMMA MovedNumbers ==
  ASSUME MoneyInv, MoneyMoves
  PROVE  Numbers(payments')
<1>1. ASSUME NEW p \in Payments, payments'[p] # NoRow
      PROVE  payments'[p].external \in Nat /\ payments'[p].wallet \in Nat
  <2>1. CASE PaymentRests(p)
    BY <1>1, <2>1 DEF PaymentRests, MoneyInv, PaymentMoney
  <2>2. CASE PaymentWritten(p)
    BY <1>1, <2>2 DEF PaymentWritten, PaymentMoney
  <2> QED
    BY <2>1, <2>2 DEF MoneyMoves
<1> QED
  BY <1>1 DEF Numbers

LEMMA RestingOrder ==
  ASSUME MoneyInv, MoneyMoves, NEW o \in Orders, ~OrderWritten(o)
  PROVE  OrderMoney(o)'
<1>1. OrderWorth(o, orders[o], lines, payments) /\ Numbers(payments) /\ Numbers(payments')
  BY PaymentsHaveNumbers, MovedNumbers DEF MoneyInv, OrderMoney
<1>2. \A p \in Payments : Gain(payments'[p], o) = Gain(payments[p], o)
  BY SameGain DEF MoneyMoves, PaymentWritten
<1>3. /\ orders'[o].paid = orders[o].paid /\ orders'[o].returned = orders[o].returned
      /\ orders'[o].status \in {orders[o].status, "EXPIRED", "CANCELLED"}
      /\ SameWorth(o, lines, lines')
  BY DEF OrderRests, MoneyMoves
<1>4. OrderWorth(o, orders'[o], lines', payments')
  BY <1>1, <1>2, <1>3, WorthStays
<1> QED
  BY <1>4 DEF OrderMoney

LEMMA RestingPayment ==
  ASSUME PaymentInv, MoneyInv, NEW p \in Payments, PaymentRests(p)
  PROVE  PaymentMoney(p)'
<1> SUFFICES ASSUME payments'[p] # NoRow PROVE PaymentMoney(p)'
  BY DEF PaymentMoney
<1>1. payments[p] # NoRow /\ PaymentMoney(p)
  BY DEF PaymentRests, MoneyInv
<1>2. /\ payments[p].external \in Nat /\ payments[p].wallet \in Nat
      /\ payments'[p].external = payments[p].external
      /\ payments'[p].wallet = payments[p].wallet
      /\ payments'[p].order = payments[p].order
  BY <1>1 DEF PaymentRests, PaymentMoney
<1>3. ASSUME payments'[p].status = "PENDING", payments'[p].amendment = Nil
      PROVE  Amount(payments'[p]) = TotalOf(payments'[p].order, lines')
  <2> SUFFICES ASSUME NEW o, o = payments[p].order
               PROVE  Amount(payments'[p]) = TotalOf(o, lines')
    BY <1>2
  <2>1. /\ payments[p].status = "PENDING" /\ payments[p].amendment = Nil
        /\ OrderRests(o) /\ o \in Orders
    BY <1>1, <1>3 DEF PaymentRests, PaymentInv, PaymentFits, PaymentRow
  <2>2. Amount(payments[p]) = TotalOf(o, lines)
    BY <1>1, <2>1 DEF PaymentMoney
  <2>3. SameWorth(o, lines, lines')
    BY <2>1 DEF OrderRests
  <2>4. \A l \in LinesOf(o) : /\ lines[l].cents \in Nat /\ lines'[l].cents \in Nat
                              /\ Price(lines'[l]) = Price(lines[l])
    BY <2>1, <2>3, SameWorthSamePrice DEF MoneyInv, OrderMoney, OrderWorth, SameWorth
  <2>5. TotalOf(o, lines') = TotalOf(o, lines)
    BY <2>4, TotalStays
  <2>6. Amount(payments'[p]) = Amount(payments[p])
    BY <1>2 DEF Amount
  <2> QED
    BY <2>2, <2>5, <2>6
<1> QED
  BY <1>2, <1>3 DEF PaymentMoney

LEMMA RestingQuote ==
  ASSUME CourtInv, MoneyInv, MoneyMoves, NEW a \in Amendments, AmendmentRests(a),
         \A o \in Orders : orders[o].revision \in Nat /\ orders'[o].revision \in Nat
  PROVE  QuoteMoney(a)'
<1> DEFINE m == amendments[a]
           e == amendments'[a]
<1> SUFFICES ASSUME e # NoRow PROVE QuoteMoney(a)'
  BY DEF QuoteMoney
<1>1. /\ m # NoRow /\ e.order = m.order /\ e.base = m.base /\ e.unpaid = m.unpaid
      /\ e.supplement = m.supplement /\ e.changes = m.changes
      /\ e.status \in {"QUOTED", "AWAITING_PAYMENT"} => m.status \in {"QUOTED", "AWAITING_PAYMENT"}
  BY DEF AmendmentRests
<1>2. QuoteMoney(a) /\ AmendmentRow(m) /\ m.base <= orders[m.order].revision
  BY <1>1 DEF MoneyInv, CourtInv, QuoteFits
<1>3. /\ m.supplement \in Nat
      /\ \A l \in DOMAIN m.changes : m.changes[l].cents \in Nat /\ m.changes[l].delta \in Int
      /\ m.order \in Orders /\ m.base \in Nat /\ DOMAIN m.changes \subseteq LinesOf(m.order)
  BY <1>1, <1>2 DEF QuoteMoney, AmendmentRow
<1>4. ASSUME e.status \in {"QUOTED", "AWAITING_PAYMENT"},
             e.base = orders'[e.order].revision, ~e.unpaid
      PROVE  NetsUp(e, lines')
  <2>1. m.base = orders'[m.order].revision
    BY <1>1, <1>4
  <2>2. OrderRests(m.order) /\ m.base = orders[m.order].revision
    BY <1>2, <1>3, <2>1 DEF MoneyMoves, OrderWritten, OrderRests
  <2>3. NetsUp(m, lines)
    BY <1>1, <1>2, <1>4, <2>2 DEF QuoteMoney
  <2>4. \A l \in DOMAIN m.changes : lines'[l].cents = lines[l].cents /\ lines'[l].left = lines[l].left
    BY <1>3, <2>2 DEF OrderRests, SameWorth
  <2>5. [l \in DOMAIN m.changes |-> m.changes[l].cents - lines'[l].cents]
          = [l \in DOMAIN m.changes |-> m.changes[l].cents - lines[l].cents]
    BY <2>4
  <2> QED
    BY <1>1, <2>3, <2>4, <2>5 DEF NetsUp
<1> QED
  BY <1>1, <1>3, <1>4 DEF QuoteMoney

LEMMA MoneySweep ==
  ASSUME CourtInv, PaymentInv, CourtInv', MoneyInv, MoneyMoves
  PROVE  MoneyInv'
<1>1. ASSUME NEW o \in Orders PROVE OrderMoney(o)'
  <2>1. CASE OrderWritten(o)
    BY <2>1 DEF OrderWritten
  <2>2. CASE ~OrderWritten(o)
    BY <2>2, RestingOrder
  <2> QED
    BY <2>1, <2>2
<1>2. \A p \in Payments : PaymentMoney(p)'
  BY RestingPayment DEF MoneyMoves, PaymentWritten
<1>3. \A o \in Orders : orders[o].revision \in Nat /\ orders'[o].revision \in Nat
  BY DEF CourtInv, RowsFit, OrderRow
<1>4. \A a \in Amendments : QuoteMoney(a)'
  BY <1>3, RestingQuote DEF MoneyMoves
<1> QED
  BY <1>1, <1>2, <1>4 DEF MoneyInv

(***************************************************************************)
(* Rows that rest.                                                         *)
(***************************************************************************)
LEMMA LinesRest ==
  ASSUME NEW o, \A l \in LinesOf(o) : lines'[l] = lines[l]
  PROVE  SameWorth(o, lines, lines')
BY DEF SameWorth

LEMMA SameOrderRests ==
  ASSUME CourtInv, NEW o \in Orders, orders'[o] = orders[o], SameWorth(o, lines, lines')
  PROVE  OrderRests(o)
BY DEF OrderRests, CourtInv, RowsFit, OrderRow

LEMMA ExpiredOrderRests ==
  ASSUME CourtInv, NEW Q, NEW o \in Orders, orders'[o] = OrdersAfter(Q)[o],
         SameWorth(o, lines, lines')
  PROVE  OrderRests(o)
<1>1. /\ DOMAIN orders[o] = {"status", "paid", "holdUntil", "revision", "returned"}
      /\ orders[o].revision \in Nat
  BY DEF CourtInv, RowsFit, OrderRow
<1>2. CASE o \in Q
  <2>1. orders'[o] = [orders[o] EXCEPT !.status = "EXPIRED", !.holdUntil = 0,
                                       !.revision = @ + 1]
    BY <1>2 DEF OrdersAfter
  <2>2. /\ orders'[o].status = "EXPIRED" /\ orders'[o].paid = orders[o].paid
        /\ orders'[o].returned = orders[o].returned
        /\ orders'[o].revision = orders[o].revision + 1
    BY <1>1, <2>1
  <2> QED
    BY <1>1, <2>2 DEF OrderRests
<1>3. CASE o \notin Q
  <2>1. orders'[o] = orders[o]
    BY <1>3 DEF OrdersAfter
  <2> QED
    BY <2>1, SameOrderRests
<1> QED
  BY <1>2, <1>3

LEMMA CancelledOrderRests ==
  ASSUME CourtInv, NEW o \in Orders, orders'[o] = CancelledOrder(o),
         SameWorth(o, lines, lines')
  PROVE  OrderRests(o)
<1>1. /\ DOMAIN orders[o] = {"status", "paid", "holdUntil", "revision", "returned"}
      /\ orders[o].revision \in Nat
  BY DEF CourtInv, RowsFit, OrderRow
<1>2. orders'[o] = [orders[o] EXCEPT !.status = "CANCELLED", !.holdUntil = 0,
                                     !.revision = @ + 1]
  BY DEF CancelledOrder
<1>3. /\ orders'[o].status = "CANCELLED" /\ orders'[o].paid = orders[o].paid
      /\ orders'[o].returned = orders[o].returned
      /\ orders'[o].revision = orders[o].revision + 1
  BY <1>1, <1>2
<1> QED
  BY <1>1, <1>3 DEF OrderRests

LEMMA EndedPaymentRests ==
  ASSUME PaymentInv, NEW p \in Payments, IsPending(p),
         NEW status \in {"FAILED", "EXPIRED", "CANCELLED"},
         payments'[p] = ReleasedPayment(payments[p], status)
  PROVE  PaymentRests(p)
<1>1. payments[p] # NoRow /\ payments[p].status = "PENDING" /\ PaymentRow(payments[p])
  BY DEF IsPending, PaymentInv, PaymentFits
<1>2. /\ payments'[p] # NoRow /\ payments'[p].status = status
      /\ payments'[p].order = payments[p].order
      /\ payments'[p].amendment = payments[p].amendment
      /\ payments'[p].wallet = payments[p].wallet
      /\ payments'[p].external = payments[p].external
  BY <1>1, Released
<1> QED
  BY <1>1, <1>2 DEF PaymentRests

LEMMA SamePaymentRests ==
  ASSUME NEW p \in Payments, payments'[p] = payments[p],
         IsPending(p) /\ payments[p].amendment = Nil => OrderRests(payments[p].order)
  PROVE  PaymentRests(p)
BY DEF PaymentRests, IsPending

LEMMA ExpiredPaymentRests ==
  ASSUME PaymentInv, NEW E, NEW Q, NEW p \in Payments,
         payments'[p] = PaymentsAfter(E, Q)[p],
         IsPending(p) /\ payments[p].amendment = Nil => OrderRests(payments[p].order)
  PROVE  PaymentRests(p)
<1>1. CASE payments'[p] = payments[p]
  BY <1>1, SamePaymentRests
<1>2. CASE IsPending(p) /\ payments'[p] = ReleasedPayment(payments[p], "EXPIRED")
  BY <1>2, EndedPaymentRests
<1> QED
  BY <1>1, <1>2 DEF PaymentsAfter

LEMMA GivenBackRests ==
  ASSUME PaymentInv, NEW p \in Payments, NEW E, NEW Q, GivenBack(p, E, Q)
  PROVE  PaymentRests(p)
<1>1. /\ payments'[p] # NoRow /\ payments'[p].status = "REFUND_REQUIRED"
      /\ payments'[p].order = payments[p].order
      /\ payments'[p].amendment = payments[p].amendment
  BY GivenBackPayment
<1>2. PaymentRow(payments[p]) /\ payments[p] # NoRow /\ payments[p].status # "SUCCEEDED"
  BY DEF PaymentInv, PaymentFits, GivenBack
<1>3. /\ PaymentRow(PaymentsAfter(E, Q)[p])
      /\ PaymentsAfter(E, Q)[p].wallet = payments[p].wallet
      /\ PaymentsAfter(E, Q)[p].external = payments[p].external
  <2>1. CASE PaymentsAfter(E, Q)[p] = payments[p]
    BY <1>2, <2>1
  <2>2. CASE PaymentsAfter(E, Q)[p] = ReleasedPayment(payments[p], "EXPIRED")
    BY <1>2, <2>2, Released
  <2> QED
    BY <2>1, <2>2 DEF PaymentsAfter
<1>4. payments'[p].wallet = payments[p].wallet /\ payments'[p].external = payments[p].external
  BY <1>3 DEF SettleReservation, PaymentRow, GivenBack
<1> QED
  BY <1>1, <1>2, <1>4 DEF PaymentRests

LEMMA ExpiredAmendmentRests ==
  ASSUME CourtInv, NEW E, E \subseteq {x \in Amendments : IsAwaiting(x)}, NEW a \in Amendments,
         amendments'[a] = AmendmentsAfter(E)[a]
  PROVE  AmendmentRests(a)
<1>1. CASE a \in E
  BY <1>1, ExpiredAmendment DEF AmendmentRests, IsAwaiting
<1>2. CASE a \notin E
  BY <1>2, ExpiredAmendment DEF AmendmentRests
<1> QED
  BY <1>1, <1>2

\* An amendment that is applied or given up asks for nothing any more.
LEMMA ClosedAmendmentRests ==
  ASSUME CourtInv, NEW a \in Amendments, amendments[a] # NoRow,
         NEW status \in {"APPLIED", "CANCELLED", "EXPIRED"},
         amendments'[a] = EndedAmendment(a, status)
  PROVE  AmendmentRests(a)
<1>1. CASE amendments[a].status \in {"QUOTED", "AWAITING_PAYMENT"}
  <2>1. AmendmentRow(amendments[a])
    BY DEF CourtInv, QuoteFits
  <2> QED
    BY <1>1, <2>1, EndedRow DEF AmendmentRests
<1>2. CASE amendments[a].status \notin {"QUOTED", "AWAITING_PAYMENT"}
  BY <1>2 DEF EndedAmendment, AmendmentRests
<1> QED
  BY <1>1, <1>2

\* The lines that lose their state but not their money.
LEMMA CancelledLinesKeepWorth ==
  ASSUME CourtInv, NEW o, NEW x,
         lines' = LinesCancelled(o)
  PROVE  SameWorth(x, lines, lines')
<1>1. ASSUME NEW l \in LinesOf(x)
      PROVE  /\ lines'[l].cents = lines[l].cents /\ lines'[l].left = lines[l].left
             /\ lines'[l].state = "DROPPED" <=> lines[l].state = "DROPPED"
  <2>1. l \in Lines /\ LineRow(lines[l])
    BY DEF LinesOf, CourtInv, RowsFit
  <2>2. lines'[l] = IF l \in ActiveLines(o) THEN [lines[l] EXCEPT !.state = "CANCELLED"]
                    ELSE lines[l]
    BY <2>1 DEF LinesCancelled
  <2>3. l \in ActiveLines(o) => lines[l].state = "ACTIVE"
    BY DEF ActiveLines
  <2> QED
    BY <2>1, <2>2, <2>3 DEF LineRow
<1> QED
  BY <1>1 DEF SameWorth

(***************************************************************************)
(* Commands that leave all money where it is.                              *)
(***************************************************************************)
LEMMA AllRest ==
  ASSUME CourtInv, PaymentInv, CourtInv', MoneyInv,
         \A o \in Orders : OrderRests(o), \A p \in Payments : PaymentRests(p),
         \A a \in Amendments : AmendmentRests(a)
  PROVE  MoneyInv'
BY MoneySweep DEF MoneyMoves

LEMMA QuietMoney ==
  ASSUME CourtInv, PaymentInv, CourtInv', MoneyInv,
         UNCHANGED <<orders, lines, amendments, payments>>
  PROVE  MoneyInv'
<1>1. \A o \in Orders : OrderRests(o)
  BY LinesRest, SameOrderRests
<1>2. \A p \in Payments : PaymentRests(p)
  BY <1>1, SamePaymentRests DEF IsPending, PaymentInv, PaymentFits, PaymentRow
<1>3. \A a \in Amendments : AmendmentRests(a)
  BY DEF AmendmentRests
<1> QED
  BY <1>1, <1>2, <1>3, AllRest

\* What was due expires, and beside that the orders O, the payments P and the
\* amendments A are written.
MoneyBeside(E, Q, O, P, A) ==
  /\ E \subseteq {x \in Amendments : IsAwaiting(x)}
  /\ \A o \in Orders \ O : orders'[o] = OrdersAfter(Q)[o] /\ SameWorth(o, lines, lines')
  /\ \A o \in O : OrderRests(o) \/ OrderWritten(o)
  /\ \A p \in Payments \ P :
       /\ payments'[p] = PaymentsAfter(E, Q)[p]
       /\ IsPending(p) /\ payments[p].amendment = Nil /\ payments[p].order \in O =>
            OrderRests(payments[p].order)
  /\ \A p \in P : PaymentRests(p) \/ PaymentWritten(p)
  /\ \A a \in Amendments \ A : amendments'[a] = AmendmentsAfter(E)[a]
  /\ \A a \in A : AmendmentRests(a) \/ QuoteMoney(a)'

LEMMA BesideExpiry ==
  ASSUME CourtInv, PaymentInv, CourtInv', MoneyInv,
         NEW E, NEW Q, NEW O, NEW P, NEW A, MoneyBeside(E, Q, O, P, A)
  PROVE  MoneyInv'
<1> USE DEF MoneyBeside
<1>1. \A o \in Orders \ O : OrderRests(o)
  BY ExpiredOrderRests
<1>2. ASSUME NEW p \in Payments \ P PROVE PaymentRests(p)
  <2>1. IsPending(p) /\ payments[p].amendment = Nil => OrderRests(payments[p].order)
    BY <1>1 DEF IsPending, PaymentInv, PaymentFits, PaymentRow
  <2> QED
    BY <2>1, ExpiredPaymentRests
<1>3. \A a \in Amendments \ A : AmendmentRests(a)
  BY ExpiredAmendmentRests
<1>4. MoneyMoves
  BY <1>1, <1>2, <1>3 DEF MoneyMoves
<1> QED
  BY <1>4, MoneySweep

LEMMA ExpiryMoney ==
  ASSUME CourtInv, PaymentInv, CourtInv', MoneyInv,
         NEW t, NEW Q, OrdersExpire(Q),
         payments' = PaymentsAfter(DueAmendments(t), Q),
         amendments' = AmendmentsAfter(DueAmendments(t))
  PROVE  MoneyInv'
<1>1. \A o : SameWorth(o, lines, lines')
  BY DEF SameWorth, OrdersExpire
<1>2. DueAmendments(t) \subseteq {x \in Amendments : IsAwaiting(x)}
  BY DueAreHeld
<1>3. MoneyBeside(DueAmendments(t), Q, {}, {}, {})
  BY <1>1, <1>2 DEF MoneyBeside, OrdersExpire
<1> QED
  BY <1>3, BesideExpiry

LEMMA ConfirmSupplementMoney ==
  ASSUME CourtInv, PaymentInv, CourtInv', MoneyInv,
         NEW a \in Amendments, NEW t, ConfirmSupplement(a, t)
  PROVE  MoneyInv'
<1> DEFINE E == DueAmendments(now)
           deadline == PaymentDeadline(amendments[a], t)
<1>1. /\ amendments[a] # NoRow /\ amendments[a].status = "QUOTED"
      /\ amendments' = [AmendmentsAfter(E) EXCEPT ![a].status = "AWAITING_PAYMENT",
                                                  ![a].holdUntil = deadline]
      /\ payments' = PaymentsAfter(E, {}) /\ OrdersExpire({}) /\ lines' = lines
  BY OrdersStay DEF ConfirmSupplement, Confirmable
<1>2. E \subseteq {x \in Amendments : IsAwaiting(x)}
  BY DueAreHeld
<1>3. a \notin E /\ AmendmentRow(amendments[a])
  BY <1>1, DueAreHeld DEF IsAwaiting, CourtInv, QuoteFits
<1>4. AmendmentsAfter(E)[a] = amendments[a] /\ DOMAIN AmendmentsAfter(E) = Amendments
  BY <1>3 DEF AmendmentsAfter
<1> HIDE DEF E, deadline
<1>5. /\ amendments'[a] = [amendments[a] EXCEPT !.status = "AWAITING_PAYMENT",
                                                !.holdUntil = deadline]
      /\ \A b \in Amendments \ {a} : amendments'[b] = AmendmentsAfter(E)[b]
  BY <1>1, <1>4
<1>6. AmendmentRests(a)
  <2>1. amendments'[a].status = "AWAITING_PAYMENT"
    BY <1>3, <1>5 DEF AmendmentRow
  <2>2. DOMAIN amendments[a] = {"order", "base", "unpaid", "status", "expiresAt", "holdUntil",
                               "supplement", "changes"}
    BY <1>3 DEF AmendmentRow
  <2>3. /\ amendments'[a].order = amendments[a].order
        /\ amendments'[a].base = amendments[a].base
        /\ amendments'[a].unpaid = amendments[a].unpaid
        /\ amendments'[a].supplement = amendments[a].supplement
        /\ amendments'[a].changes = amendments[a].changes
    BY <1>5, <2>2
  <2> QED
    BY <1>1, <2>1, <2>3 DEF AmendmentRests
<1>7. \A o : SameWorth(o, lines, lines')
  BY <1>1 DEF SameWorth
<1>8. MoneyBeside(E, {}, {}, {}, {a})
  BY <1>1, <1>2, <1>5, <1>6, <1>7 DEF MoneyBeside, OrdersExpire
<1> QED
  BY <1>8, BesideExpiry

LEMMA CancelAmendmentMoney ==
  ASSUME CourtInv, PaymentInv, CourtInv', MoneyInv,
         NEW a \in Amendments, CancelOrderAmendment(a)
  PROVE  MoneyInv'
<1>1. /\ amendments[a] # NoRow
      /\ amendments' = [amendments EXCEPT ![a] = EndedAmendment(a, "CANCELLED")]
      /\ payments' = [p \in Payments |->
           IF IsPending(p) /\ payments[p].amendment = a
           THEN ReleasedPayment(payments[p], "CANCELLED") ELSE payments[p]]
      /\ orders' = orders /\ lines' = lines
  BY DEF CancelOrderAmendment
<1>2. \A o \in Orders : OrderRests(o)
  BY <1>1, LinesRest, SameOrderRests
<1>3. ASSUME NEW p \in Payments PROVE PaymentRests(p)
  <2>1. CASE IsPending(p) /\ payments[p].amendment = a
    BY <1>1, <2>1, EndedPaymentRests
  <2>2. CASE ~(IsPending(p) /\ payments[p].amendment = a)
    <3>1. payments'[p] = payments[p]
      BY <1>1, <2>2
    <3>2. IsPending(p) => payments[p].order \in Orders
      BY DEF IsPending, PaymentInv, PaymentFits, PaymentRow
    <3> QED
      BY <1>2, <3>1, <3>2, SamePaymentRests
  <2> QED
    BY <2>1, <2>2
<1>4. DOMAIN amendments = Amendments
  BY DEF CourtInv, RowsFit
<1>5. ASSUME NEW b \in Amendments PROVE AmendmentRests(b)
  <2>1. CASE b = a
    BY <1>1, <1>4, <2>1, ClosedAmendmentRests
  <2>2. CASE b # a
    BY <1>1, <1>4, <2>2 DEF AmendmentRests
  <2> QED
    BY <2>1, <2>2
<1> QED
  BY <1>2, <1>3, <1>5, AllRest

LEMMA RejectedRests ==
  ASSUME CourtInv, PaymentInv, NEW p \in Payments, NEW a, NEW E, GivenUp(p, a, E)
  PROVE  /\ a \in Amendments /\ AmendmentRests(a)
         /\ \A x \in Amendments \ {a} : amendments'[x] = AmendmentsAfter(E)[x]
<1>1. /\ a \in Amendments /\ \A x \in Amendments \ {a} : amendments'[x] = AmendmentsAfter(E)[x]
  BY RejectedAmendment
<1>2. /\ E \subseteq {x \in Amendments : IsAwaiting(x)}
      /\ amendments' = RejectedAmendments(a, E) /\ payments[p] # NoRow
      /\ a = payments[p].amendment /\ a # Nil
  BY DEF GivenUp
<1>3. amendments[a] # NoRow
  BY <1>2 DEF PaymentInv, PaymentFits
<1>4. amendments'[a] = IF a \in E THEN AmendmentsAfter(E)[a] ELSE EndedAmendment(a, "CANCELLED")
  BY <1>1, <1>2 DEF RejectedAmendments, AmendmentsAfter
<1>5. AmendmentRests(a)
  BY <1>1, <1>2, <1>3, <1>4, ExpiredAmendmentRests, ClosedAmendmentRests
<1> QED
  BY <1>1, <1>5

LEMMA SettleRejectedMoney ==
  ASSUME CourtInv, PaymentInv, CourtInv', MoneyInv,
         NEW p \in Payments, NEW t, SettleRejected(p, t)
  PROVE  MoneyInv'
<1> DEFINE E == DueAmendments(SettleTime(p, t))
           Q == DueOrders(SettleTime(p, t))
<1> SUFFICES ASSUME NEW a, a = payments[p].amendment PROVE MoneyInv'
  OBVIOUS
<1>1. E \subseteq {x \in Amendments : IsAwaiting(x)}
  BY DueAreHeld
<1>2. /\ payments[p] # NoRow /\ payments[p].status # "SUCCEEDED" /\ a # Nil
      /\ payments' = SettledPayments(p, E, Q, FALSE)
      /\ amendments' = RejectedAmendments(a, E)
      /\ OrdersExpire(Q)
  BY OrdersDo DEF SettleRejected, Uncaptured
<1>3. /\ payments'[p] = [SettleReservation(PaymentsAfter(E, Q)[p], FALSE) EXCEPT
                           !.status = "REFUND_REQUIRED"]
      /\ \A q \in Payments \ {p} : payments'[q] = PaymentsAfter(E, Q)[q]
  BY <1>2 DEF SettledPayments, PaymentsAfter
<1> HIDE DEF E, Q
<1>4. PaymentRests(p)
  <2>1. GivenBack(p, E, Q)
    BY <1>2, <1>3 DEF GivenBack
  <2> QED
    BY <2>1, GivenBackRests
<1>5. AmendmentRests(a) /\ \A x \in Amendments \ {a} : amendments'[x] = AmendmentsAfter(E)[x]
  <2>1. GivenUp(p, a, E)
    BY <1>1, <1>2 DEF GivenUp
  <2> QED
    BY <2>1, RejectedRests
<1>6. \A o : SameWorth(o, lines, lines')
  BY <1>2 DEF SameWorth, OrdersExpire
<1>7. MoneyBeside(E, Q, {}, {p}, {a})
  BY <1>1, <1>2, <1>3, <1>4, <1>5, <1>6 DEF MoneyBeside, OrdersExpire
<1> QED
  BY <1>7, BesideExpiry

LEMMA SettleFailureMoney ==
  ASSUME CourtInv, PaymentInv, CourtInv', MoneyInv,
         NEW p \in Payments, NEW t, SettleFailure(p, t)
  PROVE  MoneyInv'
<1> DEFINE E == DueAmendments(SettleTime(p, t))
           Q == DueOrders(SettleTime(p, t))
<1> SUFFICES ASSUME NEW a, a = payments[p].amendment, NEW o, o = payments[p].order
             PROVE  MoneyInv'
  OBVIOUS
<1>1. E \subseteq {x \in Amendments : IsAwaiting(x)}
  BY DueAreHeld
<1>2. /\ payments[p] # NoRow /\ PaymentsAfter(E, Q)[p].status = "PENDING"
      /\ payments' = [PaymentsAfter(E, Q) EXCEPT ![p] = ReleasedPayment(@, "FAILED")]
  BY DEF SettleFailure
<1>3. payments[p].status = "PENDING" /\ PaymentsAfter(E, Q)[p] = payments[p]
  BY <1>2, StillPending DEF PaymentInv
<1>4. /\ payments'[p] = ReleasedPayment(payments[p], "FAILED")
      /\ \A q \in Payments \ {p} : payments'[q] = PaymentsAfter(E, Q)[q]
      /\ o \in Orders
  BY <1>2, <1>3 DEF PaymentsAfter, PaymentInv, PaymentFits, PaymentRow
<1>5. PaymentRests(p)
  BY <1>2, <1>3, <1>4, EndedPaymentRests DEF IsPending
<1>6. CASE a # Nil
  <2>1. amendments' = RejectedAmendments(a, E) /\ OrdersExpire(Q)
    BY <1>6, OrdersDo DEF SettleFailure
  <2> HIDE DEF E, Q
  <2>2. AmendmentRests(a) /\ \A x \in Amendments \ {a} : amendments'[x] = AmendmentsAfter(E)[x]
    <3>1. GivenUp(p, a, E)
      BY <1>1, <1>2, <1>3, <1>6, <2>1 DEF GivenUp
    <3> QED
      BY <3>1, RejectedRests
  <2>3. \A x : SameWorth(x, lines, lines')
    BY <2>1 DEF SameWorth, OrdersExpire
  <2>4. MoneyBeside(E, Q, {}, {p}, {a})
    BY <1>1, <1>4, <1>5, <2>1, <2>2, <2>3 DEF MoneyBeside, OrdersExpire
  <2> QED
    BY <2>4, BesideExpiry
<1>7. CASE a = Nil
  <2>1. /\ amendments' = AmendmentsAfter(E) /\ lines' = LinesCancelled(o)
        /\ orders' = [OrdersAfter(Q) EXCEPT ![o] = CancelledOrder(o)]
    BY <1>7 DEF SettleFailure
  <2>2. /\ orders'[o] = CancelledOrder(o)
        /\ \A x \in Orders \ {o} : orders'[x] = OrdersAfter(Q)[x]
    BY <1>4, <2>1 DEF OrdersAfter
  <2>3. \A x : SameWorth(x, lines, lines')
    BY <2>1, CancelledLinesKeepWorth
  <2> HIDE DEF E, Q
  <2>4. OrderRests(o)
    BY <1>4, <2>2, <2>3, CancelledOrderRests
  <2>5. MoneyBeside(E, Q, {o}, {p}, {})
    BY <1>1, <1>4, <1>5, <2>1, <2>2, <2>3, <2>4 DEF MoneyBeside
  <2> QED
    BY <2>5, BesideExpiry
<1> QED
  BY <1>6, <1>7

LEMMA CancelUnpaidOrderMoney ==
  ASSUME CourtInv, PaymentInv, CourtInv', MoneyInv, NEW o \in Orders, CancelUnpaidOrder(o)
  PROVE  MoneyInv'
<1> DEFINE E == DueAmendments(now)
           Q == DueOrders(now)
           P == {p \in Payments : IsPending(p) /\ payments[p].order = o}
<1>1. E \subseteq {x \in Amendments : IsAwaiting(x)}
  BY DueAreHeld
<1>2. /\ payments' = [p \in Payments |->
           IF IsPending(p) /\ payments[p].order = o
           THEN ReleasedPayment(payments[p], "CANCELLED") ELSE PaymentsAfter(E, Q)[p]]
      /\ amendments' = AmendmentsAfter(E) /\ lines' = LinesCancelled(o)
      /\ orders' = [OrdersAfter(Q) EXCEPT ![o] = CancelledOrder(o)]
  BY DEF CancelUnpaidOrder
<1>3. /\ orders'[o] = CancelledOrder(o)
      /\ \A x \in Orders \ {o} : orders'[x] = OrdersAfter(Q)[x]
  BY <1>2 DEF OrdersAfter
<1> HIDE DEF E, Q
<1>4. \A x : SameWorth(x, lines, lines')
  BY <1>2, CancelledLinesKeepWorth
<1>5. OrderRests(o)
  BY <1>3, <1>4, CancelledOrderRests
<1>6. \A p \in P : PaymentRests(p)
  BY <1>2, EndedPaymentRests
<1>7. \A p \in Payments \ P : payments'[p] = PaymentsAfter(E, Q)[p]
  BY <1>2
<1> HIDE DEF P
<1>8. MoneyBeside(E, Q, {o}, P, {})
  BY <1>1, <1>2, <1>3, <1>4, <1>5, <1>6, <1>7 DEF MoneyBeside
<1> QED
  BY <1>8, BesideExpiry

LEMMA CancelFreeOrderLinesMoney ==
  ASSUME CourtInv, PaymentInv, CourtInv', MoneyInv, NEW o \in Orders, NEW L,
         CancelFreeOrderLines(o, L)
  PROVE  MoneyInv'
<1> DEFINE E == DueAmendments(now)
           Q == DueOrders(now)
<1>1. E \subseteq {x \in Amendments : IsAwaiting(x)}
  BY DueAreHeld
<1>2. /\ L \subseteq ActiveLines(o) /\ lines' = LinesOut(L, "CANCELLED")
      /\ payments' = PaymentsAfter(E, Q) /\ amendments' = AmendmentsAfter(E)
      /\ orders' = [OrdersAfter(Q) EXCEPT ![o] = LeftOrder(o, L, 0)]
  BY DEF CancelFreeOrderLines
<1>3. /\ orders'[o] = LeftOrder(o, L, 0)
      /\ \A x \in Orders \ {o} : orders'[x] = OrdersAfter(Q)[x]
  BY <1>2 DEF OrdersAfter
<1> HIDE DEF E, Q
<1>4. ASSUME NEW x PROVE SameWorth(x, lines, lines')
  <2>1. ASSUME NEW l \in LinesOf(x)
        PROVE  /\ lines'[l].cents = lines[l].cents /\ lines'[l].left = lines[l].left
               /\ lines'[l].state = "DROPPED" <=> lines[l].state = "DROPPED"
    <3>1. l \in Lines /\ LineRow(lines[l])
      BY DEF LinesOf, CourtInv, RowsFit
    <3>2. lines'[l] = IF l \in L THEN [lines[l] EXCEPT !.state = "CANCELLED"] ELSE lines[l]
      BY <1>2, <3>1 DEF LinesOut
    <3>3. l \in L => lines[l].state = "ACTIVE"
      BY <1>2 DEF ActiveLines
    <3> QED
      BY <3>1, <3>2, <3>3 DEF LineRow
  <2> QED
    BY <2>1 DEF SameWorth
<1>5. OrderRests(o)
  <2>1. /\ DOMAIN orders[o] = {"status", "paid", "holdUntil", "revision", "returned"}
        /\ orders[o].revision \in Nat /\ orders[o].returned \in Nat
    BY DEF CourtInv, RowsFit, OrderRow, MoneyInv, OrderMoney, OrderWorth
  <2>2. orders'[o] = [orders[o] EXCEPT !.revision = @ + 1, !.returned = @ + 0,
                        !.status = IF ActiveLines(o) \subseteq L THEN "CANCELLED" ELSE @]
    BY <1>3 DEF LeftOrder
  <2>3. /\ orders'[o].paid = orders[o].paid /\ orders'[o].returned = orders[o].returned + 0
        /\ orders'[o].status \in {orders[o].status, "CANCELLED"}
        /\ orders'[o].revision = orders[o].revision + 1
    BY <2>1, <2>2
  <2> QED
    BY <1>4, <2>1, <2>3 DEF OrderRests
<1>6. MoneyBeside(E, Q, {o}, {}, {})
  BY <1>1, <1>2, <1>3, <1>4, <1>5 DEF MoneyBeside
<1> QED
  BY <1>6, BesideExpiry

(***************************************************************************)
(* Commands that bring in the money of an order.                           *)
(***************************************************************************)
LEMMA ExpiredKeepsNumbers ==
  ASSUME PaymentInv, MoneyInv, NEW E, NEW Q, NEW p \in Payments
  PROVE  LET r == PaymentsAfter(E, Q)[p]
         IN /\ r # NoRow => r.external \in Nat /\ r.wallet \in Nat
            /\ \A o : Gain(r, o) = Gain(payments[p], o)
<1> DEFINE r == PaymentsAfter(E, Q)[p]
<1>1. /\ PaymentFits(p)
      /\ payments[p] # NoRow => payments[p].external \in Nat /\ payments[p].wallet \in Nat
  BY DEF PaymentInv, MoneyInv, PaymentMoney
<1>2. CASE r = payments[p]
  BY <1>1, <1>2
<1>3. CASE IsPending(p) /\ r = ReleasedPayment(payments[p], "EXPIRED")
  <2>1. payments[p] # NoRow /\ payments[p].status = "PENDING" /\ PaymentRow(payments[p])
    BY <1>1, <1>3 DEF IsPending, PaymentFits
  <2>2. /\ r # NoRow /\ r.status = "EXPIRED"
        /\ r.wallet = payments[p].wallet /\ r.external = payments[p].external
    BY <1>3, <2>1, Released
  <2>3. \A o : Gain(r, o) = 0 /\ Gain(payments[p], o) = 0
    BY <2>1, <2>2 DEF Gain
  <2> QED
    BY <1>1, <2>1, <2>2, <2>3
<1> QED
  BY <1>2, <1>3 DEF PaymentsAfter

\* Payment p is written with proper numbers beside what expires.
LEMMA OneWrittenNumbers ==
  ASSUME PaymentInv, MoneyInv, NEW E, NEW Q, NEW p \in Payments,
         \A q \in Payments \ {p} : payments'[q] = PaymentsAfter(E, Q)[q],
         payments'[p] # NoRow => payments'[p].external \in Nat /\ payments'[p].wallet \in Nat
  PROVE  /\ Numbers(payments')
         /\ \A q \in Payments \ {p} : \A o : Gain(payments'[q], o) = Gain(payments[q], o)
BY ExpiredKeepsNumbers DEF Numbers

\* The held order o is paid by payment p.
PaidBy(o, p, E, Q) ==
  /\ orders[o].status = "HELD" /\ orders'[o] = PaidOrder(o) /\ lines' = lines
  /\ \A q \in Payments \ {p} : payments'[q] = PaymentsAfter(E, Q)[q]
  /\ payments[p] # NoRow => payments[p].status # "SUCCEEDED"
  /\ payments'[p] # NoRow /\ payments'[p].status = "SUCCEEDED" /\ payments'[p].order = o
  /\ payments'[p].external \in Nat /\ payments'[p].wallet \in Nat
  /\ Amount(payments'[p]) = TotalOf(o, lines)

LEMMA PaidOrderIsWritten ==
  ASSUME CourtInv, PaymentInv, MoneyInv, NEW o \in Orders, NEW p \in Payments, NEW E, NEW Q,
         PaidBy(o, p, E, Q)
  PROVE  OrderWritten(o) /\ PaymentWritten(p)
<1>1. /\ DOMAIN orders[o] = {"status", "paid", "holdUntil", "revision", "returned"}
      /\ orders[o].revision \in Nat
  BY DEF CourtInv, RowsFit, OrderRow
<1>2. orders'[o] = [orders[o] EXCEPT !.status = "CONFIRMED", !.paid = "SETTLED",
                                     !.holdUntil = 0, !.revision = @ + 1]
  BY DEF PaidBy, PaidOrder
<1>3. /\ orders'[o].status = "CONFIRMED" /\ orders'[o].paid = "SETTLED"
      /\ orders'[o].returned = orders[o].returned
      /\ orders'[o].revision = orders[o].revision + 1
  BY <1>1, <1>2
<1>4. /\ Numbers(payments) /\ Numbers(payments')
      /\ \A q \in Payments \ {p} : \A x : Gain(payments'[q], x) = Gain(payments[q], x)
  BY PaymentsHaveNumbers, OneWrittenNumbers DEF PaidBy
<1>5. /\ OrderWorth(o, orders[o], lines, payments) /\ orders[o].status = "HELD"
      /\ lines' = lines
  BY DEF MoneyInv, OrderMoney, PaidBy
<1>6. /\ \A x : Gain(payments[p], x) = 0
      /\ Gain(payments'[p], o) = TotalOf(o, lines)
      /\ \A x \in Orders \ {o} : Gain(payments'[p], x) = 0
  BY DEF Gain, PaidBy
<1>7. OrderWorth(o, orders'[o], lines, payments')
  BY <1>3, <1>4, <1>5, <1>6, WorthPaid
<1>8. OrderWritten(o)
  BY <1>1, <1>3, <1>5, <1>7 DEF OrderWritten, OrderMoney
<1>9. PaymentMoney(p)'
  BY DEF PaymentMoney, PaidBy
<1> QED
  BY <1>6, <1>8, <1>9 DEF PaymentWritten

LEMMA BeginOrderPaymentMoney ==
  ASSUME CourtInv, PaymentInv, CourtInv', MoneyInv,
         NEW p \in Payments, NEW o \in Orders, NEW w \in WalletParts, NEW t,
         BeginOrderPayment(p, o, w, t)
  PROVE  MoneyInv'
<1> DEFINE E == DueAmendments(now)
           Q == DueOrders(now)
           total == TotalOf(o, lines)
<1>1. E \subseteq {x \in Amendments : IsAwaiting(x)}
  BY DueAreHeld
<1>2. /\ payments[p] = NoRow /\ orders[o].status = "HELD" /\ o \notin Q
      /\ w <= total /\ NonePending(o, PaymentsAfter(E, Q))
      /\ payments' = [PaymentsAfter(E, Q) EXCEPT ![p] = NewPayment(o, Nil, total, w)]
      /\ orders' = [OrdersAfter(Q) EXCEPT ![o] = IF w = total THEN PaidOrder(o) ELSE @]
      /\ amendments' = AmendmentsAfter(E) /\ lines' = lines
  BY DEF BeginOrderPayment, IsHeld
<1>3. total \in Nat /\ w \in Nat
  <2>1. \A l \in LinesOf(o) : lines[l].cents \in Nat
    BY DEF MoneyInv, OrderMoney, OrderWorth
  <2> QED
    BY <2>1, TotalIsSum, PolicyAssumption
<1> HIDE DEF E, Q, total
<1>4. /\ payments'[p] = NewPayment(o, Nil, total, w)
      /\ \A q \in Payments \ {p} : payments'[q] = PaymentsAfter(E, Q)[q]
      /\ \A x \in Orders \ {o} : orders'[x] = OrdersAfter(Q)[x]
      /\ w = total => orders'[o] = PaidOrder(o)
      /\ w # total => orders'[o] = orders[o]
  BY <1>2 DEF PaymentsAfter, OrdersAfter
<1>5. /\ payments'[p] # NoRow
      /\ payments'[p].order = o /\ payments'[p].amendment = Nil
      /\ payments'[p].wallet = w /\ payments'[p].external = total - w
      /\ payments'[p].status = IF w = total THEN "SUCCEEDED" ELSE "PENDING"
  BY <1>4, NewRow
<1>6. /\ payments'[p].external \in Nat /\ payments'[p].wallet \in Nat
      /\ Amount(payments'[p]) = total
  BY <1>2, <1>3, <1>5 DEF Amount
<1>7. \A x : SameWorth(x, lines, lines')
  BY <1>2 DEF SameWorth
<1>8. CASE w = total
  <2>1. PaidBy(o, p, E, Q)
    BY <1>2, <1>4, <1>5, <1>6, <1>8 DEF PaidBy, total
  <2>2. OrderWritten(o) /\ PaymentWritten(p)
    BY <2>1, PaidOrderIsWritten
  <2>3. ASSUME NEW q \in Payments \ {p}, IsPending(q), payments[q].amendment = Nil
        PROVE  payments[q].order # o
    <3>1. payments[q].order = o => PaymentsAfter(E, Q)[q] = payments[q]
      BY <1>1, <1>2, <2>3, NilAssumption DEF PaymentsAfter
    <3> QED
      BY <1>2, <2>3, <3>1 DEF NonePending, IsPending
  <2>4. MoneyBeside(E, Q, {o}, {p}, {})
    BY <1>1, <1>2, <1>4, <1>7, <2>2, <2>3 DEF MoneyBeside
  <2> QED
    BY <2>4, BesideExpiry
<1>9. CASE w # total
  <2>1. OrderRests(o)
    BY <1>4, <1>7, <1>9, SameOrderRests
  <2>2. PaymentWritten(p)
    <3>1. PaymentMoney(p)'
      BY <1>2, <1>5, <1>6 DEF PaymentMoney, total
    <3>2. \A x : Gain(payments'[p], x) = 0 /\ Gain(payments[p], x) = 0
      BY <1>2, <1>5, <1>9 DEF Gain
    <3> QED
      BY <3>1, <3>2 DEF PaymentWritten
  <2>3. MoneyBeside(E, Q, {o}, {p}, {})
    BY <1>1, <1>2, <1>4, <1>7, <2>1, <2>2 DEF MoneyBeside
  <2> QED
    BY <2>3, BesideExpiry
<1> QED
  BY <1>8, <1>9

LEMMA SettleOrderMoney ==
  ASSUME CourtInv, PaymentInv, CourtInv', MoneyInv, NEW p \in Payments, NEW t, SettleOrder(p, t)
  PROVE  MoneyInv'
<1> DEFINE E == DueAmendments(SettleTime(p, t))
           Q == DueOrders(SettleTime(p, t))
<1> SUFFICES ASSUME NEW o, o = payments[p].order PROVE MoneyInv'
  OBVIOUS
<1>1. E \subseteq {x \in Amendments : IsAwaiting(x)}
  BY DueAreHeld
<1>2. /\ payments[p] # NoRow /\ payments[p].amendment = Nil
      /\ payments[p].status # "SUCCEEDED"
      /\ amendments' = AmendmentsAfter(E) /\ lines' = lines
      /\ orders' = [OrdersAfter(Q) EXCEPT ![o] =
                      IF IsPending(p) /\ IsHeld(o) /\ o \notin Q THEN PaidOrder(o) ELSE @]
      /\ payments' = SettledPayments(p, E, Q, IsPending(p) /\ IsHeld(o) /\ o \notin Q)
  BY DEF SettleOrder, Uncaptured
<1>3. PaymentRow(payments[p]) /\ o \in Orders
  BY <1>2 DEF PaymentInv, PaymentFits, PaymentRow
<1>4. \A x : SameWorth(x, lines, lines')
  BY <1>2 DEF SameWorth
<1>5. CASE IsPending(p) /\ IsHeld(o) /\ o \notin Q
  <2>1. payments' = SettledPayments(p, E, Q, TRUE)
    BY <1>2, <1>5
  <2>2. PaymentsAfter(E, Q)[p] = payments[p]
    BY <1>1, <1>2, <1>5, NilAssumption DEF PaymentsAfter
  <2>3. /\ payments'[p] = [SettleReservation(payments[p], TRUE) EXCEPT !.status = "SUCCEEDED"]
        /\ \A q \in Payments \ {p} : payments'[q] = PaymentsAfter(E, Q)[q]
        /\ orders'[o] = PaidOrder(o)
        /\ \A x \in Orders \ {o} : orders'[x] = OrdersAfter(Q)[x]
    BY <1>2, <1>3, <1>5, <2>1, <2>2 DEF SettledPayments, PaymentsAfter, OrdersAfter
  <2>4. /\ payments'[p] # NoRow /\ payments'[p].status = "SUCCEEDED" /\ payments'[p].order = o
        /\ payments'[p].external = payments[p].external
        /\ payments'[p].wallet = payments[p].wallet
    BY <1>3, <2>3 DEF SettleReservation, PaymentRow, NoRow
  <2>5. /\ payments[p].external \in Nat /\ payments[p].wallet \in Nat
        /\ Amount(payments[p]) = TotalOf(o, lines)
    BY <1>2, <1>5 DEF MoneyInv, PaymentMoney, IsPending
  <2>6. Amount(payments'[p]) = TotalOf(o, lines)
    BY <2>4, <2>5 DEF Amount
  <2> HIDE DEF E, Q
  <2>7. PaidBy(o, p, E, Q)
    BY <1>2, <1>5, <2>3, <2>4, <2>5, <2>6 DEF PaidBy, IsHeld
  <2>8. OrderWritten(o) /\ PaymentWritten(p)
    BY <1>3, <2>7, PaidOrderIsWritten
  <2>9. ASSUME NEW q \in Payments \ {p}, IsPending(q), payments[q].amendment = Nil
        PROVE  payments[q].order # o
    BY <1>2, <1>5, <2>9, OthersApart DEF IsPending
  <2>10. MoneyBeside(E, Q, {o}, {p}, {})
    BY <1>1, <1>2, <1>4, <2>3, <2>8, <2>9 DEF MoneyBeside
  <2> QED
    BY <2>10, BesideExpiry
<1>6. CASE ~(IsPending(p) /\ IsHeld(o) /\ o \notin Q)
  <2>1. payments' = SettledPayments(p, E, Q, FALSE)
    BY <1>2, <1>6
  <2>2. /\ payments'[p] = [SettleReservation(PaymentsAfter(E, Q)[p], FALSE) EXCEPT
                             !.status = "REFUND_REQUIRED"]
        /\ \A q \in Payments \ {p} : payments'[q] = PaymentsAfter(E, Q)[q]
    BY <2>1 DEF SettledPayments, PaymentsAfter
  <2>3. \A x \in Orders : orders'[x] = OrdersAfter(Q)[x]
    BY <1>2, <1>6 DEF OrdersAfter
  <2> HIDE DEF E, Q
  <2>4. PaymentRests(p)
    <3>1. GivenBack(p, E, Q)
      BY <1>2, <2>2 DEF GivenBack
    <3> QED
      BY <3>1, GivenBackRests
  <2>5. MoneyBeside(E, Q, {}, {p}, {})
    BY <1>1, <1>2, <1>4, <2>2, <2>3, <2>4 DEF MoneyBeside
  <2> QED
    BY <2>5, BesideExpiry
<1> QED
  BY <1>5, <1>6

(***************************************************************************)
(* Commands that write the lines of an order.                              *)
(***************************************************************************)
LEMMA ExpiredPaymentsNumbers ==
  ASSUME PaymentInv, MoneyInv, NEW E, NEW Q,
         \A p \in Payments : payments'[p] = PaymentsAfter(E, Q)[p]
  PROVE  /\ Numbers(payments')
         /\ \A p \in Payments : \A o : Gain(payments'[p], o) = Gain(payments[p], o)
BY ExpiredKeepsNumbers DEF Numbers

\* refreshUnpaidProjection.
LEMMA RefreshedRow ==
  ASSUME CourtInv, NEW o \in Orders, NEW rows, NEW r2, r2 = RefreshedUnpaid(o, rows)
  PROVE  /\ r2.returned = orders[o].returned /\ r2.revision = orders[o].revision + 1
         /\ Refreshed(o, r2, rows)
<1> DEFINE active == {l \in LinesOf(o) : rows[l].state = "ACTIVE"}
           free   == TotalOf(o, rows) = 0
           status == IF active = {} THEN "CANCELLED" ELSE IF free THEN "CONFIRMED" ELSE "HELD"
           paid   == IF active # {} /\ free THEN "NOT_REQUIRED" ELSE "UNPAID"
           hold   == IF active = {} \/ free THEN 0 ELSE orders[o].holdUntil
<1>1. r2 = [orders[o] EXCEPT !.status = status, !.paid = paid, !.holdUntil = hold,
                             !.revision = @ + 1]
  BY DEF RefreshedUnpaid
<1>2. /\ DOMAIN orders[o] = {"status", "paid", "holdUntil", "revision", "returned"}
      /\ orders[o].revision \in Nat
  BY DEF CourtInv, RowsFit, OrderRow
<1>3. \/ status = "CANCELLED" /\ paid = "UNPAID"
      \/ status = "CONFIRMED" /\ paid = "NOT_REQUIRED" /\ TotalOf(o, rows) = 0
      \/ status = "HELD" /\ paid = "UNPAID" /\ TotalOf(o, rows) # 0
  OBVIOUS
<1> HIDE DEF status, paid, hold
<1>4. /\ r2.status = status /\ r2.paid = paid /\ r2.returned = orders[o].returned
      /\ r2.revision = orders[o].revision + 1
  BY <1>1, <1>2
<1> QED
  BY <1>3, <1>4 DEF Refreshed

LEMMA CancelUnpaidOrderLinesMoney ==
  ASSUME CourtInv, PaymentInv, CourtInv', MoneyInv, NEW o \in Orders, NEW L, NEW t,
         CancelUnpaidOrderLines(o, L, t)
  PROVE  MoneyInv'
<1>1. /\ L \subseteq ActiveLines(o) /\ UnpaidEditable(o, t)
      /\ lines' = [l \in Lines |->
           IF l \in L THEN [lines[l] EXCEPT !.state = "DROPPED", !.left = 0] ELSE lines[l]]
      /\ orders' = [orders EXCEPT ![o] = RefreshedUnpaid(o, lines')]
      /\ payments' = payments /\ amendments' = amendments
  BY DEF CancelUnpaidOrderLines
<1>2. /\ orders'[o] = RefreshedUnpaid(o, lines')
      /\ \A x \in Orders \ {o} : orders'[x] = orders[x]
  BY <1>1 DEF CourtInv, RowsFit
<1>3. /\ orders'[o].returned = orders[o].returned
      /\ orders'[o].revision = orders[o].revision + 1 /\ orders[o].revision \in Nat
      /\ Refreshed(o, orders'[o], lines')
  BY <1>2, RefreshedRow DEF CourtInv, RowsFit, OrderRow
<1>4. /\ OrderWorth(o, orders[o], lines, payments) /\ orders[o].paid = "UNPAID"
      /\ Numbers(payments)
  BY <1>1, PaymentsHaveNumbers DEF MoneyInv, OrderMoney, UnpaidEditable, IsHeld
<1>5. ASSUME NEW l \in LinesOf(o)
      PROVE  lines'[l].cents \in Nat /\ lines'[l].left = Price(lines'[l])
  <2>1. /\ l \in Lines /\ LineRow(lines[l]) /\ lines[l].cents \in Nat
        /\ lines[l].left = Price(lines[l])
    BY <1>4 DEF LinesOf, CourtInv, RowsFit, OrderWorth
  <2>2. CASE l \in L
    <3>1. lines'[l] = [lines[l] EXCEPT !.state = "DROPPED", !.left = 0]
      BY <1>1, <2>1, <2>2
    <3> QED
      BY <2>1, <3>1 DEF LineRow, Price
  <2>3. CASE l \notin L
    BY <1>1, <2>1, <2>3
  <2> QED
    BY <2>2, <2>3
<1>6. OrderWritten(o)
  <2>1. OrderWorth(o, orders'[o], lines', payments)
    BY <1>3, <1>4, <1>5, WorthRefreshed
  <2>2. OrderMoney(o)'
    BY <1>1, <2>1 DEF OrderMoney
  <2>3. orders'[o].revision > orders[o].revision
    BY <1>3
  <2> QED
    BY <2>2, <2>3 DEF OrderWritten
<1>7. ASSUME NEW x \in Orders \ {o} PROVE OrderRests(x)
  <2>1. \A l \in LinesOf(x) : lines'[l] = lines[l]
    BY <1>1 DEF LinesOf, ActiveLines
  <2> QED
    BY <1>2, <2>1, LinesRest, SameOrderRests
<1>8. ASSUME NEW p \in Payments PROVE PaymentRests(p)
  <2>1. IsPending(p) => payments[p].order \in Orders \ {o}
    BY <1>1 DEF IsPending, UnpaidEditable, PaymentInv, PaymentFits, PaymentRow
  <2> QED
    BY <1>1, <1>7, <2>1, SamePaymentRests
<1>9. \A a \in Amendments : AmendmentRests(a)
  BY <1>1 DEF AmendmentRests
<1>10. MoneyMoves
  BY <1>6, <1>7, <1>8, <1>9 DEF MoneyMoves
<1> QED
  BY <1>10, MoneySweep

LEMMA RequestOrderRefundMoney ==
  ASSUME CourtInv, PaymentInv, CourtInv', MoneyInv, NEW o \in Orders,
         NEW C \in SUBSET Lines, NEW cents \in [C -> RefundCents], NEW L,
         RequestOrderRefund(o, cents, L)
  PROVE  MoneyInv'
<1> DEFINE E == DueAmendments(now)
<1>1. E \subseteq {x \in Amendments : IsAwaiting(x)}
  BY DueAreHeld
<1>2. /\ orders[o].paid = "SETTLED"
      /\ DOMAIN cents \subseteq LinesOf(o) /\ L \subseteq DOMAIN cents \cap ActiveLines(o)
      /\ \A l \in DOMAIN cents : cents[l] <= lines[l].left
      /\ lines' = [l \in Lines |->
           IF l \in DOMAIN cents THEN [LinesOut(L, "CANCELLED")[l] EXCEPT !.left = @ - cents[l]]
           ELSE lines[l]]
      /\ orders' = [orders EXCEPT ![o] = LeftOrder(o, L, SumOf(cents))]
      /\ payments' = PaymentsAfter(E, {}) /\ amendments' = AmendmentsAfter(E)
  BY DEF RequestOrderRefund
<1>3. /\ orders'[o] = LeftOrder(o, L, SumOf(cents))
      /\ \A x \in Orders \ {o} : orders'[x] = orders[x]
      /\ DOMAIN orders[o] = {"status", "paid", "holdUntil", "revision", "returned"}
      /\ orders[o].revision \in Nat
  BY <1>2 DEF CourtInv, RowsFit, OrderRow
<1> DEFINE back == SumOf(cents)
           status == IF ActiveLines(o) \subseteq L THEN "CANCELLED" ELSE orders[o].status
<1>4. status \in {orders[o].status, "CANCELLED"}
  OBVIOUS
<1>5. orders'[o] = [orders[o] EXCEPT !.revision = @ + 1, !.returned = @ + back, !.status = status]
  BY <1>3 DEF LeftOrder
<1> HIDE DEF E, back, status
<1>6. /\ orders'[o].paid = orders[o].paid /\ orders'[o].status \in {orders[o].status, "CANCELLED"}
      /\ orders'[o].returned = orders[o].returned + back
      /\ orders'[o].revision = orders[o].revision + 1
  BY <1>3, <1>4, <1>5
<1>7. /\ OrderWorth(o, orders[o], lines, payments) /\ Numbers(payments) /\ Numbers(payments')
      /\ \A p \in Payments : Gain(payments'[p], o) = Gain(payments[p], o)
  BY <1>2, PaymentsHaveNumbers, ExpiredPaymentsNumbers DEF MoneyInv, OrderMoney
<1>8. \A l \in DOMAIN cents : cents[l] \in Nat /\ cents[l] <= lines[l].left
  BY <1>2, PolicyAssumption
<1>9. ASSUME NEW l \in LinesOf(o)
      PROVE  /\ lines'[l].cents = lines[l].cents
             /\ lines'[l].state = "DROPPED" <=> lines[l].state = "DROPPED"
             /\ lines'[l].left = IF l \in DOMAIN cents THEN lines[l].left - cents[l]
                                 ELSE lines[l].left
  <2>1. l \in Lines /\ LineRow(lines[l])
    BY DEF LinesOf, CourtInv, RowsFit
  <2>2. CASE l \notin DOMAIN cents
    BY <1>2, <2>1, <2>2
  <2>3. CASE l \in DOMAIN cents /\ l \notin L
    <3>1. lines'[l] = [lines[l] EXCEPT !.left = @ - cents[l]]
      BY <1>2, <2>1, <2>3 DEF LinesOut
    <3> QED
      BY <2>1, <2>3, <3>1 DEF LineRow
  <2>4. CASE l \in L
    <3>1. lines[l].state = "ACTIVE" /\ l \in DOMAIN cents
      BY <1>2, <2>4 DEF ActiveLines
    <3>2. lines'[l] = [[lines[l] EXCEPT !.state = "CANCELLED"] EXCEPT !.left = @ - cents[l]]
      BY <1>2, <2>1, <2>4, <3>1 DEF LinesOut
    <3> QED
      BY <2>1, <3>1, <3>2 DEF LineRow
  <2> QED
    BY <2>2, <2>3, <2>4
<1>10. OrderWritten(o)
  <2>1. orders'[o].returned = orders[o].returned + SumOf(cents)
    BY <1>6 DEF back
  <2>2. Returned(o, orders[o], orders'[o], lines, lines', cents)
    BY <1>2, <1>6, <1>8, <1>9, <2>1 DEF Returned
  <2>3. OrderWorth(o, orders'[o], lines', payments')
    BY <1>7, <2>2, WorthReturned
  <2> QED
    BY <1>3, <1>6, <2>3 DEF OrderWritten, OrderMoney
<1>11. ASSUME NEW x \in Orders \ {o}
       PROVE  orders'[x] = OrdersAfter({})[x] /\ SameWorth(x, lines, lines')
  <2>1. \A l \in LinesOf(x) : lines'[l] = lines[l]
    BY <1>2 DEF LinesOf
  <2> QED
    BY <1>3, <2>1, LinesRest DEF OrdersAfter
<1>12. ASSUME NEW p \in Payments, IsPending(p), payments[p].amendment = Nil
       PROVE  payments[p].order # o
  BY <1>2, <1>12 DEF PaymentInv, PaymentFits, IsHeld, IsPending
<1>13. MoneyBeside(E, {}, {o}, {}, {})
  BY <1>1, <1>2, <1>10, <1>11, <1>12 DEF MoneyBeside
<1> QED
  BY <1>13, BesideExpiry

(***************************************************************************)
(* Netting.                                                                *)
(***************************************************************************)
\* The cents by which the lines D get dearer and cheaper, and those that are moved
\* from the latter to the former.
IsNet(D, up, down, moved) ==
  /\ IsFiniteSet(D) /\ D \subseteq Int
  /\ DOMAIN up = D /\ DOMAIN down = D
  /\ \A l \in D : up[l] \in Nat /\ down[l] \in Nat
  /\ moved = AllocateCents(IF SumOf(up) < SumOf(down) THEN SumOf(up) ELSE SumOf(down), down)

\* As much is moved as there is on both sides, and of no line more than it gets cheaper.
LEMMA DecreasesMove ==
  ASSUME NEW D, NEW up, NEW down, NEW moved, IsNet(D, up, down, moved)
  PROVE  /\ IsAmounts(up) /\ IsAmounts(down) /\ IsAmounts(moved)
         /\ SumOf(up) \in Nat /\ SumOf(down) \in Nat
         /\ SumOf(moved) = IF SumOf(up) < SumOf(down) THEN SumOf(up) ELSE SumOf(down)
         /\ DOMAIN moved = D /\ \A l \in D : moved[l] \in Nat /\ moved[l] <= down[l]
<1> DEFINE total == IF SumOf(up) < SumOf(down) THEN SumOf(up) ELSE SumOf(down)
<1>1. /\ IsFiniteSet(D) /\ D \subseteq Int /\ DOMAIN up = D /\ DOMAIN down = D
      /\ \A l \in D : up[l] \in Nat /\ down[l] \in Nat
      /\ moved = AllocateCents(total, down)
  BY DEF IsNet
<1>2. IsAmounts(up) /\ IsAmounts(down) /\ IsWeights(down)
  <2>1. /\ IsFiniteSet(D) /\ D \subseteq Int /\ DOMAIN up = D /\ DOMAIN down = D
        /\ \A l \in D : up[l] \in Int /\ down[l] \in Int /\ down[l] \in Nat
    BY <1>1
  <2> QED
    BY <2>1 DEF IsAmounts, IsWeights
<1>3. SumOf(up) \in Nat /\ SumOf(down) \in Nat
  <2>1. \A l \in D : up[l] >= 0 /\ down[l] >= 0
    BY <1>1
  <2> QED
    BY <1>1, <1>2, <2>1, SumOfType
<1>4. total \in Nat /\ total <= SumOf(down) /\ (SumOf(down) = 0 => total = 0)
  BY <1>3
<1> HIDE DEF total
<1>5. CASE SumOf(down) > 0
  <2>1. IsExactDivision(moved, total, down)
    BY <1>1, <1>2, <1>4, <1>5, CentsAreAllocatedExactly
  <2>2. /\ moved \in [D -> Nat] /\ SumOf(moved) = total
        /\ \A l \in D : moved[l] <= down[l]
    BY <1>1, <1>4, <2>1 DEF IsExactDivision
  <2>3. DOMAIN moved = D /\ \A l \in D : moved[l] \in Nat /\ moved[l] \in Int
    BY <2>2
  <2>4. IsAmounts(moved)
    BY <1>1, <2>3 DEF IsAmounts
  <2> QED
    BY <1>2, <1>3, <2>2, <2>3, <2>4 DEF total
<1>6. CASE SumOf(down) = 0
  <2>1. moved = [l \in D |-> 0]
    BY <1>1, <1>6, NothingIsAllocated
  <2>2. DOMAIN moved = D /\ \A l \in D : moved[l] = 0 /\ moved[l] \in Int
    BY <2>1
  <2>3. IsAmounts(moved)
    BY <1>1, <2>2 DEF IsAmounts
  <2>4. SumOf(moved) = 0
    BY <2>2, <2>3, SumOfType
  <2>5. SumOf(moved) = total /\ \A l \in D : moved[l] \in Nat /\ moved[l] <= down[l]
    BY <1>1, <1>4, <1>6, <2>2, <2>4
  <2> QED
    BY <1>2, <1>3, <2>2, <2>3, <2>5 DEF total
<1> QED
  BY <1>3, <1>5, <1>6

\* What is due is what lines get dearer beyond what others get cheaper.
LEMMA NettingAddsUp ==
  ASSUME NEW D, NEW up, NEW down, NEW moved, IsNet(D, up, down, moved),
         NEW delta, DOMAIN delta = D, \A l \in D : delta[l] = up[l] - moved[l],
         NEW dearer, DOMAIN dearer = D,
         \A l \in D : dearer[l] \in Int /\ dearer[l] <= up[l] - down[l]
  PROVE  SumOf(delta) \in Nat /\ SumOf(dearer) <= SumOf(delta)
<1> DEFINE g == [l \in D |-> up[l] - down[l]]
<1>1. /\ IsAmounts(up) /\ IsAmounts(down) /\ IsAmounts(moved)
      /\ SumOf(up) \in Nat /\ SumOf(down) \in Nat
      /\ SumOf(moved) = IF SumOf(up) < SumOf(down) THEN SumOf(up) ELSE SumOf(down)
      /\ DOMAIN moved = D /\ \A l \in D : moved[l] \in Nat
  BY DecreasesMove
<1>2. /\ IsFiniteSet(D) /\ DOMAIN up = D /\ DOMAIN down = D
      /\ \A l \in D : up[l] \in Nat /\ down[l] \in Nat
  BY DEF IsNet
<1>3. DOMAIN g = D /\ \A l \in D : g[l] = up[l] - down[l]
  OBVIOUS
<1> HIDE DEF g
<1>4. IsAmounts(g) /\ IsAmounts(delta) /\ IsAmounts(dearer)
  BY <1>1, <1>2, <1>3 DEF IsAmounts
<1>5. SumOf(up) = SumOf(delta) + SumOf(moved)
  <2>1. \A l \in D : up[l] = delta[l] + moved[l]
    BY <1>1, <1>2
  <2> QED
    BY <1>1, <1>2, <1>4, <2>1, SumOfPlus
<1>6. SumOf(up) = SumOf(g) + SumOf(down)
  <2>1. \A l \in D : up[l] = g[l] + down[l]
    BY <1>2, <1>3
  <2> QED
    BY <1>1, <1>2, <1>3, <1>4, <2>1, SumOfPlus
<1>7. SumOf(dearer) <= SumOf(g)
  BY <1>3, <1>4, SumOfLeq
<1>8. SumOf(g) \in Int /\ SumOf(delta) \in Int /\ SumOf(dearer) \in Int
  BY <1>4, SumOfType
<1>9. CASE SumOf(up) < SumOf(down)
  <2>1. SumOf(delta) = 0 /\ SumOf(g) < 0
    BY <1>1, <1>5, <1>6, <1>8, <1>9
  <2> QED
    BY <1>7, <1>8, <2>1
<1>10. CASE ~(SumOf(up) < SumOf(down))
  <2>1. SumOf(moved) = SumOf(down) /\ SumOf(up) \in Int /\ SumOf(down) \in Int
    BY <1>1, <1>10
  <2>2. \A u, d, x, y \in Int : u = x + d /\ u = y + d /\ ~(u < d) => x = y /\ y >= 0
    OBVIOUS
  <2>3. SumOf(delta) = SumOf(g) /\ SumOf(g) >= 0
    BY <1>5, <1>6, <1>8, <1>10, <2>1, <2>2
  <2> QED
    BY <1>7, <1>8, <2>3
<1> QED
  BY <1>9, <1>10

LEMMA QuotedMoney ==
  ASSUME NEW unpaid \in BOOLEAN, NEW C \in SUBSET Lines, NEW new \in [C -> Offers],
         \A l \in C : lines[l].cents \in Nat /\ lines[l].left \in Nat
  PROVE  LET changes == Quoted(unpaid, new)
             due     == SumOf([l \in DOMAIN changes |-> changes[l].delta])
         IN /\ DOMAIN changes = C /\ due \in Nat
            /\ SumOf([l \in DOMAIN changes |-> changes[l].cents - lines[l].cents]) <= due
               \/ unpaid
            /\ \A l \in C :
                 /\ changes[l].cents \in Nat /\ changes[l].delta \in Int
                 /\ lines[l].left + changes[l].delta >= 0
<1> DEFINE up   == [l \in DOMAIN new |->
                      IF unpaid \/ new[l].cents < lines[l].cents THEN 0
                      ELSE new[l].cents - lines[l].cents]
           down == [l \in DOMAIN new |->
                      IF unpaid \/ new[l].cents > lines[l].cents THEN 0
                      ELSE IF lines[l].cents - new[l].cents < lines[l].left
                           THEN lines[l].cents - new[l].cents ELSE lines[l].left]
           moved == AllocateCents(IF SumOf(up) < SumOf(down) THEN SumOf(up) ELSE SumOf(down), down)
           changes == Quoted(unpaid, new)
           delta  == [l \in DOMAIN changes |-> changes[l].delta]
           dearer == [l \in DOMAIN changes |-> changes[l].cents - lines[l].cents]
<1>1. \A l \in C : new[l].cents \in Nat
  BY CatalogAssumption
<1>2. IsFiniteSet(C) /\ C \subseteq Int
  <2>1. C \subseteq Lines /\ Lines \subseteq Nat
    BY BookingsAssumption
  <2>2. IsFiniteSet(C)
    BY <2>1, TablesAssumption, FS_Subset
  <2> QED
    BY <2>1, <2>2
<1>3. /\ DOMAIN changes = C
      /\ \A l \in C : changes[l].cents = new[l].cents /\ changes[l].delta = up[l] - moved[l]
  BY DEF Quoted, Netting
<1>4. DOMAIN up = C /\ DOMAIN down = C /\ \A l \in C : up[l] \in Nat
  BY <1>1
<1>5. \A l \in C : /\ down[l] \in Nat /\ down[l] <= lines[l].left
                   /\ unpaid \/ new[l].cents - lines[l].cents <= up[l] - down[l]
                   /\ unpaid => up[l] = 0 /\ down[l] = 0
  BY <1>1
<1> HIDE DEF up, down, changes
<1>6. IsNet(C, up, down, moved)
  BY <1>2, <1>4, <1>5 DEF IsNet
<1> HIDE DEF moved
<1>7. \A l \in C : moved[l] \in Nat /\ moved[l] <= down[l]
  BY <1>6, DecreasesMove
<1>8. DOMAIN delta = C /\ \A l \in C : delta[l] = up[l] - moved[l] /\ delta[l] = changes[l].delta
  BY <1>3
<1>9. DOMAIN dearer = C /\ \A l \in C : dearer[l] = new[l].cents - lines[l].cents
  BY <1>3
<1> HIDE DEF delta, dearer
<1>10. \A l \in C : /\ changes[l].cents \in Nat /\ changes[l].delta \in Int
                    /\ lines[l].left + changes[l].delta >= 0
  BY <1>1, <1>3, <1>4, <1>5, <1>7
<1>11. SumOf(delta) \in Nat
  <2> DEFINE less == [l \in C |-> up[l] - down[l]]
  <2>1. DOMAIN less = C /\ \A l \in C : less[l] \in Int /\ less[l] <= up[l] - down[l]
    BY <1>4, <1>5
  <2> HIDE DEF less
  <2> QED
    BY <1>6, <1>8, <2>1, NettingAddsUp
<1>12. ~unpaid => SumOf(dearer) <= SumOf(delta)
  <2>1. ~unpaid => \A l \in C : dearer[l] \in Int /\ dearer[l] <= up[l] - down[l]
    BY <1>1, <1>5, <1>9
  <2> QED
    BY <1>6, <1>8, <1>9, <2>1, NettingAddsUp
<1> QED
  BY <1>3, <1>10, <1>11, <1>12 DEF changes, delta, dearer

LEMMA PreviewMoney ==
  ASSUME CourtInv, PaymentInv, CourtInv', MoneyInv,
         NEW a \in Amendments, NEW o \in Orders,
         NEW C \in SUBSET Lines, NEW new \in [C -> Offers], NEW t,
         PreviewOrderAmendment(a, o, new, t)
  PROVE  MoneyInv'
<1> DEFINE E       == DueAmendments(now)
           unpaid  == IsHeld(o)
           changes == Quoted(unpaid, new)
           due     == SumOf([l \in DOMAIN changes |-> changes[l].delta])
           r       == amendments'[a]
<1>1. /\ C \subseteq LinesOf(o) /\ orders' = orders /\ lines' = lines
      /\ payments' = PaymentsAfter(E, {})
  BY DEF PreviewOrderAmendment, ActiveLines
<1>2. E \subseteq {x \in Amendments : IsAwaiting(x)}
  BY DueAreHeld
<1>3. /\ r.unpaid = unpaid /\ r.supplement = Supplement(unpaid, changes)
      /\ r.changes = changes
  <2> DEFINE row(expiry, more) ==
        [order |-> o, base |-> orders[o].revision, unpaid |-> unpaid, status |-> "QUOTED",
         expiresAt |-> expiry, holdUntil |-> 0, supplement |-> more, changes |-> changes]
  <2>1. PICK expiry : amendments' = [AmendmentsAfter(E) EXCEPT ![a] =
                                       row(expiry, Supplement(unpaid, changes))]
    BY DEF PreviewOrderAmendment
  <2>2. DOMAIN AmendmentsAfter(E) = Amendments
    BY DEF AmendmentsAfter
  <2> HIDE DEF unpaid, changes
  <2>3. r = row(expiry, Supplement(unpaid, changes))
    BY <2>1, <2>2
  <2> QED
    BY <2>3
<1>4. \A x \in Amendments \ {a} : amendments'[x] = AmendmentsAfter(E)[x]
  BY DEF PreviewOrderAmendment, AmendmentsAfter
<1>5. \A l \in C : lines[l].cents \in Nat /\ lines[l].left \in Nat
  BY <1>1 DEF MoneyInv, OrderMoney, OrderWorth
<1>6. unpaid \in BOOLEAN
  BY DEF IsHeld
<1> HIDE DEF E, unpaid
<1>7. /\ DOMAIN changes = C /\ due \in Nat
      /\ ~unpaid => SumOf([l \in DOMAIN changes |-> changes[l].cents - lines[l].cents]) <= due
      /\ \A l \in C : /\ changes[l].cents \in Nat /\ changes[l].delta \in Int
                      /\ lines[l].left + changes[l].delta >= 0
  BY <1>5, <1>6, QuotedMoney
<1>8. r.supplement \in Nat /\ (~unpaid => r.supplement = due)
  <2>1. r.supplement = IF ~unpaid /\ due > 0 THEN due ELSE 0
    BY <1>3 DEF Supplement
  <2> HIDE DEF due
  <2> QED
    BY <1>7, <2>1
<1> HIDE DEF changes
<1>9. ~r.unpaid => NetsUp(r, lines')
  BY <1>1, <1>3, <1>7, <1>8 DEF NetsUp
<1>10. QuoteMoney(a)'
  BY <1>3, <1>7, <1>8, <1>9 DEF QuoteMoney
<1>11. \A x : SameWorth(x, lines, lines')
  BY <1>1 DEF SameWorth
<1>12. MoneyBeside(E, {}, {}, {}, {a})
  BY <1>1, <1>2, <1>4, <1>10, <1>11 DEF MoneyBeside, OrdersAfter
<1> QED
  BY <1>12, BesideExpiry

(***************************************************************************)
(* A change takes effect.                                                  *)
(***************************************************************************)
\* Beside what expires, the payments P bring in the supplement of amendment a.
BringIn(a, P, E, Q) ==
  /\ \A p \in Payments \ P : payments'[p] = PaymentsAfter(E, Q)[p]
  /\ \/ P = {} /\ amendments[a].supplement = 0
     \/ \E p \in Payments :
          /\ P = {p} /\ (payments[p] # NoRow => payments[p].status # "SUCCEEDED")
          /\ payments'[p] # NoRow /\ payments'[p].status = "SUCCEEDED"
          /\ payments'[p].order = amendments[a].order
          /\ payments'[p].external \in Nat /\ payments'[p].wallet \in Nat
          /\ Amount(payments'[p]) = amendments[a].supplement

LEMMA BroughtIn ==
  ASSUME PaymentInv, MoneyInv, NEW a, NEW E, NEW Q, NEW P, BringIn(a, P, E, Q),
         amendments[a].supplement \in Nat, NEW o, o = amendments[a].order
  PROVE  /\ Numbers(payments')
         /\ Captured(o, payments') = Captured(o, payments) + amendments[a].supplement
         /\ amendments[a].supplement = 0 =>
              \A p \in Payments : Gain(payments'[p], o) = Gain(payments[p], o)
         /\ \A p \in P : PaymentMoney(p)' /\ \A x : x # o => Gain(payments'[p], x) = Gain(payments[p], x)
<1> DEFINE supplement == amendments[a].supplement
<1>1. Numbers(payments)
  BY PaymentsHaveNumbers
<1>2. Captured(o, payments) \in Nat
  BY <1>1, CapturedIsSum
<1>3. CASE P = {} /\ supplement = 0
  <2>1. \A p \in Payments : payments'[p] = PaymentsAfter(E, Q)[p]
    BY <1>3 DEF BringIn
  <2>2. Numbers(payments') /\ \A p \in Payments : Gain(payments'[p], o) = Gain(payments[p], o)
    BY <2>1, ExpiredPaymentsNumbers
  <2>3. Captured(o, payments') = Captured(o, payments)
    BY <1>1, <2>2, CapturedStays
  <2> QED
    BY <1>2, <1>3, <2>2, <2>3
<1>4. ASSUME NEW p \in Payments,
             P = {p}, payments[p] # NoRow => payments[p].status # "SUCCEEDED",
             payments'[p] # NoRow, payments'[p].status = "SUCCEEDED",
             payments'[p].order = o,
             payments'[p].external \in Nat, payments'[p].wallet \in Nat,
             Amount(payments'[p]) = supplement
      PROVE  /\ Numbers(payments')
             /\ Captured(o, payments') = Captured(o, payments) + supplement
             /\ supplement = 0 => \A q \in Payments : Gain(payments'[q], o) = Gain(payments[q], o)
             /\ PaymentMoney(p)' /\ \A x : x # o => Gain(payments'[p], x) = Gain(payments[p], x)
  <2>1. \A q \in Payments \ {p} : payments'[q] = PaymentsAfter(E, Q)[q]
    BY <1>4 DEF BringIn
  <2>2. /\ Numbers(payments')
        /\ \A q \in Payments \ {p} : \A x : Gain(payments'[q], x) = Gain(payments[q], x)
    BY <1>4, <2>1, OneWrittenNumbers
  <2>3. /\ \A x : Gain(payments[p], x) = 0
        /\ Gain(payments'[p], o) = supplement
        /\ \A x : x # o => Gain(payments'[p], x) = 0
    BY <1>4 DEF Gain
  <2>4. Captured(o, payments') = Captured(o, payments) + Gain(payments'[p], o)
    <3>1. /\ Gain(payments[p], o) = 0
          /\ \A q \in Payments \ {p} : Gain(payments'[q], o) = Gain(payments[q], o)
      BY <2>2, <2>3
    <3> QED
      BY <1>1, <2>2, <3>1, CapturedGrows
  <2>5. PaymentMoney(p)'
    BY <1>4 DEF PaymentMoney
  <2> QED
    BY <2>2, <2>3, <2>4, <2>5
<1> QED
  BY <1>3, <1>4 DEF BringIn

\* Amendment a takes effect, and the cents `approved` of its lines go back.
Effective(a, approved, E, Q, t, P) ==
  /\ E \subseteq {x \in Amendments : IsAwaiting(x)}
  /\ amendments[a] # NoRow
  /\ Applicable(a, payments', E, Q, t) /\ Apply(a, approved, payments', E, Q)
  /\ DOMAIN approved = DOMAIN amendments[a].changes
  /\ \A l \in DOMAIN approved :
       /\ approved[l] \in Nat
       /\ approved[l] <= lines[l].left + amendments[a].changes[l].delta
  /\ BringIn(a, P, E, Q)

\* What is quoted of the present order.
LEMMA EffectiveQuote ==
  ASSUME CourtInv, MoneyInv, NEW a \in Amendments, NEW approved, NEW E, NEW Q, NEW t, NEW P,
         Effective(a, approved, E, Q, t, P), NEW m, m = amendments[a]
  PROVE  /\ AmendmentRow(m) /\ m # NoRow /\ m.order \in Orders
         /\ m.status \in {"QUOTED", "AWAITING_PAYMENT"} /\ a \notin E
         /\ DOMAIN m.changes \subseteq LinesOf(m.order) /\ DOMAIN approved = DOMAIN m.changes
         /\ m.supplement \in Nat /\ (m.unpaid => m.supplement = 0)
         /\ \A l \in DOMAIN m.changes :
              /\ m.changes[l].cents \in Nat /\ m.changes[l].delta \in Int
              /\ lines[l].state = "ACTIVE"
         /\ ~m.unpaid => NetsUp(m, lines) /\ orders[m.order].status = "CONFIRMED"
         /\ m.unpaid => UnpaidEditable(m.order, t)
<1>1. /\ m # NoRow /\ m.status \in {"QUOTED", "AWAITING_PAYMENT"} /\ a \notin E
      /\ orders[m.order].revision = m.base
      /\ IF m.unpaid THEN UnpaidEditable(m.order, t) ELSE orders[m.order].status = "CONFIRMED"
      /\ DOMAIN approved = DOMAIN m.changes
  BY DEF Effective, Applicable
<1>2. QuoteFits(a) /\ QuoteMoney(a)
  BY DEF CourtInv, MoneyInv
<1>3. /\ AmendmentRow(m) /\ (m.unpaid => m.supplement = 0)
      /\ \A l \in DOMAIN m.changes : lines[l].state = "ACTIVE"
  BY <1>1, <1>2 DEF QuoteFits
<1>4. /\ m.supplement \in Nat
      /\ \A l \in DOMAIN m.changes : m.changes[l].cents \in Nat /\ m.changes[l].delta \in Int
      /\ ~m.unpaid => NetsUp(m, lines)
  BY <1>1, <1>2 DEF QuoteMoney
<1>5. m.order \in Orders /\ DOMAIN m.changes \subseteq LinesOf(m.order)
  BY <1>3 DEF AmendmentRow
<1> QED
  BY <1>1, <1>3, <1>4, <1>5

\* The lines it writes.
LEMMA EffectiveLines ==
  ASSUME CourtInv, MoneyInv, NEW a \in Amendments, NEW approved, NEW E, NEW Q, NEW t, NEW P,
         Effective(a, approved, E, Q, t, P), NEW m, m = amendments[a]
  PROVE  /\ \A l \in DOMAIN m.changes :
              /\ lines'[l].cents = m.changes[l].cents /\ lines'[l].state = lines[l].state
              /\ lines'[l].left = IF m.unpaid THEN m.changes[l].cents
                                  ELSE lines[l].left + m.changes[l].delta - approved[l]
         /\ \A l \in Lines \ DOMAIN m.changes : lines'[l] = lines[l]
<1>1. lines' = LinesApplied(a, approved)
  BY DEF Effective, Apply
<1>2. DOMAIN m.changes \subseteq Lines
  BY EffectiveQuote DEF LinesOf
<1>3. ASSUME NEW l \in DOMAIN m.changes
      PROVE  /\ lines'[l].cents = m.changes[l].cents /\ lines'[l].state = lines[l].state
             /\ lines'[l].left = IF m.unpaid THEN m.changes[l].cents
                                 ELSE lines[l].left + m.changes[l].delta - approved[l]
  <2>1. l \in Lines /\ LineRow(lines[l])
    BY <1>2 DEF CourtInv, RowsFit
  <2> DEFINE left == IF m.unpaid THEN m.changes[l].cents
                     ELSE lines[l].left + m.changes[l].delta - approved[l]
  <2>2. lines'[l] = [lines[l] EXCEPT !.slot = m.changes[l].new, !.cents = m.changes[l].cents,
                                     !.left = left]
    BY <1>1, <2>1 DEF LinesApplied
  <2> HIDE DEF left
  <2>3. /\ lines'[l].cents = m.changes[l].cents /\ lines'[l].state = lines[l].state
        /\ lines'[l].left = left
    BY <2>1, <2>2 DEF LineRow
  <2> QED
    BY <2>3 DEF left
<1>4. \A l \in Lines \ DOMAIN m.changes : lines'[l] = lines[l]
  BY <1>1 DEF LinesApplied
<1> QED
  BY <1>3, <1>4

\* Its order when it was not paid.
LEMMA UnpaidOrderIsWritten ==
  ASSUME CourtInv, PaymentInv, MoneyInv, NEW a \in Amendments, NEW approved,
         NEW E, NEW Q, NEW t, NEW P,
         Effective(a, approved, E, Q, t, P), amendments[a].unpaid,
         NEW o, o = amendments[a].order, orders'[o] = OrderApplied(a, approved, payments')
  PROVE  OrderWritten(o)
<1> DEFINE changes == amendments[a].changes
<1>1. /\ o \in Orders /\ IsHeld(o) /\ amendments[a].supplement = 0
      /\ DOMAIN changes \subseteq LinesOf(o)
      /\ \A l \in DOMAIN changes : changes[l].cents \in Nat /\ lines[l].state = "ACTIVE"
  BY EffectiveQuote DEF UnpaidEditable
<1>2. /\ Numbers(payments) /\ Numbers(payments')
      /\ \A p \in Payments : Gain(payments'[p], o) = Gain(payments[p], o)
  BY <1>1, BroughtIn, PaymentsHaveNumbers DEF Effective
<1>3. orders'[o] = RefreshedUnpaid(o, lines')
  BY DEF Effective, Apply, OrderApplied
<1>4. /\ orders'[o].returned = orders[o].returned
      /\ orders'[o].revision = orders[o].revision + 1 /\ orders[o].revision \in Nat
      /\ Refreshed(o, orders'[o], lines')
  BY <1>1, <1>3, RefreshedRow DEF CourtInv, RowsFit, OrderRow
<1>5. OrderWorth(o, orders[o], lines, payments) /\ orders[o].paid = "UNPAID"
  BY <1>1 DEF MoneyInv, OrderMoney, IsHeld
<1>6. ASSUME NEW l \in LinesOf(o)
      PROVE  lines'[l].cents \in Nat /\ lines'[l].left = Price(lines'[l])
  <2>1. CASE l \in DOMAIN changes
    <3>1. /\ lines'[l].cents = changes[l].cents /\ lines'[l].state = "ACTIVE"
          /\ lines'[l].left = changes[l].cents
      BY <1>1, <2>1, EffectiveLines
    <3> QED
      BY <1>1, <2>1, <3>1 DEF Price
  <2>2. CASE l \notin DOMAIN changes
    <3>1. lines'[l] = lines[l]
      BY <2>2, EffectiveLines DEF LinesOf
    <3> QED
      BY <1>5, <3>1 DEF OrderWorth
  <2> QED
    BY <2>1, <2>2
<1>7. OrderWorth(o, orders'[o], lines', payments')
  BY <1>2, <1>4, <1>5, <1>6, WorthRefreshed
<1>8. orders'[o].revision > orders[o].revision
  BY <1>4
<1> QED
  BY <1>7, <1>8 DEF OrderWritten, OrderMoney

\* Its lines when it was paid: what is left of them moves by the netting, less what
\* goes back.
LEMMA PaidLinesMove ==
  ASSUME CourtInv, MoneyInv, NEW a \in Amendments, NEW approved, NEW E, NEW Q, NEW t, NEW P,
         Effective(a, approved, E, Q, t, P), ~amendments[a].unpaid,
         NEW m, m = amendments[a], NEW o, o = m.order
  PROVE  LET dearer == [l \in DOMAIN m.changes |-> m.changes[l].cents - lines[l].cents]
             more   == [l \in DOMAIN m.changes |-> m.changes[l].delta - approved[l]]
         IN /\ Repriced(o, lines, lines', dearer, more)
            /\ SumOf(approved) \in Nat
            /\ SumOf(more) = m.supplement - SumOf(approved)
            /\ SumOf(dearer) <= m.supplement
<1> DEFINE D == DOMAIN m.changes
           dearer == [l \in D |-> m.changes[l].cents - lines[l].cents]
           more   == [l \in D |-> m.changes[l].delta - approved[l]]
           delta  == [l \in D |-> m.changes[l].delta]
<1>1. /\ o \in Orders /\ D \subseteq LinesOf(o) /\ DOMAIN approved = D
      /\ m.supplement \in Nat /\ NetsUp(m, lines)
      /\ \A l \in D : /\ m.changes[l].cents \in Nat /\ m.changes[l].delta \in Int
                      /\ lines[l].state = "ACTIVE"
  BY EffectiveQuote
<1>2. /\ SumOf(delta) = m.supplement /\ SumOf(dearer) <= m.supplement
  BY <1>1 DEF NetsUp
<1>3. \A l \in LinesOf(o) : lines[l].cents \in Nat /\ lines[l].left \in Nat
  BY <1>1 DEF MoneyInv, OrderMoney, OrderWorth
<1>4. \A l \in D : /\ approved[l] \in Nat
                   /\ approved[l] <= lines[l].left + m.changes[l].delta
  BY <1>1 DEF Effective
<1>5. /\ \A l \in D : /\ lines'[l].cents = m.changes[l].cents /\ lines'[l].state = "ACTIVE"
                      /\ lines'[l].left = lines[l].left + m.changes[l].delta - approved[l]
      /\ \A l \in LinesOf(o) \ D : lines'[l] = lines[l]
  BY <1>1, EffectiveLines DEF LinesOf
<1>6. /\ DOMAIN dearer = D /\ DOMAIN more = D /\ DOMAIN delta = D
      /\ \A l \in D : /\ dearer[l] = m.changes[l].cents - lines[l].cents
                      /\ more[l] = m.changes[l].delta - approved[l]
                      /\ delta[l] = m.changes[l].delta
  OBVIOUS
<1> HIDE DEF dearer, more, delta
<1>7. Repriced(o, lines, lines', dearer, more)
  <2>1. ASSUME NEW l \in D
        PROVE  /\ more[l] \in Int /\ dearer[l] \in Int
               /\ lines[l].state # "DROPPED" /\ lines'[l].state # "DROPPED"
               /\ lines'[l].cents = lines[l].cents + dearer[l]
               /\ lines'[l].left = lines[l].left + more[l]
               /\ lines'[l].cents \in Nat /\ lines'[l].left \in Nat
    BY <1>1, <1>3, <1>4, <1>5, <1>6
  <2>2. \A l \in LinesOf(o) : lines'[l].cents \in Nat /\ lines'[l].left \in Nat
    BY <1>3, <1>5, <2>1
  <2> QED
    BY <1>1, <1>3, <1>5, <1>6, <2>1, <2>2 DEF Repriced
<1>8. IsAmounts(approved) /\ IsAmounts(more) /\ IsAmounts(delta) /\ SumOf(approved) \in Nat
  <2>1. IsFiniteSet(D)
    BY <1>1, LinesAreFinite, FS_Subset
  <2>2. \A l \in D : /\ approved[l] \in Int /\ approved[l] >= 0
                     /\ more[l] \in Int /\ delta[l] \in Int
    BY <1>1, <1>4, <1>6
  <2>3. IsAmounts(approved) /\ IsAmounts(more) /\ IsAmounts(delta)
    BY <1>1, <1>6, <2>1, <2>2 DEF IsAmounts
  <2> QED
    BY <1>1, <2>2, <2>3, SumOfType
<1>9. SumOf(delta) = SumOf(more) + SumOf(approved)
  <2>1. \A l \in D : delta[l] = more[l] + approved[l]
    BY <1>1, <1>4, <1>6
  <2> QED
    BY <1>1, <1>6, <1>8, <2>1, SumOfPlus
<1>10. SumOf(more) = m.supplement - SumOf(approved)
  BY <1>1, <1>2, <1>8, <1>9, SumOfType
<1> QED
  BY <1>2, <1>7, <1>8, <1>10 DEF dearer, more

\* Its order when it was paid.
LEMMA RepaidOrderIsWritten ==
  ASSUME CourtInv, PaymentInv, MoneyInv, NEW a \in Amendments, NEW approved,
         NEW E, NEW Q, NEW t, NEW P,
         Effective(a, approved, E, Q, t, P), ~amendments[a].unpaid,
         NEW o, o = amendments[a].order, orders'[o] = OrderApplied(a, approved, payments')
  PROVE  OrderWritten(o)
<1> DEFINE m      == amendments[a]
           dearer == [l \in DOMAIN m.changes |-> m.changes[l].cents - lines[l].cents]
           more   == [l \in DOMAIN m.changes |-> m.changes[l].delta - approved[l]]
           back   == SumOf(approved)
           paid   == CASE Captured(o, payments') > 0 -> "SETTLED"
                       [] Captured(o, payments') = 0 /\ TotalOf(o, lines') = 0 -> "NOT_REQUIRED"
                       [] OTHER -> "UNPAID"
<1>1. o \in Orders /\ m.supplement \in Nat /\ orders[o].status = "CONFIRMED"
  BY EffectiveQuote
<1>2. /\ Repriced(o, lines, lines', dearer, more) /\ back \in Nat
      /\ SumOf(more) = m.supplement - back /\ SumOf(dearer) <= m.supplement
  BY PaidLinesMove
<1>3. Numbers(payments') /\ Captured(o, payments') = Captured(o, payments) + m.supplement
  BY <1>1, BroughtIn DEF Effective
<1>4. orders'[o] = [orders[o] EXCEPT !.revision = @ + (IF back > 0 THEN 2 ELSE 1),
                                     !.returned = @ + back, !.paid = paid]
  BY DEF Effective, Apply, OrderApplied
<1>5. /\ DOMAIN orders[o] = {"status", "paid", "holdUntil", "revision", "returned"}
      /\ orders[o].revision \in Nat
  BY <1>1 DEF CourtInv, RowsFit, OrderRow
<1>6. OrderWorth(o, orders[o], lines, payments)
  BY <1>1 DEF MoneyInv, OrderMoney
<1> HIDE DEF dearer, more, back, paid
<1>7. /\ orders'[o].status = "CONFIRMED" /\ orders'[o].paid = paid
      /\ orders'[o].returned = orders[o].returned + back
      /\ orders'[o].revision = orders[o].revision + (IF back > 0 THEN 2 ELSE 1)
  BY <1>1, <1>4, <1>5
<1>8. OrderWorth(o, orders'[o], lines', payments')
  BY <1>1, <1>2, <1>3, <1>6, <1>7, WorthApplied DEF paid
<1>9. orders'[o].revision > orders[o].revision
  BY <1>5, <1>7
<1> QED
  BY <1>8, <1>9 DEF OrderWritten, OrderMoney

LEMMA EffectiveMoney ==
  ASSUME CourtInv, PaymentInv, CourtInv', MoneyInv, NEW a \in Amendments, NEW approved,
         NEW E, NEW Q, NEW t, NEW P, Effective(a, approved, E, Q, t, P)
  PROVE  MoneyInv'
<1> SUFFICES ASSUME NEW o, o = amendments[a].order, NEW m, m = amendments[a] PROVE MoneyInv'
  OBVIOUS
<1>1. /\ AmendmentRow(m) /\ m # NoRow /\ o \in Orders
      /\ m.status \in {"QUOTED", "AWAITING_PAYMENT"} /\ a \notin E
      /\ DOMAIN m.changes \subseteq LinesOf(o) /\ m.supplement \in Nat
      /\ m.unpaid => UnpaidEditable(o, t)
      /\ ~m.unpaid => orders[o].status = "CONFIRMED"
  BY EffectiveQuote
<1>2. /\ E \subseteq {x \in Amendments : IsAwaiting(x)} /\ BringIn(a, P, E, Q)
      /\ Apply(a, approved, payments', E, Q)
  BY DEF Effective
<1>3. /\ orders'[o] = OrderApplied(a, approved, payments')
      /\ \A x \in Orders \ {o} : orders'[x] = OrdersAfter(Q)[x]
      /\ \A x \in Amendments \ {a} : amendments'[x] = AmendmentsAfter(E)[x]
      /\ amendments' = [AmendmentsAfter(E) EXCEPT ![a].status = "APPLIED", ![a].holdUntil = 0]
  BY <1>1, <1>2 DEF Apply, OrdersAfter, AmendmentsAfter
<1>4. OrderWritten(o)
  BY <1>3, UnpaidOrderIsWritten, RepaidOrderIsWritten
<1>5. ASSUME NEW x \in Orders \ {o} PROVE SameWorth(x, lines, lines')
  <2>1. \A l \in LinesOf(x) : l \in Lines \ DOMAIN m.changes
    BY <1>1 DEF LinesOf
  <2>2. \A l \in LinesOf(x) : lines'[l] = lines[l]
    BY <2>1, EffectiveLines
  <2> QED
    BY <2>2, LinesRest
<1>6. ASSUME NEW p \in Payments, IsPending(p), payments[p].amendment = Nil
      PROVE  payments[p].order # o
  <2>1. IsHeld(payments[p].order) /\ payments[p] # NoRow /\ payments[p].status = "PENDING"
    BY <1>6 DEF PaymentInv, PaymentFits, IsPending
  <2> QED
    BY <1>1, <2>1 DEF UnpaidEditable, IsHeld
<1>7. \A p \in P : PaymentWritten(p)
  <2>1. \A p \in P : PaymentMoney(p)' /\ \A x : x # o => Gain(payments'[p], x) = Gain(payments[p], x)
    BY <1>1, <1>2, BroughtIn
  <2> QED
    BY <1>4, <2>1 DEF PaymentWritten
<1>8. AmendmentRests(a)
  <2>1. AmendmentsAfter(E)[a] = m /\ DOMAIN AmendmentsAfter(E) = Amendments
    BY <1>1 DEF AmendmentsAfter
  <2>2. amendments'[a] = [m EXCEPT !.status = "APPLIED", !.holdUntil = 0]
    BY <1>3, <2>1
  <2>3. DOMAIN m = {"order", "base", "unpaid", "status", "expiresAt", "holdUntil",
                    "supplement", "changes"}
    BY <1>1 DEF AmendmentRow
  <2>4. /\ amendments'[a].status = "APPLIED" /\ amendments'[a].order = m.order
        /\ amendments'[a].base = m.base /\ amendments'[a].unpaid = m.unpaid
        /\ amendments'[a].supplement = m.supplement /\ amendments'[a].changes = m.changes
    BY <2>2, <2>3
  <2> QED
    BY <1>1, <2>4 DEF AmendmentRests
<1>9. \A p \in Payments \ P : payments'[p] = PaymentsAfter(E, Q)[p]
  BY <1>2 DEF BringIn
<1>10. MoneyBeside(E, Q, {o}, P, {a})
  BY <1>2, <1>3, <1>4, <1>5, <1>6, <1>7, <1>8, <1>9 DEF MoneyBeside
<1> QED
  BY <1>10, BesideExpiry

LEMMA ConfirmFreeMoney ==
  ASSUME CourtInv, PaymentInv, CourtInv', MoneyInv, NEW a \in Amendments,
         NEW approved \in Approvals(a), NEW t, ConfirmFree(a, approved, t)
  PROVE  MoneyInv'
<1> DEFINE E == DueAmendments(now)
<1>1. E \subseteq {x \in Amendments : IsAwaiting(x)}
  BY DueAreHeld
<1>2. /\ amendments[a] # NoRow /\ amendments[a].supplement = 0
      /\ \A l \in DOMAIN amendments[a].changes :
           approved[l] <= lines[l].left + amendments[a].changes[l].delta
      /\ Applicable(a, PaymentsAfter(E, {}), E, {}, t)
      /\ Apply(a, approved, PaymentsAfter(E, {}), E, {})
  BY DEF ConfirmFree, Confirmable
<1>3. approved \in [DOMAIN amendments[a].changes -> RefundCents \cup {0}]
  BY DEF Approvals
<1>4. /\ DOMAIN approved = DOMAIN amendments[a].changes
      /\ \A l \in DOMAIN approved : approved[l] \in Nat
  <2>1. RefundCents \cup {0} \subseteq Nat
    BY PolicyAssumption
  <2> QED
    BY <1>3, <2>1
<1> HIDE DEF E
<1>5. payments' = PaymentsAfter(E, {})
  BY <1>2 DEF Apply
<1>6. BringIn(a, {}, E, {})
  BY <1>2, <1>5 DEF BringIn
<1>7. Applicable(a, payments', E, {}, t) /\ Apply(a, approved, payments', E, {})
  BY <1>2, <1>5
<1>8. Effective(a, approved, E, {}, t, {})
  BY <1>1, <1>2, <1>4, <1>6, <1>7 DEF Effective
<1> QED
  BY <1>8, EffectiveMoney

\* Without refunds, what is left of a line never falls below nothing.
LEMMA NothingApproved ==
  ASSUME CourtInv, MoneyInv, NEW a \in Amendments, NEW pays, NEW E, NEW Q, NEW t,
         amendments[a] # NoRow, amendments[a].supplement > 0, Applicable(a, pays, E, Q, t),
         NEW none, none = [l \in DOMAIN amendments[a].changes |-> 0]
  PROVE  /\ DOMAIN none = DOMAIN amendments[a].changes
         /\ \A l \in DOMAIN none : /\ none[l] \in Nat
                                   /\ none[l] <= lines[l].left + amendments[a].changes[l].delta
<1>1. NetsUp(amendments[a], lines)
  BY DEF CourtInv, QuoteFits, MoneyInv, QuoteMoney, Applicable
<1>2. \A l \in DOMAIN amendments[a].changes : lines[l].left + amendments[a].changes[l].delta >= 0
  BY <1>1 DEF NetsUp
<1>3. \A l \in DOMAIN amendments[a].changes : lines[l].left + amendments[a].changes[l].delta \in Int
  <2>1. \A l \in DOMAIN amendments[a].changes : amendments[a].changes[l].delta \in Int
    BY DEF MoneyInv, QuoteMoney
  <2>2. \A l \in LinesOf(amendments[a].order) : lines[l].left \in Nat
    BY DEF MoneyInv, OrderMoney, OrderWorth, CourtInv, QuoteFits, AmendmentRow
  <2>3. DOMAIN amendments[a].changes \subseteq LinesOf(amendments[a].order)
    BY DEF CourtInv, QuoteFits, AmendmentRow
  <2> QED
    BY <2>1, <2>2, <2>3
<1> QED
  BY <1>2, <1>3

LEMMA SettleAppliedMoney ==
  ASSUME CourtInv, PaymentInv, CourtInv', MoneyInv, NEW p \in Payments, NEW t, SettleApplied(p, t)
  PROVE  MoneyInv'
<1> SUFFICES ASSUME NEW a, a = payments[p].amendment PROVE MoneyInv'
  OBVIOUS
<1> DEFINE E == DueAmendments(SettleTime(p, t))
           Q == DueOrders(SettleTime(p, t))
           pays == SettledPayments(p, E, Q, TRUE)
           none == [l \in DOMAIN amendments[a].changes |-> 0]
<1>1. /\ E \subseteq {x \in Amendments : IsAwaiting(x)}
      /\ Q \subseteq {x \in Orders : orders[x].status = "HELD"}
  BY DueAreHeld
<1>2. /\ payments[p] # NoRow /\ payments[p].status = "PENDING" /\ a # Nil /\ a \notin E
      /\ amendments[a].status = "AWAITING_PAYMENT"
      /\ orders[amendments[a].order].status = "CONFIRMED"
      /\ Applicable(a, pays, E, Q, t) /\ Apply(a, none, pays, E, Q)
  BY DEF SettleApplied, StillAwaited, IsPending
<1>3. /\ PaymentRow(payments[p]) /\ a \in Amendments
      /\ amendments[a] # NoRow /\ amendments[a].order = payments[p].order
  BY <1>2 DEF PaymentInv, PaymentFits, PaymentRow
<1>4. amendments[a].supplement > 0
  BY <1>2, <1>3 DEF CourtInv, WaitFits, IsAwaiting
<1>5. PaymentsAfter(E, Q)[p] = payments[p]
  BY <1>1, <1>2, <1>3 DEF PaymentsAfter
<1>6. /\ pays[p] = [SettleReservation(payments[p], TRUE) EXCEPT !.status = "SUCCEEDED"]
      /\ \A q \in Payments \ {p} : pays[q] = PaymentsAfter(E, Q)[q]
  BY <1>5 DEF SettledPayments, PaymentsAfter
<1> HIDE DEF E, Q, pays
<1>7. payments' = pays
  BY <1>2 DEF Apply
<1>8. /\ payments'[p] # NoRow /\ payments'[p].status = "SUCCEEDED"
      /\ payments'[p].order = amendments[a].order /\ payments'[p].amendment = a
      /\ payments'[p].external = payments[p].external
      /\ payments'[p].wallet = payments[p].wallet
  BY <1>3, <1>6, <1>7 DEF PaymentRow, SettleReservation, NoRow
<1>9. payments[p].external \in Nat /\ payments[p].wallet \in Nat
  BY <1>2 DEF MoneyInv, PaymentMoney
<1>10. Amount(payments'[p]) = amendments[a].supplement
  BY <1>2, <1>4, <1>7, <1>8 DEF Applicable
<1>11. BringIn(a, {p}, E, Q)
  BY <1>2, <1>6, <1>7, <1>8, <1>9, <1>10 DEF BringIn
<1>12. /\ DOMAIN none = DOMAIN amendments[a].changes
       /\ \A l \in DOMAIN none : /\ none[l] \in Nat
                                 /\ none[l] <= lines[l].left + amendments[a].changes[l].delta
  BY <1>2, <1>3, <1>4, NothingApproved
<1> HIDE DEF none
<1>13. Applicable(a, payments', E, Q, t) /\ Apply(a, none, payments', E, Q)
  BY <1>2, <1>7
<1>14. Effective(a, none, E, Q, t, {p})
  BY <1>1, <1>3, <1>11, <1>12, <1>13 DEF Effective
<1> QED
  BY <1>3, <1>14, EffectiveMoney

LEMMA BeginAmendmentPaymentMoney ==
  ASSUME CourtInv, PaymentInv, CourtInv', MoneyInv,
         NEW p \in Payments, NEW a \in Amendments, NEW w \in WalletParts, NEW t,
         BeginAmendmentPayment(p, a, w, t)
  PROVE  MoneyInv'
<1> SUFFICES ASSUME NEW cents, cents = amendments[a].supplement PROVE MoneyInv'
  OBVIOUS
<1> DEFINE E == DueAmendments(now)
           o == amendments[a].order
           pays == [PaymentsAfter(E, {}) EXCEPT ![p] = NewPayment(o, a, cents, w)]
           none == [l \in DOMAIN amendments[a].changes |-> 0]
<1>1. E \subseteq {x \in Amendments : IsAwaiting(x)}
  BY DueAreHeld
<1>2. /\ payments[p] = NoRow /\ IsAwaiting(a) /\ a \notin E /\ w <= cents
      /\ IF w = cents
         THEN Applicable(a, pays, E, {}, t) /\ Apply(a, none, pays, E, {})
         ELSE /\ payments' = pays /\ amendments' = AmendmentsAfter(E)
              /\ orders' = orders /\ lines' = lines
  BY DEF BeginAmendmentPayment
<1>3. /\ amendments[a] # NoRow /\ o \in Orders /\ cents > 0 /\ cents \in Nat /\ w \in Nat
  BY <1>2, PolicyAssumption
     DEF IsAwaiting, CourtInv, QuoteFits, WaitFits, AmendmentRow, MoneyInv, QuoteMoney
<1>4. /\ pays[p] = NewPayment(o, a, cents, w)
      /\ \A q \in Payments \ {p} : pays[q] = PaymentsAfter(E, {})[q]
  BY DEF PaymentsAfter
<1> HIDE DEF E, pays
<1>5. payments' = pays
  BY <1>2 DEF Apply
<1>6. /\ payments'[p] # NoRow /\ payments'[p].order = o /\ payments'[p].amendment = a
      /\ payments'[p].wallet = w /\ payments'[p].external = cents - w
      /\ payments'[p].status = IF w = cents THEN "SUCCEEDED" ELSE "PENDING"
  BY <1>3, <1>4, <1>5, NewRow
<1>7. /\ payments'[p].external \in Nat /\ payments'[p].wallet \in Nat
      /\ Amount(payments'[p]) = cents
  BY <1>2, <1>3, <1>6 DEF Amount
<1>8. CASE w = cents
  <2>1. Applicable(a, pays, E, {}, t) /\ Apply(a, none, pays, E, {})
    BY <1>2, <1>8
  <2>2. BringIn(a, {p}, E, {})
    BY <1>2, <1>4, <1>5, <1>6, <1>7, <1>8 DEF BringIn
  <2>3. /\ DOMAIN none = DOMAIN amendments[a].changes
        /\ \A l \in DOMAIN none : /\ none[l] \in Nat
                                  /\ none[l] <= lines[l].left + amendments[a].changes[l].delta
    BY <1>3, <2>1, NothingApproved
  <2> HIDE DEF none
  <2>4. Applicable(a, payments', E, {}, t) /\ Apply(a, none, payments', E, {})
    BY <1>5, <2>1
  <2>5. Effective(a, none, E, {}, t, {p})
    BY <1>1, <1>3, <2>2, <2>3, <2>4 DEF Effective
  <2> QED
    BY <2>5, EffectiveMoney
<1>9. CASE w # cents
  <2>1. /\ amendments' = AmendmentsAfter(E) /\ orders' = orders /\ lines' = lines
        /\ \A q \in Payments \ {p} : payments'[q] = PaymentsAfter(E, {})[q]
    BY <1>2, <1>4, <1>5, <1>9
  <2>2. PaymentWritten(p)
    <3>1. PaymentMoney(p)'
      BY <1>6, <1>7, NilAssumption DEF PaymentMoney
    <3>2. \A x : Gain(payments'[p], x) = 0 /\ Gain(payments[p], x) = 0
      BY <1>2, <1>6, <1>9 DEF Gain
    <3> QED
      BY <3>1, <3>2 DEF PaymentWritten
  <2>3. \A x : SameWorth(x, lines, lines')
    BY <2>1 DEF SameWorth
  <2>4. MoneyBeside(E, {}, {}, {p}, {})
    BY <1>1, <2>1, <2>2, <2>3 DEF MoneyBeside, OrdersAfter
  <2> QED
    BY <2>4, BesideExpiry
<1> QED
  BY <1>8, <1>9

(***************************************************************************)
(* The invariant holds.                                                    *)
(***************************************************************************)
LEMMA MoneyInit == Init => MoneyInv
<1> SUFFICES ASSUME Init PROVE MoneyInv
  OBVIOUS
<1>1. PICK booked \in Bookings :
        lines = [l \in Lines |-> [slot |-> booked[l].slot, cents |-> booked[l].cents,
                                  state |-> "ACTIVE", left |-> booked[l].cents]]
  BY DEF Init
<1>2. \A l \in Lines : booked[l].cents \in Nat
  BY BookingsAssumption, CatalogAssumption
<1>3. /\ \A p \in Payments : payments[p] = NoRow
      /\ \A a \in Amendments : amendments[a] = NoRow
  BY DEF Init
<1>4. \A l \in Lines : lines[l].cents \in Nat /\ lines[l].left \in Nat
                       /\ lines[l].left = Price(lines[l])
  BY <1>1, <1>2 DEF Price
<1>5. ASSUME NEW o \in Orders PROVE OrderMoney(o)
  <2> DEFINE free == TotalOf(o, lines) = 0
  <2>1. orders[o] = [status    |-> IF free THEN "CONFIRMED" ELSE "HELD",
                     paid      |-> IF free THEN "NOT_REQUIRED" ELSE "UNPAID",
                     holdUntil |-> IF free THEN 0 ELSE OrderHold,
                     revision  |-> 1, returned  |-> 0]
    BY DEF Init
  <2>2. /\ \A l \in LinesOf(o) : lines[l].cents \in Nat /\ lines[l].left \in Nat
                                 /\ lines[l].left = Price(lines[l])
    BY <1>4 DEF LinesOf
  <2>3. TotalOf(o, lines) \in Nat /\ LeftOf(o, lines) = TotalOf(o, lines)
    BY <2>2, TotalIsSum, FullPriceLeft
  <2>4. Captured(o, payments) = 0
    <3>1. Numbers(payments)
      BY <1>3 DEF Numbers
    <3> DEFINE gains == [p \in Payments |-> Gain(payments[p], o)]
    <3>2. Captured(o, payments) = SumOf(gains) /\ IsAmounts(gains)
      BY <3>1, CapturedIsSum
    <3>3. \A p \in DOMAIN gains : gains[p] = 0
      BY <1>3 DEF Gain
    <3> HIDE DEF gains
    <3> QED
      BY <3>2, <3>3, SumOfType
  <2>5. /\ orders[o].returned = 0
        /\ orders[o].status = IF free THEN "CONFIRMED" ELSE "HELD"
        /\ orders[o].paid = IF free THEN "NOT_REQUIRED" ELSE "UNPAID"
    BY <2>1
  <2> QED
    BY <2>2, <2>3, <2>4, <2>5 DEF OrderMoney, OrderWorth
<1> QED
  BY <1>3, <1>5 DEF MoneyInv, PaymentMoney, QuoteMoney

LEMMA MoneyStep ==
  ASSUME CourtInv, PaymentInv, MoneyInv, [Next]_vars
  PROVE  MoneyInv'
<1> SUFFICES ASSUME CourtInv' PROVE MoneyInv'
  <2>1. \A p \in Payments : PaymentFits(p)
    BY DEF PaymentInv
  <2> QED
    BY <2>1, CourtStep
<1>1. CASE UNCHANGED vars \/ Tick \/ \E m \in Minimums : UpdateVenue(m)
  <2>1. UNCHANGED <<orders, lines, amendments, payments>>
    BY <1>1 DEF vars, Tick, UpdateVenue
  <2> QED
    BY <2>1, QuietMoney
<1>2. CASE ExpireVenueAmendments
  <2>1. OrdersExpire({})
    BY <1>2, OrdersStay DEF ExpireVenueAmendments
  <2> QED
    BY <1>2, <2>1, ExpiryMoney DEF ExpireVenueAmendments
<1>3. CASE ExpireVenueHolds
  <2>1. OrdersExpire(DueOrders(now))
    BY <1>3, OrdersDo DEF ExpireVenueHolds
  <2> QED
    BY <1>3, <2>1, ExpiryMoney DEF ExpireVenueHolds
<1>4. ASSUME NEW b \in Blocks, NEW s \in BlockSlots, OccupyCourt(b, s) \/ ReleaseCourtOccupancy(b, s)
      PROVE  MoneyInv'
  <2>1. UNCHANGED <<orders, lines, amendments, payments>>
    BY <1>4 DEF OccupyCourt, ReleaseCourtOccupancy
  <2> QED
    BY <2>1, QuietMoney
<1>5. CASE Amend
  <2>1. ASSUME NEW a \in Amendments, NEW o \in Orders, NEW C \in SUBSET Lines, NEW t \in Clock,
               NEW new \in [C -> Offers], PreviewOrderAmendment(a, o, new, t)
        PROVE  MoneyInv'
    BY <2>1, PreviewMoney
  <2>2. ASSUME NEW a \in Amendments, NEW t \in Clock, NEW f \in Approvals(a), ConfirmFree(a, f, t)
        PROVE  MoneyInv'
    BY <2>2, ConfirmFreeMoney
  <2>3. ASSUME NEW a \in Amendments, NEW t \in Clock, ConfirmSupplement(a, t)
        PROVE  MoneyInv'
    BY <2>3, ConfirmSupplementMoney
  <2>4. ASSUME NEW a \in Amendments, CancelOrderAmendment(a)
        PROVE  MoneyInv'
    BY <2>4, CancelAmendmentMoney
  <2> QED
    BY <1>5, <2>1, <2>2, <2>3, <2>4 DEF Amend
<1>6. CASE Pay
  <2>1. ASSUME NEW p \in Payments, NEW t \in Clock, NEW w \in WalletParts,
               NEW o \in Orders, BeginOrderPayment(p, o, w, t)
        PROVE  MoneyInv'
    BY <2>1, BeginOrderPaymentMoney
  <2>2. ASSUME NEW p \in Payments, NEW t \in Clock, NEW w \in WalletParts,
               NEW a \in Amendments, BeginAmendmentPayment(p, a, w, t)
        PROVE  MoneyInv'
    BY <2>2, BeginAmendmentPaymentMoney
  <2>3. ASSUME NEW p \in Payments, NEW t \in Clock,
               \/ SettleOrder(p, t) \/ SettleApplied(p, t)
               \/ SettleRejected(p, t) \/ SettleFailure(p, t)
        PROVE  MoneyInv'
    BY <2>3, SettleOrderMoney, SettleAppliedMoney, SettleRejectedMoney, SettleFailureMoney
  <2> QED
    BY <1>6, <2>1, <2>2, <2>3 DEF Pay
<1>7. CASE Leave
  <2>1. ASSUME NEW o \in Orders, CancelUnpaidOrder(o) PROVE MoneyInv'
    BY <2>1, CancelUnpaidOrderMoney
  <2>2. ASSUME NEW o \in Orders, NEW L \in SUBSET Lines, NEW t \in Clock,
               CancelUnpaidOrderLines(o, L, t)
        PROVE  MoneyInv'
    BY <2>2, CancelUnpaidOrderLinesMoney
  <2>3. ASSUME NEW o \in Orders, NEW L \in SUBSET Lines, CancelFreeOrderLines(o, L)
        PROVE  MoneyInv'
    BY <2>3, CancelFreeOrderLinesMoney
  <2>4. ASSUME NEW o \in Orders, NEW L \in SUBSET Lines, NEW C \in SUBSET Lines,
               NEW cents \in [C -> RefundCents], RequestOrderRefund(o, cents, L)
        PROVE  MoneyInv'
    BY <2>4, RequestOrderRefundMoney
  <2> QED
    BY <1>7, <2>1, <2>2, <2>3, <2>4 DEF Leave
<1> QED
  BY <1>1, <1>2, <1>3, <1>4, <1>5, <1>6, <1>7 DEF Next

LEMMA InvImpliesCapsAreFunded == MoneyInv => CapsAreFunded
<1> SUFFICES ASSUME MoneyInv PROVE CapsAreFunded
  OBVIOUS
<1>1. ASSUME NEW l \in Lines PROVE lines[l].left >= 0
  <2>1. OrderOf[l] \in Orders /\ l \in LinesOf(OrderOf[l])
    BY BookingsAssumption DEF LinesOf
  <2> QED
    BY <2>1 DEF MoneyInv, OrderMoney, OrderWorth
<1>2. \A o \in Orders :
        /\ orders[o].status = "CONFIRMED" => orders[o].paid # "UNPAID"
        /\ orders[o].paid = "SETTLED" <=> Captured(o, payments) > 0
        /\ orders[o].paid # "UNPAID" =>
             /\ LeftOf(o, lines) + orders[o].returned = Captured(o, payments)
             /\ TotalOf(o, lines) <= Captured(o, payments)
  BY DEF MoneyInv, OrderMoney, OrderWorth
<1> QED
  BY <1>1, <1>2 DEF CapsAreFunded, LeftOf

(***************************************************************************)
(* Theorems.                                                               *)
(***************************************************************************)
\* Whatever is quoted, confirmed, paid, expired or cancelled, the rows of orders,
\* amendments, occupancies and payments fit together as the invariants say, and so
\* does their money.
THEOREM RowsFitTogether == Spec => [](CourtInv /\ PaymentInv /\ MoneyInv)
<1>1. Init => CourtInv /\ PaymentInv /\ MoneyInv
  BY CourtInit, PaymentInit, MoneyInit
<1>2. CourtInv /\ PaymentInv /\ MoneyInv /\ [Next]_vars => (CourtInv /\ PaymentInv /\ MoneyInv)'
  <2> SUFFICES ASSUME CourtInv, PaymentInv, MoneyInv, [Next]_vars
               PROVE  CourtInv' /\ PaymentInv' /\ MoneyInv'
    OBVIOUS
  <2>1. \A p \in Payments : PaymentFits(p)
    BY DEF PaymentInv
  <2> QED
    BY <2>1, CourtStep, PaymentStep, MoneyStep
<1> QED
  BY <1>1, <1>2, PTL DEF Spec

\* However many orders, lines, amendments and payments there are: no two live
\* occupancies of a court overlap, and the lines of live orders hold exactly the
\* intervals they stand for (amendments.ts:424-487).
THEOREM CourtsAlwaysFollowLines == Spec => []CourtsFollowLines
BY RowsFitTogether, InvImpliesCourtsFollowLines, PTL

\* While an amendment waits for its payment, its order is confirmed at the revision
\* it was quoted for, nothing else waits for the order, and the courts it needs are
\* covered by what holdNewCoverage staged and the lines that move
\* (amendments.ts:663).
THEOREM CourtsAreKept == Spec => []AwaitingKeepsItsCourts
BY RowsFitTogether, InvImpliesAwaitingKeepsItsCourts, PTL

\* The payment of an amendment succeeded exactly when the amendment was applied,
\* with the whole supplement, and an applied supplement was paid by one payment
\* (payments.ts:279).
THEOREM PaidOnceOrGivenBack == Spec => []AmendmentsFollowPayments
BY RowsFitTogether, InvImpliesAmendmentsFollowPayments, PTL

\* However price differences are netted and refunds approved, and however many lines,
\* payments and amendments an order has: what can still be refunded of the lines of a
\* paid order and what was given back add up to what was captured, no order costs
\* more than that, and no line is refunded below nothing (amendments.ts:336).
THEOREM CapsStayFunded == Spec => []CapsAreFunded
BY RowsFitTogether, InvImpliesCapsAreFunded, PTL

\* A line takes another interval or price only as an amendment of its order agreed,
\* made for the order as it is and applied before its deadline
\* (applyAmendmentInTransaction, amendments.ts:424-496).
THEOREM LinesChangeAsAgreed == Spec => ChangesAreAgreed
<1>1. CourtInv /\ PaymentInv /\ [Next]_vars => [\A l \in Lines : AgreedChange(l)]_vars
  <2> SUFFICES ASSUME CourtInv, PaymentInv, [Next]_vars
               PROVE  \A l \in Lines : AgreedChange(l)
    OBVIOUS
  <2>1. \A p \in Payments : PaymentFits(p)
    BY DEF PaymentInv
  <2> QED
    BY <2>1, AgreedStep
<1>2. Spec => [][\A l \in Lines : AgreedChange(l)]_vars
  BY <1>1, RowsFitTogether, PTL DEF Spec
<1> QED
  BY <1>2 DEF ChangesAreAgreed, AgreedChange
=============================================================================
