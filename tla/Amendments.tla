----------------------------- MODULE Amendments -----------------------------
(***************************************************************************)
(* Amendments of combined court orders in one venue of Tennis PMS: quoting *)
(* a change, holding the courts it needs, paying its supplement, applying  *)
(* it, and everything that may end or outdate it meanwhile:                *)
(*   packages/db/src/tennis/amendments.ts, the parts of payments.ts that   *)
(*   settle an amendment, and the refund requests of refunds.ts.           *)
(*                                                                         *)
(* Every command is one transaction under the tenant's advisory lock, so   *)
(* each is one action.  A command that fails rolls back: its error paths   *)
(* are the states in which the action is not enabled.  The exception is    *)
(* the settlement of a paid amendment, which keeps the payment when the    *)
(* change is rejected (SettleRejected).                                    *)
(*                                                                         *)
(* Orders start as confirmQuote leaves them (CourtBooking models how they  *)
(* come about), the wallet always has the money asked of it (WalletStore), *)
(* and a refund that was requested counts as returned (OrderRefunds).      *)
(* Second captures of one payment are in CourtBooking.                     *)
(***************************************************************************)
EXTENDS TennisCents

CONSTANTS
  Orders,       \* identities of orders
  Lines,        \* identities of order lines, in the order of their ids
  OrderOf,      \* the order of each line
  Bookings,     \* what lines may start as: functions Lines -> Offers
  Offers,       \* priced intervals the catalog may produce: [slot, cents]
  Minimums,     \* minimum booking lengths an administrator may save
  Amendments,   \* identities of amendments
  Payments,     \* identities of payment attempts
  Blocks,       \* identities of occupancies made without an order
  BlockSlots,   \* bound: the intervals such occupancies may take
  RefundCents,  \* bound: amounts a refund may ask for of one line
  WalletParts,  \* wallet amounts a payment may ask for
  OrderHold,    \* minutes an unpaid order is held
  QuoteMinutes, \* booking policy: minutes an amendment quote is valid
  HoldMinutes,  \* booking policy: minutes an amendment waits for its payment
  MaxElapse,    \* bound: minutes that may pass inside one transaction
  MaxTime,      \* bound: the last minute of a behaviour
  Nil           \* SQL NULL: a payment is for no amendment

VARIABLES
  now,          \* the database clock, in minutes
  minimum,      \* tennis.venues.minimum_booking_minutes
  orders,       \* tennis.orders, with the cents requested back from each
  lines,        \* tennis.order_lines, with what refundableLines says of each
  live,         \* rows of tennis.occupancies with released_at IS NULL
  amendments,   \* tennis.order_amendments with their lines
  payments      \* tennis.payment_attempts with their wallet reservation

vars == <<now, minimum, orders, lines, live, amendments, payments>>

Slots == {f.slot : f \in Offers}

OrderRec == [status: {"HELD", "CONFIRMED", "EXPIRED", "CANCELLED"},
             paid: {"UNPAID", "NOT_REQUIRED", "SETTLED"},
                                   \* SETTLED: PAID, PARTIALLY_REFUNDED or REFUNDED
             holdUntil: Nat,       \* 0 stands for NULL
             revision: Nat, returned: Nat]

LineRec == [slot: Slots, cents: Nat,
            state: {"ACTIVE", "CANCELLED", "DROPPED"},
                                   \* DROPPED: cancelled_before_payment
            left: Int]             \* refundableLines

Change == [old: Slots, new: Slots, cents: Nat, delta: Int, refund: Nat]

AmendmentRec == [order: Orders, base: Nat, unpaid: BOOLEAN,
                 status: {"QUOTED", "AWAITING_PAYMENT", "APPLIED", "CANCELLED",
                          "EXPIRED"},
                 expiresAt: Nat, holdUntil: Nat, supplement: Nat,
                 changes: UNION {[C -> Change] : C \in SUBSET Lines \ {{}}}]

PaymentRec == [order: Orders, amendment: Amendments \cup {Nil},
               external: Nat, wallet: Nat,
               status: {"PENDING", "SUCCEEDED", "FAILED", "EXPIRED",
                        "CANCELLED", "REFUND_REQUIRED"},
               reserve: {"NONE", "RESERVED", "CONSUMED", "RELEASED"}]

\* The row of an amendment or of a payment that does not exist.
NoRow == [status |-> "NONE"]

ASSUME NilAssumption == Nil \notin Amendments

ASSUME CatalogAssumption ==
  /\ Offers \subseteq [slot: [court: {f.slot.court : f \in Offers},
                              start: Nat, end: Nat], cents: Nat]
  /\ \A s \in Slots : s.start < s.end
  /\ \A s \in BlockSlots : {s.start, s.end} \subseteq Nat /\ s.start < s.end
  /\ Minimums \subseteq Nat

Overlap(i, j) == i.court = j.court /\ i.start < j.end /\ i.end > j.start

ASSUME BookingsAssumption ==
  /\ Lines \subseteq Nat /\ OrderOf \in [Lines -> Orders]
  /\ Bookings \subseteq [Lines -> Offers]
  /\ \A b \in Bookings : \A l, m \in Lines : l # m => ~Overlap(b[l].slot, b[m].slot)

ASSUME PolicyAssumption ==
  /\ {OrderHold, QuoteMinutes, HoldMinutes} \subseteq Nat \ {0}
  /\ {MaxElapse, MaxTime} \subseteq Nat /\ WalletParts \subseteq Nat
  /\ RefundCents \subseteq Nat

ASSUME TablesAssumption == IsFiniteSet(Lines) /\ IsFiniteSet(Payments)
-----------------------------------------------------------------------------
(***************************************************************************)
(* What the rows say.                                                      *)
(***************************************************************************)
LinesOf(o) == {l \in Lines : OrderOf[l] = o}
ActiveLines(o) == {l \in LinesOf(o) : lines[l].state = "ACTIVE"}

IsHeld(o) == orders[o].status = "HELD" /\ orders[o].paid = "UNPAID"

IsAwaiting(a) == amendments[a] # NoRow /\ amendments[a].status = "AWAITING_PAYMENT"
IsPending(p)  == payments[p] # NoRow /\ payments[p].status = "PENDING"

Amount(pay) == pay.wallet + pay.external

\* What the successful payments of order o brought in, given the rows `pays`.
Captured(o, pays) ==
  LET captured == {p \in Payments : pays[p] # NoRow /\ pays[p].order = o
                                    /\ pays[p].status = "SUCCEEDED"}
  IN SumOf([p \in captured |-> Amount(pays[p])])

\* tennis.orders.total_cents, from the lines `rows` of an order.
TotalOf(o, rows) ==
  SumOf([l \in {k \in LinesOf(o) : rows[k].state # "DROPPED"} |-> rows[l].cents])

Line(l, s)   == [kind |-> "LINE", source |-> l, slot |-> s]
Staged(a, s) == [kind |-> "STAGED", source |-> a, slot |-> s]
Block(b, s)  == [kind |-> "MANUAL", source |-> b, slot |-> s]

\* assertNoPendingAmendment, for the amendments that are left after E expired.
NoneAwaits(o, E) ==
  \A a \in Amendments \ E : IsAwaiting(a) => amendments[a].order # o

\* The clock readings a transaction may still make before it commits.
Clock == {t \in now .. now + MaxElapse : t <= MaxTime}
-----------------------------------------------------------------------------
(***************************************************************************)
(* What is due, and the rows after the amendments E and the orders Q that  *)
(* were due have expired.                                                  *)
(***************************************************************************)
Fault_DueAmendments(t) ==
  {a \in Amendments : /\ IsAwaiting(a) /\ amendments[a].holdUntil <= t
                      /\ \A p \in Payments : IsPending(p) => payments[p].amendment # a}
DueAmendments(t) == {a \in Amendments : IsAwaiting(a) /\ amendments[a].holdUntil <= t}
DueOrders(t) ==
  {o \in Orders : orders[o].status = "HELD" /\ orders[o].holdUntil <= t}

\* settleWalletReservation acts only on what is still reserved.
SettleReservation(pay, consume) ==
  IF pay.reserve = "RESERVED"
  THEN [pay EXCEPT !.reserve = IF consume THEN "CONSUMED" ELSE "RELEASED"]
  ELSE pay

ReleasedPayment(pay, status) ==
  [SettleReservation(pay, FALSE) EXCEPT !.status = status]

\* releaseAmendmentInTransaction: the amendment, its staged holds and its payment.
EndedAmendment(a, status) ==
  IF amendments[a].status \in {"QUOTED", "AWAITING_PAYMENT"}
  THEN [amendments[a] EXCEPT !.status = status, !.holdUntil = 0]
  ELSE amendments[a]

AmendmentsAfter(E) ==
  [a \in Amendments |-> IF a \in E THEN EndedAmendment(a, "EXPIRED") ELSE amendments[a]]

Fault_PaymentsAfter(E, Q) ==
  [p \in Payments |->
     IF IsPending(p) /\ payments[p].order \in Q
     THEN ReleasedPayment(payments[p], "EXPIRED")
     ELSE payments[p]]
PaymentsAfter(E, Q) ==
  [p \in Payments |->
     IF IsPending(p) /\ (payments[p].amendment \in E \/ payments[p].order \in Q)
     THEN ReleasedPayment(payments[p], "EXPIRED")
     ELSE payments[p]]

LiveAfter(E, Q) ==
  {u \in live : /\ u.kind = "STAGED" => u.source \notin E
                /\ u.kind = "LINE" => OrderOf[u.source] \notin Q}

OrdersAfter(Q) ==
  [o \in Orders |->
     IF o \in Q THEN [orders[o] EXCEPT !.status = "EXPIRED", !.holdUntil = 0,
                                      !.revision = @ + 1]
     ELSE orders[o]]

\* The active lines of o are cancelled as they are.
LinesCancelled(o) ==
  [l \in Lines |-> IF l \in ActiveLines(o) THEN [lines[l] EXCEPT !.state = "CANCELLED"]
                   ELSE lines[l]]

CancelledOrder(o) ==
  [orders[o] EXCEPT !.status = "CANCELLED", !.holdUntil = 0, !.revision = @ + 1]
-----------------------------------------------------------------------------
(***************************************************************************)
(* May the lines of an order take other courts?                            *)
(***************************************************************************)
\* assertUnpaidEditable: held until after t, and no payment is under way.
UnpaidEditable(o, t) ==
  /\ IsHeld(o)
  /\ orders[o].holdUntil > t
  /\ \A p \in Payments : payments[p] # NoRow /\ payments[p].order = o =>
       payments[p].status \in {"FAILED", "EXPIRED", "CANCELLED"}

\* priceSelectionInTransaction: the venue accepts bookings of this length.
Accepted(changes) ==
  \A l \in DOMAIN changes : changes[l].new.end - changes[l].new.start >= minimum

\* The occupancies the changes of amendment a may use: those of the lines that
\* move, and what a has staged itself.
Own(a, changes) ==
  {Line(l, changes[l].old) : l \in DOMAIN changes}
    \cup {u \in live : u.kind = "STAGED" /\ u.source = a}

\* checkTargets at time t, when the occupancies `occupied` are left.
Fault_TargetsFree(a, o, changes, occupied, t) ==
  /\ \A l \in DOMAIN changes : changes[l].old.start > t /\ changes[l].new.start > t
  /\ \A l \in DOMAIN changes, u \in occupied :
       Overlap(changes[l].new, u.slot) => u.kind = "LINE" \/ u \in Own(a, changes)
TargetsFree(a, o, changes, occupied, t) ==
  LET slot(l) == IF l \in DOMAIN changes THEN changes[l].new ELSE lines[l].slot IN
  /\ \A l, m \in ActiveLines(o) : l # m => ~Overlap(slot(l), slot(m))
  /\ \A l \in DOMAIN changes : changes[l].old.start > t /\ changes[l].new.start > t
  /\ \A l \in DOMAIN changes, u \in occupied :
       Overlap(changes[l].new, u.slot) => u \in Own(a, changes)

\* The parts of interval s between bounds of s and of the intervals `olds`, those
\* which overlap none of these, and the largest of them.
Pieces(olds, s) ==
  [court : {s.court}, start : {s.start} \cup {i.end : i \in olds},
   end : {s.end} \cup {i.start : i \in olds}]
UncoveredPieces(olds, s) ==
  {i \in Pieces(olds, s) :
     /\ i.start < i.end /\ s.start <= i.start /\ i.end <= s.end
     /\ \A j \in olds : ~Overlap(i, j)}
LargestPieces(olds, s) ==
  {i \in UncoveredPieces(olds, s) :
     \A j \in UncoveredPieces(olds, s) : j.start <= i.start /\ i.end <= j.end => j = i}

\* holdNewCoverage: of every target, the largest pieces that no line which moves
\* covers now.
Fault_NewCoverage(a, changes) ==
  {Staged(a, changes[l].new) :
     l \in {m \in DOMAIN changes :
              \A k \in DOMAIN changes : ~Overlap(changes[m].new, changes[k].old)}}
NewCoverage(a, changes) ==
  LET olds == {changes[l].old : l \in DOMAIN changes} IN
  UNION {{Staged(a, i) : i \in LargestPieces(olds, changes[l].new)} : l \in DOMAIN changes}
-----------------------------------------------------------------------------
Init ==
  /\ now = 0
  /\ minimum \in Minimums
  /\ \E booked \in Bookings :
       /\ lines = [l \in Lines |-> [slot |-> booked[l].slot, cents |-> booked[l].cents,
                                    state |-> "ACTIVE", left |-> booked[l].cents]]
       /\ live = {Line(l, booked[l].slot) : l \in Lines}
  /\ orders = [o \in Orders |->
       LET free == TotalOf(o, lines) = 0 IN
       [status    |-> IF free THEN "CONFIRMED" ELSE "HELD",
        paid      |-> IF free THEN "NOT_REQUIRED" ELSE "UNPAID",
        holdUntil |-> IF free THEN 0 ELSE OrderHold,
        revision  |-> 1,
        returned  |-> 0]]
  /\ amendments = [a \in Amendments |-> NoRow]
  /\ payments = [p \in Payments |-> NoRow]

Tick ==
  /\ now < MaxTime
  /\ now' = now + 1
  /\ UNCHANGED <<minimum, orders, lines, live, amendments, payments>>

\* updateVenue: the minimum length changes, whatever is held or awaited; opening
\* hours and the venue itself are protected by what is held (catalog.ts:178-195).
UpdateVenue(m) ==
  /\ minimum' = m
  /\ UNCHANGED <<now, orders, lines, live, amendments, payments>>

\* expireVenueAmendments: the worker (expireDueAmendments) and the reads of
\* amendments.
ExpireVenueAmendments ==
  LET E == DueAmendments(now) IN
  /\ amendments' = AmendmentsAfter(E)
  /\ payments' = PaymentsAfter(E, {})
  /\ live' = LiveAfter(E, {})
  /\ UNCHANGED <<now, minimum, orders, lines>>

\* expireVenueHolds: the worker (expireDueOrders) and the reads of orders.
ExpireVenueHolds ==
  LET E == DueAmendments(now)
      Q == DueOrders(now)
  IN
  /\ amendments' = AmendmentsAfter(E)
  /\ payments' = PaymentsAfter(E, Q)
  /\ live' = LiveAfter(E, Q)
  /\ orders' = OrdersAfter(Q)
  /\ UNCHANGED <<now, minimum, lines>>

\* occupyCourt and releaseCourtOccupancy of inventory.ts.
OccupyCourt(b, s) ==
  /\ \A u \in live : ~(u.kind = "MANUAL" /\ u.source = b) /\ ~Overlap(s, u.slot)
  /\ live' = live \cup {Block(b, s)}
  /\ UNCHANGED <<now, minimum, orders, lines, amendments, payments>>

ReleaseCourtOccupancy(b, s) ==
  /\ Block(b, s) \in live
  /\ live' = live \ {Block(b, s)}
  /\ UNCHANGED <<now, minimum, orders, lines, amendments, payments>>
-----------------------------------------------------------------------------
(***************************************************************************)
(* Quoting and confirming a change.                                        *)
(***************************************************************************)
\* The netting of previewOrderAmendment: what lines get cheaper first pays for
\* what others get dearer, in exact cents; the rest is a supplement or a refund.
\* An unpaid order has nothing to net.
Fault_Netting(unpaid, new) ==
  LET up   == [l \in DOMAIN new |->
                 IF unpaid \/ new[l].cents < lines[l].cents THEN 0
                 ELSE new[l].cents - lines[l].cents]
      down == [l \in DOMAIN new |->
                 IF unpaid \/ new[l].cents > lines[l].cents THEN 0
                 ELSE lines[l].cents - new[l].cents]
      moved == AllocateCents(IF SumOf(up) < SumOf(down) THEN SumOf(up) ELSE SumOf(down), down)
  IN [l \in DOMAIN new |-> [delta |-> up[l] - moved[l], refund |-> down[l] - moved[l]]]
Netting(unpaid, new) ==
  LET up   == [l \in DOMAIN new |->
                 IF unpaid \/ new[l].cents < lines[l].cents THEN 0
                 ELSE new[l].cents - lines[l].cents]
      down == [l \in DOMAIN new |->
                 IF unpaid \/ new[l].cents > lines[l].cents THEN 0
                 ELSE IF lines[l].cents - new[l].cents < lines[l].left
                      THEN lines[l].cents - new[l].cents ELSE lines[l].left]
      moved == AllocateCents(IF SumOf(up) < SumOf(down) THEN SumOf(up) ELSE SumOf(down), down)
  IN [l \in DOMAIN new |-> [delta |-> up[l] - moved[l], refund |-> down[l] - moved[l]]]

\* The changes quoted when the lines of order o in the domain of `new` are to
\* take its offers.
Quoted(unpaid, new) ==
  LET net == Netting(unpaid, new) IN
  [l \in DOMAIN new |->
     [old |-> lines[l].slot, new |-> new[l].slot, cents |-> new[l].cents,
      delta |-> net[l].delta, refund |-> net[l].refund]]

\* The supplement is what the increases ask beyond the decreases.  The increases of
\* an unpaid order are 0.
Supplement(unpaid, changes) ==
  LET due == SumOf([l \in DOMAIN changes |-> changes[l].delta]) IN
  IF ~unpaid /\ due > 0 THEN due ELSE 0

\* previewOrderAmendment at time t, of the lines in the domain of `new`.
PreviewOrderAmendment(a, o, new, t) ==
  LET E       == DueAmendments(now)
      unpaid  == IsHeld(o)
      changes == Quoted(unpaid, new)
  IN
  /\ amendments[a] = NoRow
  /\ DOMAIN new # {} /\ DOMAIN new \subseteq ActiveLines(o)
  /\ IF unpaid THEN UnpaidEditable(o, t)
     ELSE orders[o].status = "CONFIRMED" /\ orders[o].paid # "UNPAID"
  /\ NoneAwaits(o, E)
  /\ \A l \in DOMAIN new : Line(l, lines[l].slot) \in live
  /\ Accepted(changes)
  /\ TargetsFree(a, o, changes, LiveAfter(E, {}), t)
  /\ now' = t
  /\ amendments' = [AmendmentsAfter(E) EXCEPT ![a] =
       [order |-> o, base |-> orders[o].revision, unpaid |-> unpaid,
        status |-> "QUOTED",
        expiresAt |-> IF unpaid /\ orders[o].holdUntil < t + QuoteMinutes
                      THEN orders[o].holdUntil ELSE t + QuoteMinutes,
        holdUntil |-> 0, supplement |-> Supplement(unpaid, changes), changes |-> changes]]
  /\ payments' = PaymentsAfter(E, {})
  /\ live' = LiveAfter(E, {})
  /\ UNCHANGED <<minimum, orders, lines>>

\* The checks of applyAmendmentInTransaction at its last clock reading t, with
\* the payments `pays`, after the amendments E and the orders Q expired.
Fault_Applicable(a, pays, E, Q, t) ==
  LET m == amendments[a]
      o == m.order
  IN
  /\ a \notin E
  /\ m.status \in {"QUOTED", "AWAITING_PAYMENT"}
  /\ IF m.unpaid THEN UnpaidEditable(o, t) ELSE orders[o].status = "CONFIRMED"
  /\ Accepted(m.changes)
  /\ TargetsFree(a, o, m.changes, LiveAfter(E, Q), t)
  /\ \A l \in DOMAIN m.changes : Line(l, m.changes[l].old) \in live
Applicable(a, pays, E, Q, t) ==
  LET m == amendments[a]
      o == m.order
      captures == {p \in Payments : /\ pays[p] # NoRow
                                    /\ pays[p].amendment = a
                                    /\ pays[p].status = "SUCCEEDED"}
  IN
  /\ a \notin E
  /\ m.status \in {"QUOTED", "AWAITING_PAYMENT"}
  /\ orders[o].revision = m.base
  /\ IF m.unpaid THEN UnpaidEditable(o, t) ELSE orders[o].status = "CONFIRMED"
  /\ m.supplement > 0 =>
       /\ Cardinality(captures) = 1
       /\ \A p \in captures : Amount(pays[p]) = m.supplement
  /\ Accepted(m.changes)
  /\ TargetsFree(a, o, m.changes, LiveAfter(E, Q), t)
  /\ \A l \in DOMAIN m.changes : Line(l, m.changes[l].old) \in live
  /\ t < IF m.status = "QUOTED" THEN m.expiresAt ELSE m.holdUntil

\* The lines after amendment a was applied and the cents `approved` of each of
\* its lines were given back.
LinesApplied(a, approved) ==
  [l \in Lines |->
     IF l \in DOMAIN amendments[a].changes
     THEN LET c == amendments[a].changes[l] IN
          [lines[l] EXCEPT !.slot = c.new, !.cents = c.cents,
             !.left = IF amendments[a].unpaid THEN c.cents ELSE @ + c.delta - approved[l]]
     ELSE lines[l]]

\* Its occupancies: the old ones and the staged ones become the new ones.
LiveApplied(a, E, Q) ==
  (LiveAfter(E, Q) \ Own(a, amendments[a].changes))
    \cup {Line(l, amendments[a].changes[l].new) : l \in DOMAIN amendments[a].changes}

\* refreshUnpaidProjection: the total of the active lines; an order that lost
\* its last line ends, and one that costs nothing any more is confirmed.
RefreshedUnpaid(o, rows) ==
  LET active == {l \in LinesOf(o) : rows[l].state = "ACTIVE"}
      free   == TotalOf(o, rows) = 0
  IN
  [orders[o] EXCEPT
     !.status    = IF active = {} THEN "CANCELLED" ELSE IF free THEN "CONFIRMED" ELSE "HELD",
     !.paid      = IF active # {} /\ free THEN "NOT_REQUIRED" ELSE "UNPAID",
     !.holdUntil = IF active = {} \/ free THEN 0 ELSE @,
     !.revision  = @ + 1]

\* Its order.  With refunds the revision moves twice; refreshOrderPaymentStatus
\* decides on the status of the payment.
OrderApplied(a, approved, pays) ==
  LET o    == amendments[a].order
      rows == LinesApplied(a, approved)
      back == SumOf(approved)
  IN
  IF amendments[a].unpaid THEN RefreshedUnpaid(o, rows)
  ELSE [orders[o] EXCEPT
          !.revision = @ + (IF back > 0 THEN 2 ELSE 1),
          !.returned = @ + back,
          !.paid = CASE Captured(o, pays) > 0 -> "SETTLED"
                     [] Captured(o, pays) = 0 /\ TotalOf(o, rows) = 0 -> "NOT_REQUIRED"
                     [] OTHER -> "UNPAID"]

\* applyAmendmentInTransaction: amendment a takes effect with the payments `pays`.
Apply(a, approved, pays, E, Q) ==
  /\ lines' = LinesApplied(a, approved)
  /\ live' = LiveApplied(a, E, Q)
  /\ orders' = [OrdersAfter(Q) EXCEPT ![amendments[a].order] = OrderApplied(a, approved, pays)]
  /\ amendments' = [AmendmentsAfter(E) EXCEPT ![a].status = "APPLIED", ![a].holdUntil = 0]
  /\ payments' = pays

\* The checks of confirmOrderAmendment that precede those of applying.
Confirmable(a, E, t) ==
  /\ amendments[a] # NoRow /\ amendments[a].status = "QUOTED"
  /\ t < amendments[a].expiresAt
  /\ orders[amendments[a].order].revision = amendments[a].base
  /\ amendments[a].unpaid => UnpaidEditable(amendments[a].order, t)
  /\ NoneAwaits(amendments[a].order, E)

\* confirmOrderAmendment of a change that costs nothing more: it is applied at
\* once, and the employee approves at most the refund that was suggested.
ConfirmFree(a, approved, t) ==
  LET E == DueAmendments(now)
      m == amendments[a]
  IN
  /\ Confirmable(a, E, t)
  /\ m.supplement = 0
  /\ \A l \in DOMAIN m.changes :
       /\ approved[l] <= m.changes[l].refund
       /\ approved[l] <= lines[l].left + m.changes[l].delta
  /\ SumOf(approved) <= Captured(m.order, payments) - orders[m.order].returned
  /\ Applicable(a, PaymentsAfter(E, {}), E, {}, t)
  /\ Apply(a, approved, PaymentsAfter(E, {}), E, {})
  /\ now' = t
  /\ UNCHANGED minimum

\* The end of the hold of a confirmed amendment.
PaymentDeadline(m, t) ==
  Min({t + HoldMinutes} \cup {m.changes[l].old.start : l \in DOMAIN m.changes}
        \cup {m.changes[l].new.start : l \in DOMAIN m.changes})

\* confirmOrderAmendment of a change with a supplement: the new coverage is held
\* beside the old courts until the payment comes.
ConfirmSupplement(a, t) ==
  LET E == DueAmendments(now)
      m == amendments[a]
  IN
  /\ Confirmable(a, E, t)
  /\ m.supplement > 0
  /\ Accepted(m.changes)
  /\ TargetsFree(a, m.order, m.changes, LiveAfter(E, {}), t)
  /\ t < PaymentDeadline(m, t)
  /\ amendments' = [AmendmentsAfter(E) EXCEPT ![a].status = "AWAITING_PAYMENT",
                                              ![a].holdUntil = PaymentDeadline(m, t)]
  /\ live' = LiveAfter(E, {}) \cup NewCoverage(a, m.changes)
  /\ payments' = PaymentsAfter(E, {})
  /\ now' = t
  /\ UNCHANGED <<minimum, orders, lines>>

\* cancelOrderAmendment: it expires nothing else first.  An amendment that ended
\* otherwise stays as it is.
CancelOrderAmendment(a) ==
  /\ amendments[a] # NoRow
  /\ amendments[a].status \in {"QUOTED", "AWAITING_PAYMENT"}
  /\ amendments' = [amendments EXCEPT ![a] = EndedAmendment(a, "CANCELLED")]
  /\ payments' = [p \in Payments |->
       IF IsPending(p) /\ payments[p].amendment = a
       THEN ReleasedPayment(payments[p], "CANCELLED") ELSE payments[p]]
  /\ live' = {u \in live : u.kind = "STAGED" => u.source # a}
  /\ UNCHANGED <<now, minimum, orders, lines>>
-----------------------------------------------------------------------------
(***************************************************************************)
(* Payments.                                                               *)
(***************************************************************************)
\* A new payment of `cents`, w of them from the wallet; without a rest for the
\* provider it succeeds at once.
NewPayment(o, a, cents, w) ==
  [order |-> o, amendment |-> a, external |-> cents - w, wallet |-> w,
   status  |-> IF w = cents THEN "SUCCEEDED" ELSE "PENDING",
   reserve |-> CASE w = 0 -> "NONE"
                 [] w > 0 /\ w = cents -> "CONSUMED"
                 [] OTHER -> "RESERVED"]

NonePending(o, pays) ==
  \A p \in Payments :
    pays[p] # NoRow /\ pays[p].order = o => pays[p].status # "PENDING"

PaidOrder(o) ==
  [orders[o] EXCEPT !.status = "CONFIRMED", !.paid = "SETTLED", !.holdUntil = 0,
                    !.revision = @ + 1]

\* beginOrderPayment: its hold is read again at time t.
BeginOrderPayment(p, o, w, t) ==
  LET E     == DueAmendments(now)
      Q     == DueOrders(now)
      swept == PaymentsAfter(E, Q)
      total == TotalOf(o, lines)
  IN
  /\ payments[p] = NoRow
  /\ IsHeld(o) /\ o \notin Q /\ orders[o].holdUntil > t
  /\ w <= total
  /\ NonePending(o, swept)
  /\ payments' = [swept EXCEPT ![p] = NewPayment(o, Nil, total, w)]
  /\ orders' = [OrdersAfter(Q) EXCEPT ![o] = IF w = total THEN PaidOrder(o) ELSE @]
  /\ amendments' = AmendmentsAfter(E)
  /\ live' = LiveAfter(E, Q)
  /\ now' = t
  /\ UNCHANGED <<minimum, lines>>

\* beginAmendmentPayment: an amendment the wallet pays is applied at once, and
\* not paid at all when that is impossible.
BeginAmendmentPayment(p, a, w, t) ==
  LET E == DueAmendments(now)
      m == amendments[a]
      swept == PaymentsAfter(E, {})
      pays  == [swept EXCEPT ![p] = NewPayment(m.order, a, m.supplement, w)]
  IN
  /\ payments[p] = NoRow
  /\ IsAwaiting(a) /\ a \notin E
  /\ orders[m.order].revision = m.base
  /\ w <= m.supplement
  /\ NonePending(m.order, swept)
  /\ m.holdUntil > t
  /\ now' = t
  /\ IF w = m.supplement
     THEN /\ Applicable(a, pays, E, {}, t)
          /\ Apply(a, [l \in DOMAIN m.changes |-> 0], pays, E, {})
     ELSE /\ payments' = pays
          /\ amendments' = AmendmentsAfter(E)
          /\ live' = LiveAfter(E, {})
          /\ UNCHANGED <<orders, lines>>
  /\ UNCHANGED minimum

\* settleVerifiedPayment expires the holds of the venue when it starts and, when
\* the order of p is held then, once more; t is its last clock reading.
SettleTime(p, t) ==
  LET o == payments[p].order IN
  IF orders[o].status = "HELD" /\ o \notin DueOrders(now) THEN t ELSE now

\* No capture was reported for payment p yet, and it asked for one.
Uncaptured(p) ==
  /\ payments[p] # NoRow /\ payments[p].external > 0
  /\ payments[p].status \notin {"SUCCEEDED", "REFUND_REQUIRED"}

\* Payment p was captured, or has to be given back, after E and Q expired.
SettledPayments(p, E, Q, applied) ==
  [PaymentsAfter(E, Q) EXCEPT ![p] =
     [SettleReservation(@, applied) EXCEPT
        !.status = IF applied THEN "SUCCEEDED" ELSE "REFUND_REQUIRED"]]

\* settleVerifiedPayment, a capture of an order's payment: in time, or late.
SettleOrder(p, t) ==
  LET u == SettleTime(p, t)
      E == DueAmendments(u)
      Q == DueOrders(u)
      o == payments[p].order
      onTime == IsPending(p) /\ IsHeld(o) /\ o \notin Q
  IN
  /\ Uncaptured(p) /\ payments[p].amendment = Nil
  /\ payments' = SettledPayments(p, E, Q, onTime)
  /\ orders' = [OrdersAfter(Q) EXCEPT ![o] = IF onTime THEN PaidOrder(o) ELSE @]
  /\ amendments' = AmendmentsAfter(E)
  /\ live' = LiveAfter(E, Q)
  /\ now' = t
  /\ UNCHANGED <<minimum, lines>>

\* Payment p pays an amendment that still waits for it on the order it was
\* quoted for, after the amendments E expired.
StillAwaited(p, E) ==
  LET m == amendments[payments[p].amendment] IN
  /\ IsPending(p) /\ payments[p].amendment \notin E
  /\ m.status = "AWAITING_PAYMENT"
  /\ orders[m.order].status = "CONFIRMED"
  /\ orders[m.order].revision = m.base

\* settleVerifiedPayment, a capture of an amendment's payment: it is applied with
\* the payment ...
SettleApplied(p, t) ==
  LET a == payments[p].amendment
      u == SettleTime(p, t)
      E == DueAmendments(u)
      Q == DueOrders(u)
      pays == SettledPayments(p, E, Q, TRUE)
  IN
  /\ Uncaptured(p) /\ a # Nil
  /\ StillAwaited(p, E) /\ Applicable(a, pays, E, Q, t)
  /\ Apply(a, [l \in DOMAIN amendments[a].changes |-> 0], pays, E, Q)
  /\ now' = t
  /\ UNCHANGED minimum

\* ... or, when it was lost or is rejected under the savepoint, it ends, its
\* holds go, and the money has to go back.
RejectedAmendments(a, E) ==
  [AmendmentsAfter(E) EXCEPT ![a] = IF a \in E THEN @ ELSE EndedAmendment(a, "CANCELLED")]

RejectedLive(a, E, Q) == LiveAfter(E \cup {a}, Q)

SettleRejected(p, t) ==
  LET a == payments[p].amendment
      u == SettleTime(p, t)
      E == DueAmendments(u)
      Q == DueOrders(u)
  IN
  /\ Uncaptured(p) /\ a # Nil
  /\ ~(StillAwaited(p, E) /\ Applicable(a, SettledPayments(p, E, Q, TRUE), E, Q, t))
  /\ payments' = SettledPayments(p, E, Q, FALSE)
  /\ amendments' = RejectedAmendments(a, E)
  /\ live' = RejectedLive(a, E, Q)
  /\ orders' = OrdersAfter(Q)
  /\ now' = t
  /\ UNCHANGED <<minimum, lines>>

\* settleVerifiedPayment, the provider gives up on a payment that still waits:
\* its amendment, or its unpaid order, goes with it.
SettleFailure(p, t) ==
  LET o == payments[p].order
      a == payments[p].amendment
      u == SettleTime(p, t)
      E == DueAmendments(u)
      Q == DueOrders(u)
      swept == PaymentsAfter(E, Q)
  IN
  /\ payments[p] # NoRow /\ payments[p].external > 0
  /\ swept[p].status = "PENDING"
  /\ payments' = [swept EXCEPT ![p] = ReleasedPayment(@, "FAILED")]
  /\ now' = t
  /\ UNCHANGED minimum
  /\ IF a # Nil
     THEN /\ amendments' = RejectedAmendments(a, E)
          /\ live' = RejectedLive(a, E, Q)
          /\ orders' = OrdersAfter(Q)
          /\ UNCHANGED lines
     ELSE /\ amendments' = AmendmentsAfter(E)
          /\ live' = LiveAfter(E, Q \cup {o})
          /\ orders' = [OrdersAfter(Q) EXCEPT ![o] = CancelledOrder(o)]
          /\ lines' = LinesCancelled(o)
-----------------------------------------------------------------------------
(***************************************************************************)
(* The other commands that change an order or what can be refunded of it.  *)
(***************************************************************************)
\* cancelUnpaidOrder.
CancelUnpaidOrder(o) ==
  LET E == DueAmendments(now)
      Q == DueOrders(now)
  IN
  /\ o \notin Q
  /\ NoneAwaits(o, E)
  /\ \/ IsHeld(o)
     \/ orders[o].status = "CONFIRMED" /\ orders[o].paid = "NOT_REQUIRED"
  /\ payments' = [p \in Payments |->
       IF IsPending(p) /\ payments[p].order = o
       THEN ReleasedPayment(payments[p], "CANCELLED") ELSE PaymentsAfter(E, Q)[p]]
  /\ orders' = [OrdersAfter(Q) EXCEPT ![o] = CancelledOrder(o)]
  /\ lines' = LinesCancelled(o)
  /\ live' = LiveAfter(E, Q \cup {o})
  /\ amendments' = AmendmentsAfter(E)
  /\ UNCHANGED <<now, minimum>>

\* Lines L are taken out of their order in state `state`.
LinesOut(L, state) ==
  [l \in Lines |-> IF l \in L THEN [lines[l] EXCEPT !.state = state] ELSE lines[l]]

WithoutLines(occupied, L) ==
  {u \in occupied : u.kind = "LINE" => u.source \notin L}

\* cancelUnpaidOrderLines at time t: lines leave an unpaid order, whose total and
\* status follow; nothing else is expired first.
CancelUnpaidOrderLines(o, L, t) ==
  LET rows == [l \in Lines |-> IF l \in L THEN [lines[l] EXCEPT !.state = "DROPPED",
                                                               !.left = 0]
                               ELSE lines[l]]
  IN
  /\ L # {} /\ L \subseteq ActiveLines(o)
  /\ UnpaidEditable(o, t)
  /\ NoneAwaits(o, {})
  /\ lines' = rows
  /\ live' = WithoutLines(live, L)
  /\ orders' = [orders EXCEPT ![o] = RefreshedUnpaid(o, rows)]
  /\ now' = t
  /\ UNCHANGED <<minimum, amendments, payments>>

\* The order after lines left it by a command that moves its revision; the last
\* line ends it.
LeftOrder(o, L, back) ==
  [orders[o] EXCEPT !.revision = @ + 1, !.returned = @ + back,
                    !.status = IF ActiveLines(o) \subseteq L THEN "CANCELLED" ELSE @]

\* cancelFreeOrderLines of an order whose total is nothing.
CancelFreeOrderLines(o, L) ==
  LET E == DueAmendments(now)
      Q == DueOrders(now)
  IN
  /\ L # {} /\ L \subseteq ActiveLines(o)
  /\ NoneAwaits(o, E)
  /\ TotalOf(o, lines) = 0
  /\ orders[o].status = "CONFIRMED"
  /\ \/ orders[o].paid = "NOT_REQUIRED"
     \/ orders[o].paid = "SETTLED" /\ orders[o].returned = Captured(o, payments)
  /\ lines' = LinesOut(L, "CANCELLED")
  /\ live' = WithoutLines(LiveAfter(E, Q), L)
  /\ orders' = [OrdersAfter(Q) EXCEPT ![o] = LeftOrder(o, L, 0)]
  /\ amendments' = AmendmentsAfter(E)
  /\ payments' = PaymentsAfter(E, Q)
  /\ UNCHANGED <<now, minimum>>

\* requestOrderRefundGroup: cents of some lines go back, and the lines L leave.
RequestOrderRefund(o, cents, L) ==
  LET E == DueAmendments(now) IN
  /\ orders[o].paid = "SETTLED"
  /\ NoneAwaits(o, E)
  /\ DOMAIN cents # {} /\ DOMAIN cents \subseteq LinesOf(o)
  /\ L \subseteq DOMAIN cents \cap ActiveLines(o)
  /\ \A l \in DOMAIN cents :
       /\ cents[l] <= lines[l].left
       /\ l \notin L => cents[l] > 0
  /\ SumOf(cents) <= Captured(o, payments) - orders[o].returned
  /\ lines' = [l \in Lines |->
       IF l \in DOMAIN cents THEN [LinesOut(L, "CANCELLED")[l] EXCEPT !.left = @ - cents[l]]
       ELSE lines[l]]
  /\ live' = WithoutLines(LiveAfter(E, {}), L)
  /\ orders' = [orders EXCEPT ![o] = LeftOrder(o, L, SumOf(cents))]
  /\ amendments' = AmendmentsAfter(E)
  /\ payments' = PaymentsAfter(E, {})
  /\ UNCHANGED <<now, minimum>>
-----------------------------------------------------------------------------
\* The refunds an employee may approve of amendment a.
Approvals(a) ==
  {f \in [DOMAIN amendments[a].changes -> RefundCents \cup {0}] :
     \A l \in DOMAIN f : f[l] <= amendments[a].changes[l].refund}

Amend ==
  \/ \E a \in Amendments, o \in Orders, C \in SUBSET Lines, t \in Clock :
       \E new \in [C -> Offers] : PreviewOrderAmendment(a, o, new, t)
  \/ \E a \in Amendments, t \in Clock :
       \/ amendments[a] # NoRow /\ \E f \in Approvals(a) : ConfirmFree(a, f, t)
       \/ ConfirmSupplement(a, t)
  \/ \E a \in Amendments : CancelOrderAmendment(a)

Pay ==
  \E p \in Payments, t \in Clock :
    \/ \E w \in WalletParts :
         \/ \E o \in Orders : BeginOrderPayment(p, o, w, t)
         \/ \E a \in Amendments : BeginAmendmentPayment(p, a, w, t)
    \/ SettleOrder(p, t)
    \/ SettleApplied(p, t)
    \/ SettleRejected(p, t)
    \/ SettleFailure(p, t)

Leave ==
  \E o \in Orders :
    \/ CancelUnpaidOrder(o)
    \/ \E L \in SUBSET Lines :
         \/ \E t \in Clock : CancelUnpaidOrderLines(o, L, t)
         \/ CancelFreeOrderLines(o, L)
         \/ \E C \in SUBSET Lines :
              \E cents \in [C -> RefundCents] : RequestOrderRefund(o, cents, L)

Next ==
  \/ Tick
  \/ \E m \in Minimums : UpdateVenue(m)
  \/ ExpireVenueAmendments
  \/ ExpireVenueHolds
  \/ \E b \in Blocks, s \in BlockSlots : OccupyCourt(b, s) \/ ReleaseCourtOccupancy(b, s)
  \/ Amend
  \/ Pay
  \/ Leave

Spec == Init /\ [][Next]_vars

\* The worker of server.ts expires amendments every 15 seconds and time goes on;
\* nobody is obliged to pay, cancel or confirm.
Fairness == WF_vars(Tick) /\ WF_vars(ExpireVenueAmendments)

FairSpec == Spec /\ Fairness
-----------------------------------------------------------------------------
(***************************************************************************)
(* Properties.                                                             *)
(***************************************************************************)
\* Every variable holds rows of its table, and references refer to rows.
TypeOK ==
  /\ now \in 0 .. MaxTime
  /\ minimum \in Minimums
  /\ orders \in [Orders -> OrderRec]
  /\ lines \in [Lines -> LineRec]
  /\ DOMAIN amendments = Amendments
  /\ \A a \in Amendments : amendments[a] # NoRow =>
       /\ amendments[a].order \in Orders
       /\ DOMAIN amendments[a].changes \subseteq LinesOf(amendments[a].order)
       /\ amendments[a].status = "AWAITING_PAYMENT" <=> amendments[a].holdUntil # 0
  /\ payments \in [Payments -> PaymentRec \cup {NoRow}]
  /\ \A p \in Payments :
       payments[p] # NoRow /\ payments[p].amendment # Nil =>
         /\ amendments[payments[p].amendment] # NoRow
         /\ amendments[payments[p].amendment].order = payments[p].order

\* The lines that hold a court: the active ones of held and confirmed orders.
HoldingLines ==
  {l \in Lines : /\ lines[l].state = "ACTIVE"
                 /\ orders[OrderOf[l]].status \in {"HELD", "CONFIRMED"}}

\* amendments.ts:424-487: whatever is amended, applied, rejected or cancelled, no two
\* live occupancies of a court overlap, and the lines of live orders hold exactly
\* the intervals they now stand for.
CourtsFollowLines ==
  /\ \A u, v \in live : u # v => ~Overlap(u.slot, v.slot)
  /\ {u \in live : u.kind = "LINE"} = {Line(l, lines[l].slot) : l \in HoldingLines}

Covered(s, occupied) ==
  \A x \in s.start .. s.end - 1 :
    \E u \in occupied : u.slot.court = s.court /\ u.slot.start <= x /\ x < u.slot.end

\* amendments.ts:663: while an amendment waits for its payment, its order is
\* confirmed at the revision it was quoted for, no other amendment of the order
\* waits, and the courts it needs are covered by what it staged and the lines that
\* move; nothing else is staged.
AwaitingKeepsItsCourts ==
  /\ \A u \in live : u.kind = "STAGED" => IsAwaiting(u.source)
  /\ \A a \in Amendments : IsAwaiting(a) =>
       LET m == amendments[a] IN
       /\ orders[m.order].status = "CONFIRMED" /\ orders[m.order].revision = m.base
       /\ \A b \in Amendments : IsAwaiting(b) /\ amendments[b].order = m.order => b = a
       /\ \A l \in DOMAIN m.changes :
            Covered(m.changes[l].new, Own(a, m.changes) \cap live)

\* payments.ts:279: the payment of an amendment succeeded exactly when the
\* amendment was applied, with the whole supplement; money that came for one that
\* was lost or rejected has to go back, and its wallet part is released.
AmendmentsFollowPayments ==
  /\ \A p \in Payments : payments[p] # NoRow =>
       LET a == payments[p].amendment IN
       /\ payments[p].status = "PENDING" /\ a # Nil => IsAwaiting(a)
       /\ payments[p].status = "SUCCEEDED" /\ a # Nil =>
            /\ amendments[a].status = "APPLIED"
            /\ Amount(payments[p]) = amendments[a].supplement
       /\ payments[p].status \notin {"PENDING", "SUCCEEDED"} /\ a # Nil =>
            amendments[a].status \in {"CANCELLED", "EXPIRED"}
       /\ payments[p].wallet > 0 =>
            payments[p].reserve = CASE payments[p].status = "PENDING" -> "RESERVED"
                                    [] payments[p].status = "SUCCEEDED" -> "CONSUMED"
                                    [] OTHER -> "RELEASED"
  /\ \A a \in Amendments :
       amendments[a] # NoRow /\ amendments[a].status = "APPLIED" /\ amendments[a].supplement > 0 =>
         Cardinality({p \in Payments : payments[p] # NoRow /\ payments[p].amendment = a
                                       /\ payments[p].status = "SUCCEEDED"}) = 1

\* amendments.ts:336: however price differences were netted and refunds approved or
\* refused, what can still be refunded of the lines of a paid order and what was
\* given back add up to what was captured, and no order costs more than that.
CapsAreFunded ==
  /\ \A l \in Lines : lines[l].left >= 0
  /\ \A o \in Orders :
       /\ orders[o].status = "CONFIRMED" => orders[o].paid # "UNPAID"
       /\ orders[o].paid = "SETTLED" <=> Captured(o, payments) > 0
       /\ orders[o].paid # "UNPAID" =>
            /\ SumOf([l \in LinesOf(o) |-> lines[l].left]) + orders[o].returned
                 = Captured(o, payments)
            /\ TotalOf(o, lines) <= Captured(o, payments)

\* amendments.ts:424-496: a line takes another interval or price only as an
\* amendment of its order agreed, made for the order as it is and applied before
\* its deadline and before anything it moves or takes has begun.
ChangesAreAgreed ==
  [][\A l \in Lines :
       <<lines'[l].slot, lines'[l].cents>> # <<lines[l].slot, lines[l].cents>> =>
         \E a \in Amendments :
           LET m == amendments[a] IN
           /\ m # NoRow /\ m.status # "APPLIED" /\ amendments'[a].status = "APPLIED"
           /\ m.base = orders[OrderOf[l]].revision /\ l \in DOMAIN m.changes
           /\ m.changes[l].old = lines[l].slot /\ m.changes[l].new = lines'[l].slot
           /\ now' < (IF m.status = "QUOTED" THEN m.expiresAt ELSE m.holdUntil)
           /\ now' < lines[l].slot.start /\ now' < lines'[l].slot.start]_vars

\* server.ts:924: the worker ends every wait for a supplement whose deadline comes:
\* neither the staged courts nor the order stay blocked.
StagedHoldsEnd ==
  \A a \in Amendments :
    IsAwaiting(a) /\ amendments[a].holdUntil <= MaxTime ~> ~IsAwaiting(a)
=============================================================================
