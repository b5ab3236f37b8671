---------------------------- MODULE CourtBooking ----------------------------
(***************************************************************************)
(* Quotes, combined court orders, their court occupancies, and the initial *)
(* payment of an order in one tenant of Tennis PMS:                        *)
(*   packages/db/src/tennis/booking.ts, payments.ts, payment-lifecycle.ts, *)
(*   channel-transactions.ts and inventory.ts.                             *)
(*                                                                         *)
(* Every command of booking.ts and payments.ts runs in one PostgreSQL      *)
(* transaction that first takes the tenant's advisory lock, so each is one *)
(* action here.  A command that fails rolls back and changes nothing: its  *)
(* error paths are the states in which the action is not enabled.  Reads   *)
(* and replays that only expire due holds are the action ExpireVenueHolds. *)
(*                                                                         *)
(* An order is named by its quote (tennis.orders.quote_id is UNIQUE), and  *)
(* a line of an order by its court interval (the lines of one quote never  *)
(* overlap).  Released occupancies are dropped from `live`.                *)
(***************************************************************************)
EXTENDS Integers, FiniteSets, FiniteSetsExt

CONSTANTS
  Quotes,       \* identities of quotes, and of the orders made from them
  Customers,    \* customers of the tenant
  Venues,       \* venues of the tenant
  Intervals,    \* court intervals: [venue, court, start, end]
  Selections,   \* priced selections the catalog can produce (catalog.ts)
  Policies,     \* booking policies an administrator may have saved
  Blocks,       \* identities of occupancies made without an order
  Payments,     \* identities of payment attempts
  Txns,         \* provider transaction numbers
  EventIds,     \* provider event numbers
  StaffHolds,   \* lengths of unpaid holds an employee may give, in minutes
  WalletParts,  \* wallet amounts a payment may ask for
  Credited,     \* money credited to each customer's wallet before the start
  MaxElapse,    \* bound: minutes that may pass inside one transaction
  MaxTime,      \* bound: the last minute of a behaviour
  Nil           \* SQL NULL, and a row that does not exist

VARIABLES
  now,          \* the database clock, in minutes
  quotes,       \* tennis.quotes
  orders,       \* tennis.orders with the cancelled lines of each order
  live,         \* rows of tennis.occupancies with released_at IS NULL
  payments,     \* tennis.payment_attempts with their wallet reservation
  claims,       \* tennis.channel_transactions / external_payment_receipts
  events,       \* tennis.payment_events
  exceptions    \* tennis.financial_exceptions

vars == <<now, quotes, orders, live, payments, claims, events, exceptions>>

(***************************************************************************)
(* Assumptions on the constants.                                           *)
(***************************************************************************)
Selection == [venue: Venues, slots: SUBSET Intervals, total: Nat]
Policy    == [quoteMinutes: Nat \ {0}, holdMinutes: Nat \ {0}]

Overlap(i, j) == i.court = j.court /\ i.start < j.end /\ i.end > j.start

QuoteRec == [customer: Customers, selection: Selections, expiresAt: Nat,
             holdMinutes: Nat]

OrderRec == [status: {"HELD", "CONFIRMED", "EXPIRED", "CANCELLED"},
             paid: {"UNPAID", "PAID", "PARTIALLY_REFUNDED", "REFUNDED",
                    "NOT_REQUIRED"},
             holdUntil: Nat,       \* 0 stands for NULL
             revision: Nat,
             cancelled: SUBSET Intervals]

PaymentRec == [order: Quotes, external: Nat, wallet: Nat,
               status: {"PENDING", "SUCCEEDED", "FAILED", "EXPIRED",
                        "CANCELLED", "REFUND_REQUIRED"},
               txn: Txns \cup {Nil},
               reserve: {"NONE", "RESERVED", "CONSUMED", "RELEASED"}]

EventRec == [id: EventIds, payment: Payments, status: {"SUCCEEDED", "FAILED"},
             txn: Txns]

Occupancy == [kind: {"BOOKING"}, source: Quotes, slot: Intervals]
             \cup [kind: {"MANUAL"}, source: Blocks, slot: Intervals]

Exception == [payment: Payments, kind: {"LATE_PAYMENT", "DUPLICATE_PAYMENT"},
              txn: Txns]

\* NULL is not the value of a row or of a key.
ASSUME NilAssumption ==
  /\ Nil \notin Payments \cup Txns
  /\ Nil \notin QuoteRec
  /\ Nil \notin OrderRec
  /\ Nil \notin PaymentRec

\* Court intervals are half open and not empty (court-interval.ts).
ASSUME IntervalsAssumption ==
  /\ Intervals \subseteq [venue: Venues, court: {i.court : i \in Intervals},
                          start: Nat, end: Nat]
  /\ \A i \in Intervals : i.start < i.end

\* priceSelectionInTransaction: 1 or more lines of one venue, no two overlap.
ASSUME SelectionsAssumption ==
  /\ Selections \subseteq Selection
  /\ \A s \in Selections :
       /\ s.slots # {}
       /\ \A i \in s.slots : i.venue = s.venue
       /\ \A i, j \in s.slots : i # j => ~Overlap(i, j)

ASSUME PoliciesAssumption == Policies \subseteq Policy

ASSUME AmountsAssumption ==
  /\ WalletParts \subseteq Nat
  /\ Credited \in [Customers -> Nat]

ASSUME TimeAssumption ==
  MaxElapse \in Nat /\ MaxTime \in Nat /\ StaffHolds \subseteq Nat \ {0}
-----------------------------------------------------------------------------
(***************************************************************************)
(* What the rows say.                                                      *)
(***************************************************************************)
Exists(q) == orders[q] # Nil
IsHeld(q) == Exists(q) /\ orders[q].status = "HELD"
Slots(q)  == quotes[q].selection.slots
Total(q)  == quotes[q].selection.total
Venue(q)  == quotes[q].selection.venue

IsPending(p) == payments[p] # Nil /\ payments[p].status = "PENDING"

\* walletBalanceInTransaction, availableCents: what the credits, reservations
\* and debits of a customer's wallet leave, given the payment rows `pays`.
Available(c, pays) ==
  Credited[c] - MapThenSumSet(LAMBDA p : pays[p].wallet,
    {p \in Payments : /\ pays[p] # Nil
                      /\ quotes[pays[p].order].customer = c
                      /\ pays[p].reserve \in {"RESERVED", "CONSUMED"}})

\* The check of `available` and the database constraint behind it
\* (court_occupancy_no_overlap): none of the slots meets a live occupancy.
Fault_NoConflict(slots, occupancies) ==
  \A i \in slots, o \in occupancies :
    ~(i.court = o.slot.court /\ i.start >= o.slot.start /\ i.start < o.slot.end)
NoConflict(slots, occupancies) ==
  \A i \in slots, o \in occupancies : ~Overlap(i, o.slot)

\* The occupancy of a line of order q, and one made without an order.
Line(q, i)  == [kind |-> "BOOKING", source |-> q, slot |-> i]
Block(b, i) == [kind |-> "MANUAL", source |-> b, slot |-> i]

\* The clock readings a transaction may still make before it commits.
Clock == {t \in now .. now + MaxElapse : t <= MaxTime}
-----------------------------------------------------------------------------
(***************************************************************************)
(* Pieces of transactions, as the rows they leave.                         *)
(***************************************************************************)
\* settleWalletReservation acts only on what is still reserved.
SettleReservation(pay, consume) ==
  IF pay.reserve = "RESERVED"
  THEN [pay EXCEPT !.reserve = IF consume THEN "CONSUMED" ELSE "RELEASED"]
  ELSE pay

Fault_ReleasePendingPayments(Q, status) ==
  [p \in Payments |->
     IF IsPending(p) /\ payments[p].order \in Q
     THEN [payments[p] EXCEPT !.status = status]
     ELSE payments[p]]
ReleasePendingPayments(Q, status) ==
  [p \in Payments |->
     IF IsPending(p) /\ payments[p].order \in Q
     THEN [SettleReservation(payments[p], FALSE) EXCEPT !.status = status]
     ELSE payments[p]]

Fault_ReleaseOrderInventory(Q) == live
ReleaseOrderInventory(Q) ==
  {o \in live : o.kind = "BOOKING" => o.source \notin Q}

\* The orders of venue v whose hold has lapsed at time t.
Fault_Due(v, t) ==
  {q \in Quotes : IsHeld(q) /\ Venue(q) = v /\ orders[q].holdUntil = t}
Due(v, t) ==
  {q \in Quotes : IsHeld(q) /\ Venue(q) = v /\ orders[q].holdUntil <= t}

\* The order rows after expireVenueHolds has expired the orders E.
ExpiredOrders(E) ==
  [q \in Quotes |->
     IF q \in E THEN [orders[q] EXCEPT !.status = "EXPIRED", !.holdUntil = 0,
                                      !.revision = @ + 1]
     ELSE orders[q]]

CancelledOrder(q) ==
  [orders[q] EXCEPT !.status = "CANCELLED", !.holdUntil = 0,
                    !.revision = @ + 1, !.cancelled = Slots(q)]

PaidOrder(q) ==
  [orders[q] EXCEPT !.status = "CONFIRMED", !.paid = "PAID", !.holdUntil = 0,
                    !.revision = @ + 1]
-----------------------------------------------------------------------------
Init ==
  /\ now = 0
  /\ quotes = [q \in Quotes |-> Nil]
  /\ orders = [q \in Quotes |-> Nil]
  /\ live = {}
  /\ payments = [p \in Payments |-> Nil]
  /\ claims = [t \in Txns |-> Nil]
  /\ events = {}
  /\ exceptions = {}

\* Minutes pass between transactions.
Tick ==
  /\ now < MaxTime
  /\ now' = now + 1
  /\ UNCHANGED <<quotes, orders, live, payments, claims, events, exceptions>>

\* expireVenueHolds: the 15 s worker (expireDueOrders), every read of an order
\* or payment, and every replayed command of the venue.
ExpireVenueHolds(v) ==
  LET E == Due(v, now) IN
  /\ orders' = ExpiredOrders(E)
  /\ payments' = ReleasePendingPayments(E, "EXPIRED")
  /\ live' = ReleaseOrderInventory(E)
  /\ UNCHANGED <<now, quotes, claims, events, exceptions>>

\* createQuote: prices are fixed, nothing is held.
CreateQuote(q, c, s, policy) ==
  LET E == Due(s.venue, now) IN
  /\ quotes[q] = Nil
  /\ \A i \in s.slots : i.start > now
  /\ NoConflict(s.slots, ReleaseOrderInventory(E))
  /\ quotes' = [quotes EXCEPT ![q] =
                  [customer |-> c, selection |-> s,
                   expiresAt |-> now + policy.quoteMinutes,
                   holdMinutes |-> policy.holdMinutes]]
  /\ orders' = ExpiredOrders(E)
  /\ payments' = ReleasePendingPayments(E, "EXPIRED")
  /\ live' = ReleaseOrderInventory(E)
  /\ UNCHANGED <<now, claims, events, exceptions>>

\* The end of the hold confirmQuote gives at time t: the quoted payment time,
\* or the deadline an employee sets.  MaxTime bounds both.
HoldEnds(q, t) ==
  {u \in {t + m : m \in StaffHolds \cup {quotes[q].holdMinutes}} : u <= MaxTime}

\* confirmQuote of a quote not used yet.  Confirming it again returns the
\* same order, or is refused: nothing changes but what has expired.
ConfirmQuote(q, t) ==
  LET E    == Due(Venue(q), now)
      free == Total(q) = 0
  IN
  /\ quotes[q] # Nil
  /\ ~Exists(q)
  /\ quotes[q].expiresAt > t
  /\ \A i \in Slots(q) : i.start > now
  /\ NoConflict(Slots(q), ReleaseOrderInventory(E))
  /\ now' = t
  /\ \E until \in HoldEnds(q, t) :
       orders' = [ExpiredOrders(E) EXCEPT ![q] =
                   [status    |-> IF free THEN "CONFIRMED" ELSE "HELD",
                    paid      |-> IF free THEN "NOT_REQUIRED" ELSE "UNPAID",
                    holdUntil |-> IF free THEN 0 ELSE until,
                    revision  |-> 1,
                    cancelled |-> {}]]
  /\ live' = ReleaseOrderInventory(E) \cup {Line(q, i) : i \in Slots(q)}
  /\ payments' = ReleasePendingPayments(E, "EXPIRED")
  /\ UNCHANGED <<quotes, claims, events, exceptions>>

\* cancelUnpaidOrder with the current revision; on an order already cancelled
\* or expired it only answers.
CancelUnpaidOrder(q) ==
  LET E == Due(Venue(q), now) IN
  /\ Exists(q)
  /\ q \notin E
  /\ \/ orders[q].status = "HELD" /\ orders[q].paid = "UNPAID"
     \/ orders[q].status = "CONFIRMED" /\ orders[q].paid = "NOT_REQUIRED"
  /\ orders' = [ExpiredOrders(E) EXCEPT ![q] = CancelledOrder(q)]
  /\ payments' = [p \in Payments |->
                   IF IsPending(p) /\ payments[p].order = q
                   THEN ReleasePendingPayments({q}, "CANCELLED")[p]
                   ELSE ReleasePendingPayments(E, "EXPIRED")[p]]
  /\ live' = ReleaseOrderInventory(E \cup {q})
  /\ UNCHANGED <<now, quotes, claims, events, exceptions>>

\* The order row after the lines L were cancelled; the last line ends the order.
Fault_WithoutLines(q, L) ==
  [orders[q] EXCEPT !.cancelled = @ \cup L,
                    !.status = IF Slots(q) \subseteq orders[q].cancelled \cup L
                               THEN "CANCELLED" ELSE @]
WithoutLines(q, L) ==
  [orders[q] EXCEPT !.cancelled = @ \cup L, !.revision = @ + 1,
                    !.status = IF Slots(q) \subseteq orders[q].cancelled \cup L
                               THEN "CANCELLED" ELSE @]

\* The live occupancies after the orders E expired and lines L of q were cancelled.
ReleaseLines(E, q, L) ==
  ReleaseOrderInventory(E) \ {Line(q, i) : i \in L}

\* cancelFreeOrderLines: an employee cancels lines that cost nothing.
CancelFreeOrderLines(q, L) ==
  LET E == Due(Venue(q), now) IN
  /\ Exists(q)
  /\ orders[q].status = "CONFIRMED"
  /\ Total(q) = 0
  /\ orders[q].paid \in {"NOT_REQUIRED", "REFUNDED"}
  /\ L # {} /\ L \subseteq Slots(q) \ orders[q].cancelled
  /\ orders' = [ExpiredOrders(E) EXCEPT ![q] = WithoutLines(q, L)]
  /\ live' = ReleaseLines(E, q, L)
  /\ payments' = ReleasePendingPayments(E, "EXPIRED")
  /\ UNCHANGED <<now, quotes, claims, events, exceptions>>
-----------------------------------------------------------------------------
(***************************************************************************)
(* Payment of an order.                                                    *)
(***************************************************************************)
\* One payment of an order waits at a time.
NoneWaits(q) == \A r \in Payments : IsPending(r) => payments[r].order # q

\* The wallet part w of a payment of order q fits its price and the wallet.
Fault_Affordable(q, w, pays) == w <= Available(quotes[q].customer, pays)
Affordable(q, w, pays) ==
  w <= Total(q) /\ w <= Available(quotes[q].customer, pays)

\* beginOrderPayment asks for w cents of the wallet and the rest of a provider;
\* without a rest the wallet pays at once.  The hold is read again at time t.
BeginOrderPayment(p, q, w, t) ==
  LET E        == Due(Venue(q), now)
      swept    == ReleasePendingPayments(E, "EXPIRED")
      external == Total(q) - w
      paid     == external = 0
  IN
  /\ payments[p] = Nil
  /\ IsHeld(q) /\ q \notin E
  /\ orders[q].paid = "UNPAID"
  /\ NoneWaits(q)
  /\ Affordable(q, w, swept)
  /\ orders[q].holdUntil > t
  /\ now' = t
  /\ payments' = [swept EXCEPT ![p] =
                    [order |-> q, external |-> external, wallet |-> w,
                     status |-> IF paid THEN "SUCCEEDED" ELSE "PENDING",
                     txn |-> Nil,
                     reserve |-> CASE w = 0 -> "NONE"
                                   [] w > 0 /\ paid -> "CONSUMED"
                                   [] OTHER -> "RESERVED"]]
  /\ orders' = [ExpiredOrders(E) EXCEPT ![q] = IF paid THEN PaidOrder(q) ELSE @]
  /\ live' = ReleaseOrderInventory(E)
  /\ UNCHANGED <<quotes, claims, events, exceptions>>

\* The orders a settlement expires on its way: what is due at its start and,
\* when its order q is still held then, what is due at its last reading t.
Fault_DueAtSettlement(q, t) == Due(Venue(q), now)
DueAtSettlement(q, t) ==
  LET first == Due(Venue(q), now) IN
  IF IsHeld(q) /\ q \notin first THEN Due(Venue(q), t) ELSE first

\* A verified event that is new: the payment asked the provider for money and
\* no event of this number was processed.  An event seen before is a replay
\* when it says the same and is refused when it does not.
NewEvent(e) ==
  /\ payments[e.payment] # Nil
  /\ payments[e.payment].external > 0
  /\ \A old \in events : old.id # e.id

Record(e) == events' = events \cup {e}

\* claimChannelTransaction and external_payment_receipts: one capture belongs
\* to one payment for good.
Claim(e) ==
  /\ claims[e.txn] \in {Nil, e.payment}
  /\ claims' = [claims EXCEPT ![e.txn] = e.payment]

\* After the orders E expired, payment p still waits for its held, unpaid order.
Fault_StillPayable(p, E) == payments[p].status # "FAILED"
StillPayable(p, E) ==
  LET q == payments[p].order IN
  payments[p].status = "PENDING" /\ IsHeld(q) /\ q \notin E /\ orders[q].paid = "UNPAID"

\* A failure counts only while the payment waits.
Fault_StillWaits(p, E) ==
  payments[p].status \in {"PENDING", "SUCCEEDED"} /\ payments[p].order \notin E
StillWaits(p, E) == payments[p].status = "PENDING" /\ payments[p].order \notin E

\* financialException: the money of capture e has to go back.
Fault_FinancialException(e, kind) == exceptions
FinancialException(e, kind) ==
  exceptions \cup {[payment |-> e.payment, kind |-> kind, txn |-> e.txn]}

\* settleVerifiedPayment, a capture while the order is held and unpaid.
SettleOnTime(e, t) ==
  LET p == e.payment
      q == payments[p].order
      E == DueAtSettlement(q, t)
  IN
  /\ NewEvent(e) /\ e.status = "SUCCEEDED"
  /\ payments[p].txn = Nil
  /\ StillPayable(p, E)
  /\ Claim(e) /\ Record(e)
  /\ now' = t
  /\ payments' = [ReleasePendingPayments(E, "EXPIRED") EXCEPT ![p] =
                    [SettleReservation(@, TRUE) EXCEPT !.status = "SUCCEEDED",
                                                       !.txn = e.txn]]
  /\ orders' = [ExpiredOrders(E) EXCEPT ![q] = PaidOrder(q)]
  /\ live' = ReleaseOrderInventory(E)
  /\ UNCHANGED <<quotes, exceptions>>

\* settleVerifiedPayment, the first capture of a payment whose order was lost
\* meanwhile: the money has to go back.
SettleLate(e, t) ==
  LET p == e.payment
      q == payments[p].order
      E == DueAtSettlement(q, t)
  IN
  /\ NewEvent(e) /\ e.status = "SUCCEEDED"
  /\ payments[p].txn = Nil
  /\ ~StillPayable(p, E)
  /\ Claim(e) /\ Record(e)
  /\ now' = t
  /\ payments' = [ReleasePendingPayments(E, "EXPIRED") EXCEPT ![p] =
                    [SettleReservation(@, FALSE) EXCEPT
                       !.status = "REFUND_REQUIRED", !.txn = e.txn]]
  /\ exceptions' = FinancialException(e, "LATE_PAYMENT")
  /\ orders' = ExpiredOrders(E)
  /\ live' = ReleaseOrderInventory(E)
  /\ UNCHANGED quotes

\* settleVerifiedPayment, a capture for a payment that has one: the same again
\* under another event number, or a second capture, which has to go back.
SettleAgain(e, t) ==
  LET p == e.payment
      E == DueAtSettlement(payments[p].order, t)
  IN
  /\ NewEvent(e) /\ e.status = "SUCCEEDED"
  /\ payments[p].txn # Nil
  /\ Claim(e) /\ Record(e)
  /\ now' = t
  /\ exceptions' = IF payments[p].txn = e.txn THEN exceptions
                    ELSE FinancialException(e, "DUPLICATE_PAYMENT")
  /\ payments' = ReleasePendingPayments(E, "EXPIRED")
  /\ orders' = ExpiredOrders(E)
  /\ live' = ReleaseOrderInventory(E)
  /\ UNCHANGED quotes

\* settleVerifiedPayment, the provider gives up on a payment.  Only a payment
\* still pending takes its order along; a later failure is ignored.
SettleFailure(e, t) ==
  LET p == e.payment
      q == payments[p].order
      E == DueAtSettlement(q, t)
      fails == StillWaits(p, E)
  IN
  /\ NewEvent(e) /\ e.status = "FAILED"
  /\ Record(e)
  /\ now' = t
  /\ payments' = [ReleasePendingPayments(E, "EXPIRED") EXCEPT ![p] =
                    IF fails THEN [SettleReservation(@, FALSE) EXCEPT !.status = "FAILED"]
                    ELSE @]
  /\ orders' = [ExpiredOrders(E) EXCEPT ![q] = IF fails THEN CancelledOrder(q) ELSE @]
  /\ live' = ReleaseOrderInventory(IF fails THEN E \cup {q} ELSE E)
  /\ UNCHANGED <<quotes, claims, exceptions>>
-----------------------------------------------------------------------------
(***************************************************************************)
(* Occupancies without an order: maintenance and courses (inventory.ts).   *)
(* They do not expire holds first, and they never touch a row an order     *)
(* manages.  The caller names the revision it read: it is the current one. *)
(***************************************************************************)
OccupyCourt(b, i) ==
  /\ \A o \in live : o.kind = "MANUAL" => o.source # b
  /\ NoConflict({i}, live)
  /\ live' = live \cup {Block(b, i)}
  /\ UNCHANGED <<now, quotes, orders, payments, claims, events, exceptions>>

RescheduleCourtOccupancy(b, i, j) ==
  /\ Block(b, i) \in live
  /\ NoConflict({j}, live \ {Block(b, i)})
  /\ live' = (live \ {Block(b, i)}) \cup {Block(b, j)}
  /\ UNCHANGED <<now, quotes, orders, payments, claims, events, exceptions>>

ReleaseCourtOccupancy(b, i) ==
  /\ Block(b, i) \in live
  /\ live' = live \ {Block(b, i)}
  /\ UNCHANGED <<now, quotes, orders, payments, claims, events, exceptions>>
-----------------------------------------------------------------------------
Booking ==
  \/ \E q \in Quotes, c \in Customers, s \in Selections, policy \in Policies :
       CreateQuote(q, c, s, policy)
  \/ \E q \in Quotes, t \in Clock : ConfirmQuote(q, t)
  \/ \E q \in Quotes : CancelUnpaidOrder(q)
  \/ \E q \in Quotes, L \in SUBSET Intervals : CancelFreeOrderLines(q, L)

Settlement(e, t) ==
  \/ SettleOnTime(e, t)
  \/ SettleLate(e, t)
  \/ SettleAgain(e, t)
  \/ SettleFailure(e, t)

Inventory ==
  \E b \in Blocks, i \in Intervals :
    \/ OccupyCourt(b, i)
    \/ ReleaseCourtOccupancy(b, i)
    \/ \E j \in Intervals : RescheduleCourtOccupancy(b, i, j)

Next ==
  \/ Tick
  \/ \E v \in Venues : ExpireVenueHolds(v)
  \/ Booking
  \/ \E p \in Payments, q \in Quotes, w \in WalletParts, t \in Clock :
       BeginOrderPayment(p, q, w, t)
  \/ \E e \in EventRec, t \in Clock : Settlement(e, t)
  \/ Inventory

Spec == Init /\ [][Next]_vars

\* The worker of server.ts runs every 15 seconds and time goes on; no customer,
\* employee or provider is obliged to act.
Fairness == WF_vars(Tick) /\ \A v \in Venues : WF_vars(ExpireVenueHolds(v))

FairSpec == Spec /\ Fairness
-----------------------------------------------------------------------------
(***************************************************************************)
(* Properties.                                                             *)
(***************************************************************************)
\* Every variable holds rows of its table, and every foreign key refers to a
\* row; the cancelled lines of an order are lines of it.
TypeOK ==
  /\ now \in 0 .. MaxTime
  /\ quotes \in [Quotes -> QuoteRec \cup {Nil}]
  /\ orders \in [Quotes -> OrderRec \cup {Nil}]
  /\ live \subseteq Occupancy
  /\ payments \in [Payments -> PaymentRec \cup {Nil}]
  /\ claims \in [Txns -> Payments \cup {Nil}]
  /\ events \subseteq EventRec
  /\ exceptions \subseteq Exception
  /\ \A q \in Quotes : Exists(q) =>
       quotes[q] # Nil /\ orders[q].cancelled \subseteq Slots(q)
  /\ \A p \in Payments : payments[p] # Nil => Exists(payments[p].order)

\* No two live occupancies of a court overlap, whoever made them.
NoDoubleBooking ==
  \A a, b \in live : a # b => ~Overlap(a.slot, b.slot)

\* The slots order q has a right to: those of a held or confirmed order that
\* were not cancelled.
ActiveSlots(q) ==
  IF Exists(q) /\ orders[q].status \in {"HELD", "CONFIRMED"}
  THEN Slots(q) \ orders[q].cancelled
  ELSE {}

\* booking.ts: an order keeps exactly the occupancies of its active lines, all
\* of them or none; what expired or was cancelled holds no court back.
InventoryMatchesOrders ==
  \A q \in Quotes, i \in Intervals : Line(q, i) \in live <=> i \in ActiveSlots(q)

\* payments.ts: a payment waits only for an order that is held and unpaid, and
\* an order never has two payments that wait or succeeded.
PaymentsMatchOrders ==
  /\ \A p \in Payments : IsPending(p) =>
       IsHeld(payments[p].order) /\ orders[payments[p].order].paid = "UNPAID"
  /\ \A p, r \in Payments :
       /\ payments[p] # Nil /\ payments[r] # Nil
       /\ payments[p].order = payments[r].order
       /\ payments[p].status \in {"PENDING", "SUCCEEDED"}
       /\ payments[r].status \in {"PENDING", "SUCCEEDED"}
       => p = r

\* Every payment asks for the whole price of its order, an order is PAID exactly
\* when one of them succeeded, and it is confirmed without one only when it
\* costs nothing.
PaidOrdersAreFunded ==
  /\ \A p \in Payments : payments[p] # Nil =>
       payments[p].wallet + payments[p].external = Total(payments[p].order)
  /\ \A q \in Quotes : Exists(q) =>
       /\ orders[q].paid = "PAID" <=>
            \E p \in Payments : /\ payments[p] # Nil
                               /\ payments[p].order = q
                               /\ payments[p].status = "SUCCEEDED"
       /\ orders[q].status = "CONFIRMED" /\ orders[q].paid # "PAID" => Total(q) = 0

\* wallet-store.ts under payments.ts: wallet money is held back exactly while
\* the payment waits, spent exactly when it succeeded, and given back otherwise.
ReservationsFollowPayments ==
  \A p \in Payments : payments[p] # Nil =>
    payments[p].reserve =
      CASE payments[p].wallet = 0 -> "NONE"
        [] payments[p].wallet > 0 /\ payments[p].status = "PENDING" -> "RESERVED"
        [] payments[p].wallet > 0 /\ payments[p].status = "SUCCEEDED" -> "CONSUMED"
        [] OTHER -> "RELEASED"

\* payments.ts: payments, orders and the wallet agree after every event.
MoneyFollowsOrders ==
  PaymentsMatchOrders /\ PaidOrdersAreFunded /\ ReservationsFollowPayments

\* Does the order of payment p keep the money of capture t?
Funds(p, t) == payments[p].status = "SUCCEEDED" /\ payments[p].txn = t

\* Every capture that was reported funds the order of its payment or is an open
\* exception to be refunded, and never both; nothing else is to be refunded.
EveryCaptureAccounted ==
  /\ \A t \in Txns : claims[t] # Nil =>
       /\ payments[claims[t]] # Nil
       /\ Funds(claims[t], t) <=>
            ~\E x \in exceptions : x.txn = t /\ x.payment = claims[t]
  /\ \A x \in exceptions : claims[x.txn] = x.payment

\* A provider transaction number on a payment was claimed for that payment, so
\* no capture funds two payments.  A payment has one as soon as a capture was
\* claimed for it, and when it succeeded with money from the provider.
CapturesHaveOneOwner ==
  /\ \A p \in Payments : payments[p] # Nil =>
       /\ payments[p].txn # Nil => claims[payments[p].txn] = p
       /\ payments[p].status = "SUCCEEDED" /\ payments[p].external > 0
            => payments[p].txn # Nil
  /\ \A t \in Txns : claims[t] # Nil => payments[claims[t]].txn # Nil

\* channel-transactions.ts and payments.ts: no capture is lost or counted twice.
CapturesAreAccounted == EveryCaptureAccounted /\ CapturesHaveOneOwner

\* Cancelled and expired orders stay as they are: neither a late payment nor a
\* new confirmation brings them back.
LostOrdersStayLost ==
  [][\A q \in Quotes :
       Exists(q) /\ orders[q].status \in {"EXPIRED", "CANCELLED"}
         => orders'[q] = orders[q]]_vars

\* A held order is confirmed by a payment only while its hold runs, by the last
\* clock reading of the transaction that confirms it.
ConfirmedWithinHold ==
  [][\A q \in Quotes :
       IsHeld(q) /\ orders'[q].status = "CONFIRMED" => now' < orders[q].holdUntil]_vars

\* A successful payment stays successful with its own capture, and a payment
\* that failed, lapsed or was cancelled leaves that state only to be refunded.
SettlementIsFinal ==
  [][\A p \in Payments : payments[p] # Nil =>
       /\ payments[p].status = "SUCCEEDED" => payments'[p] = payments[p]
       /\ payments[p].status \in {"FAILED", "EXPIRED", "CANCELLED"} =>
            payments'[p].status \in {payments[p].status, "REFUND_REQUIRED"}]_vars

\* Whoever decides on an order by its revision has seen its lines and status: no
\* step changes them under the same revision.
RevisionCoversContent ==
  [][\A q \in Quotes :
       Exists(q) /\ orders'[q] # orders[q] => orders'[q].revision > orders[q].revision]_vars

IsReserved(p) == payments[p] # Nil /\ payments[p].reserve = "RESERVED"

\* The worker ends every hold: no unpaid order blocks a court for ever, and the
\* wallet money of an unanswered payment comes back to the customer or is spent.
HoldsEnd ==
  /\ \A q \in Quotes : IsHeld(q) ~> ~IsHeld(q)
  /\ \A p \in Payments : IsReserved(p) ~> ~IsReserved(p)
=============================================================================
