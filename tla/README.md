# Tennis PMS: models, checks and proofs

This directory holds TLA+ models of Tennis PMS, the TLC configurations that
check them on small instances, and TLAPS proofs about them. Tennis PMS is a
multi-tenant management system for tennis venues: a TypeScript API over one
PostgreSQL database (`packages/db/src/tennis`, `packages/domain/src`,
`apps/api/src/tennis`), a web interface, and a worker inside the API server.
Payments and refunds go through a channel that this repository only simulates.

    tlc -workers 2 -config CourtBooking_safety.cfg MCCourtBooking
    tlapm CourtBooking_proofs.tla

`PROJECT.json` lists every run, the lines each definition translates, the
hazards and the theorems.

## 1. Inventory

Every command of the database package runs in one transaction that first takes
the tenant's advisory lock (`transaction-locks.ts`), so commands of one tenant
are serialised, and a command that throws rolls back. That makes a command one
action. What is *not* one action is everything that spans transactions: the
clock that runs on between and inside them, the reconciliation with the channel,
commands that are sent again, observations that arrive late, crashes.

| component | state | operations | hard behaviour | what makes it correct |
|---|---|---|---|---|
| bookings (`booking.ts`) | quotes, orders and their lines, holds | createQuote, confirmQuote, cancelUnpaidOrder, cancelFreeOrderLines, expiry in every command and by the worker | quotes compete for a court; holds lapse inside a transaction; stale revisions | no court is booked twice; the courts of an order are occupied exactly while it is alive; lost orders stay lost; holds end |
| court inventory (`inventory.ts`) | occupancies | occupy, reschedule, release | manual occupancies beside those of orders | no overlap on a court |
| order payments (`payments.ts`, `payment-lifecycle.ts`, `channel-transactions.ts`) | payment attempts, events, claims of channel transactions, exceptions | beginOrderPayment, settleVerifiedPayment | events late, repeated, in any order, under several transaction numbers; expiry against success | captured money funds the order once or is an open exception; a settled payment stays settled |
| wallet (`wallet-store.ts`, `wallet.ts`, `tennis-wallet.ts`) | batches of principal and gift, allocations | credit, reserve, consume, release, return of refunds | rounding; concurrent orders of one customer; money that comes back after later top-ups | each part of each batch is conserved; oldest first; the balance stays exact |
| refunds (`refunds.ts`, `channel-refunds.ts`) | groups, refunds, lines, receipts | request, settle, retry | several refunds under way over several sources; failures and late successes | no source and no line gives back more than was paid; a success is final |
| payment channel (`payment-channel.ts`, `channel-intents.ts`) | operations with leases, observations | enqueue, reconcile, notify, simulate, retry, scan | separate statements and calls: leases lapse, answers are lost, processes crash, retries meet old attempts | outcomes only from the channel, each applied in the end, refunds paid once |
| simulated channel (`mock-payments.ts`, `mock-channel-store.ts`) | its records | create, query, outcome | idempotent calls | environment of the above |
| amendments (`amendments.ts`) | amendments, staged occupancies | preview, confirm, pay, apply, cancel, expire | staged holds against expiry and late money; netting of prices with rounding | courts and money move together or not at all |
| top-ups (`topups.ts`) | offers, quotes, top-up payments | quote, begin, settle | success after failure; a second transaction | a transaction credits one batch |
| exception refunds (`exception-refunds.ts`) | refunds of exceptional receipts | request, retry, settle | two requests for one receipt | one refund per receipt |
| command receipts (`receipts.ts`) | key, request, result | idempotentCommand | a command sent twice | one effect per key |
| WeCom receipts (`wecom-reconciliation.ts`) | receipts, links | ingest, link | preflight and settlement are two transactions | a receipt settles one operation |
| business events (`business-events.ts`) | numbered rows, cursors | poll | cursors against changing visibility | a reader misses nothing it may see |
| gateway and external agent (`gateway.ts`, `external-agent.ts`, guards) | bindings, conversations, messages, delegations | receive, grant, complete, hand off, revoke | revocation and hand-off against grants in use | no grant outlives its scope |
| catalog, pricing, policy (`catalog.ts`, `tennis-pricing.ts`, `booking-policy.ts`) | venues, courts, prices, discounts | single-row commands, pure pricing | rounding of segments | exact totals |
| merchants, port, WeChat V3 (`merchant-bindings.ts`, `payment-port.ts`, `wechatpay-v3-*.ts`) | bindings | save, disable, verify | | |
| accounts, access, customers (`auth.ts`, `access.ts`, `customers.ts`) | sessions, memberships, customers | login, select, provision, update | a role changes under a running session | |
| assistants (`backoffice-assistant.ts`, question records) | conversations | send, record | model calls | read-only for the rest |
| views, web, migration tool | none of record | | | |

How they interact: a booking's quote becomes an order that holds occupancies; a
payment reserves wallet money and enqueues a channel operation in the order's
transaction; the worker (`server.ts:918`) runs every 15 s the expiry of orders,
the expiry of amendments and the scan of due channel operations, one after the
other, skipping a tick while the last one still runs; an observation of the
channel is settled by the payment, top-up or refund module in a transaction of
its own and then marked as applied; refunds put wallet money back and enqueue
channel operations again.

## 2. What models what

| module | models | checked by |
|---|---|---|
| `CourtBooking` | bookings, inventory, initial payments in one tenant | `MCCourtBooking` |
| `CourtBooking_proofs` | theorems about `CourtBooking` | tlapm |
| `Amendments` | changes of orders: quoting, staged courts, supplements, refunds, expiry | `MCAmendments` |
| `Amendments_proofs` | theorems about `Amendments` | tlapm |
| `PaymentChannel` | reconciliation of operations with the channel, statement by statement | `MCPaymentChannel` |
| `PaymentChannel_proofs` | theorems about `PaymentChannel` | tlapm |
| `ReconcileQueue` | which operations the worker's scan reaches | `MCReconcileQueue` |
| `CashIntake` | money from outside: top-ups, order payments, WeCom receipts, exceptions and their refunds | `MCCashIntake` |
| `CashIntake_proofs` | theorems about `CashIntake` | tlapm |
| `Conversations` | the external agent, its delegations, the gateway, and people taking over | `MCConversations` |
| `Conversations_proofs` | theorems about `Conversations` | tlapm |
| `TennisCents` | `allocateCents`, the exact division of money | used by `WalletStore`, `OrderRefunds` and `Amendments` |
| `TennisCents_proofs` | sums over finite sets, and that the division is exact | tlapm |
| `WalletStore` | batches, allocations, the split of a debit | through `OrderRefunds` |
| `WalletStore_proofs` | lemmas about the wallet's operations | tlapm |
| `OrderRefunds` | refunds of an order over `WalletStore` | `MCOrderRefunds` |
| `OrderRefunds_proofs` | theorems about `OrderRefunds` and its refinement of `AbstractWallet` | tlapm |
| `AbstractWallet` | what a wallet promises its customer | refined by `OrderRefunds` |

`OrderRefunds` extends `WalletStore` and adds the order, its payments and their
refunds to the wallet's rows; the whole implements `AbstractWallet` under a
refinement mapping that forgets batches and the split into principal and gift.
`ReconcileQueue` takes one operation of `PaymentChannel` as "asked for and
finished or put off" and counts time in scans. `CourtBooking`, `Amendments` and
`CashIntake` treat the outcomes `PaymentChannel` delivers as events that come in
any order and number. `Amendments` starts with the orders `CourtBooking` makes,
takes the wallet as `WalletStore` leaves it, and counts a refund as returned when
it is requested, which `OrderRefunds` and `PaymentChannel` justify.

### CourtBooking

A variable is a table: `quotes`, `orders` (with the cancelled lines of each),
`live` (occupancies with `released_at IS NULL`), `payments` with their wallet
reservation, `claims` (channel transactions), `events`, `exceptions`, and `now`,
the database clock in minutes. Every command is an action that contains its
whole transaction: the expiry of the venue's due holds at its start, its checks,
its writes. A transaction may take up to `MaxElapse` minutes, because the code
reads `clock_timestamp()` again after its checks; the second reading is the
parameter `t` of the action. `Settlement` has one disjunct per outcome of
settleVerifiedPayment: in time, late, again for a payment that was settled, and
failure. A replay of a command that finds its receipt only expires holds, which
is `ExpireVenueHolds`. An order is named by its quote (`quote_id` is UNIQUE).

Left out: permissions, the price calculation (a selection has a total), audit
rows, and the revision an employee's command carries (`booking.ts:558`): a command
here is always one of a current page, and `RevisionCoversContent` is what makes the
comparison of the code worth something. What changes an order after it was paid is in `Amendments` and
`OrderRefunds`.

### Amendments

One venue, its orders with their lines, and everything `amendments.ts` does with
them: `PreviewOrderAmendment` with the netting of prices, `ConfirmFree` and
`ConfirmSupplement` with the staged courts of `holdNewCoverage`,
`CancelOrderAmendment`, the expiry of amendments and of orders, and the parts of
`payments.ts` that begin and settle the payment of an amendment. `Apply` is
applyAmendmentInTransaction, with its checks in `Applicable`; `SettleRejected` is
the settlement whose savepoint is rolled back, which keeps the payment as money to
be given back. Beside them run the commands that change the same rows: booking
payments, cancellations of unpaid orders, of their lines and of free lines, refund
requests, other occupancies, and a venue that changes its minimum length. As in
`CourtBooking` a transaction may read the clock again at `t`.

Courts are intervals `[court, start, end]`; an offer is an interval with the price
the catalog gives it, so dearer, cheaper and equal changes come from the choice of
offers.

### PaymentChannel

An invocation of reconcileChannelOperation, a notification or the worker is a
member of `Workers`; `jobs[w]` is its program counter with what it read so far.
Each statement, transaction or channel call is an action: `Claim` (the
conditional update that takes the lease), `Check` (isPayable), `Create`, `Query`,
`Recheck`, `Hear`, `Save`, `RecordObservation`, `ReadObservation`, `Settle`,
`Mark`, `GiveUp`. `AnswerLost`, `StatementFails` and crashes are the faults, at
most `MaxFaults` of them in a behaviour. A lease may lapse at any time while it
is held, since nothing bounds how long a call takes. `ledger` is the channel's
own record, with the behaviour of the simulated channel: idempotent creation, one
final outcome, or a success after a failure of the same payment.

Payments and refunds from before PMS kept operations are `OldSources`: their first
operation is made on demand, by a person who reconciles or simulates them
(`Enqueue`) or by the first retry. Those in `RefusedBefore` have a verified failure
from that time. `RetryRefund` is retryFailedRefund with retryRefundChannel: the
refused attempt is FAILED, or it is still READY and the refund has some failure,
of whatever attempt (`LegacyFailure`), in which case the retry marks it FAILED
itself.

### ReconcileQueue

processDueChannelOperations takes at most 20 due operations in the order of their
ids. The model has `Limit` for 20, `Regular` scans for 30 s (two or three, since
an operation is put off from when its answer came) and `Backoff` for 5 min.

### WalletStore and AbstractWallet

`batches` are the rows of `wallet_batches`, `allocations` the rows of
`wallet_allocations` of each payment. `AllocateCents` is the largest-remainder
split of `tennis-pricing.ts`; `AllocateWalletDebit` goes through the batches in
the order they were credited. `MaxCents` stands for 2^53 - 1. A receipt that
comes again finds its batch, so a batch is credited once.

### OrderRefunds

`order`, `cancelled`, `caps` (what each line was paid with), `payments`,
`groups`, `refunds`, `claims`. Of an amendment only its supplement matters here
(`PaySupplement`). `RequestRefund` is requestOrderRefundGroup with
createRefundGroupInTransaction: limits per line, limits per source, the split
over all sources, one refund per payment used, completion at once when nothing
goes to the channel, cancellation of lines and the order's status.
`SettleRefundSuccess`, `SettleRefundFailure` and `RetryFailedRefund` are what the
channel and an employee do afterwards.

### CashIntake

A transaction of the channel is reported by the channel for a payment, and may
also be collected from WeCom. `RecordSuccess` is what settling does to the books
for either of them: claim the transaction, fund the order or credit the batch, or
open an exception. Linking a receipt is not one transaction: `PreflightTrusted` and
`PreflightManual` find it, `SettleReceipt` settles with its two hooks,
`RefuseReceipt` and `ReviewReceipt` note why it did not; a caller may stop in
between (`Crash`), lose its permission, or try again with the same key. Exceptions
are refunded under `RequestExceptionRefund` and `RetryExceptionRefund`, keyed by
command receipts, and their outcomes come back as stored observations, late and
under several numbers (`ObserveRefund`, `SettleExceptionRefund`). `Fitting` says which
transactions agree with which payments in tenant, merchant and amount. A credit
that the cap of the wallet refuses (`BalanceFits` of `OrderRefunds`) does not occur
here: every settlement of a top-up credits its batch.

### Conversations

A conversation has a mode and a generation; every hand-over to a person and back
starts a new one. So does the platform when it suspends the tenant (`SuspendTenant`,
setPlatformTenantStatus), which deletes all delegations and leaves modes and
dispatches as they are; until `RestoreTenant` no employee or customer is authorised,
while the platform may still revoke the integration. `sendAssistantMessage` is split at its transactions (issue,
resolve, call, reply or fail, close), and an invocation may stop anywhere. A
gateway's messages are received, granted and completed by an outside component,
under a credential that is paused, rotated, revoked or runs out. A business call
resolves its delegation first and commits later (`acting`), with everything else in
between; the guard inside the business transaction is what has to catch what
changed. PMS is taken to learn whether its own transactions committed: a COMMIT
that succeeds while its acknowledgement is lost is not modelled. In
`StoreReply` that would leave a stored reply whose dispatch the catch block
(`external-agent.ts:872`) marks as uncertain.

### Fault_ operators

An operator `Fault_X` beside an operator `X` is `X` with a plausible mistake: a
dropped guard, a missing reset, a rounding that does not add up. No
specification uses them. For each checked property there is one (`PROJECT.json`,
"mutants") with which TLC finds the property violated; it documents which line
of code the property depends on.

## 3. Runs

| run | instance | shows | states |
|---|---|---|---|
| `booking_safety` | 2 quotes, 2 venues, overlapping and adjacent intervals, 1 manual occupancy, 2 payments, 2 transactions, 2 event numbers, 3 minutes, transactions of up to 1 minute | types; no double booking; inventory and payments agree with orders; every capture is accounted for once; lost orders stay lost; confirmation within the hold; settled payments stay settled | 242,925 |
| `booking_liveness` | free and priced orders, 1 manual occupancy, 1 payment, fairness | no order changes under the same revision; every hold and every reservation ends | 24,635 |
| `amend_courts` | 1 free order of 2 lines on courts that overlap the targets, 2 amendments, 1 payment, 1 manual occupancy, 2 minutes, transactions of up to 1 minute, fairness | courts follow lines; an amendment that waits keeps its courts and its order; amendments follow payments; every change was agreed, before its old and new courts begin (minute 2 of 2 is the start of one); every wait ends | 124,604 |
| `amend_prices` | 1 order of 3 lines with 6 offers, 1 amendment, 2 payments, refunds of 1 cent | what remains refundable of the lines is what was captured and not given back | 502,370 |
| `channel_safety` | 1 order payment, 1 refund that failed before there were operations, with 3 attempts, 2 invocations, 2 event numbers, 1 fault | final states are verified; books follow the channel; a refund is paid once, whatever the branch for legacy failures takes for refused; success is final; leases are respected | 744,099 |
| `channel_liveness` | 1 top-up, 2 invocations, 1 fault, fairness | observations are applied; a success reaches the books unless its operation is marked FAILED | 349,979 |
| `channel_expired` | 1 order payment, 1 invocation | a finding, see below | stops early |
| `queue_small` | 4 operations, 2 a scan, one broken | every outcome is heard | 8,379 |
| `queue_crowded` | 4 operations, 1 a scan | a finding, see below | stops early |
| `refunds` | 2 batches of uneven parts, an initial payment and a supplement, 2 groups, 2 refund numbers | nothing and no line is returned twice; lines agree with sources; status follows money; numbers back one refund; batches are conserved, oldest first, in fair shares; the balance fits; refinement of `AbstractWallet` | 40,773 |
| `intake` | 1 order, 1 top-up, 2 transactions, 1 employee, 1 feed, 2 keys, 2 event numbers, 2 attempts | cash is accounted for; receipts agree with the books; refunds follow the channel; links are authorised | 1,807,182 |
| `conversations` | 1 conversation, 1 message of each kind, 2 invocations, 3 changes of mode or suspensions, 2 of the integration | one request at a time; no open request is forgotten but by a suspension; commands belong to the present request | 1,114,004 |

**Bounds.** Every bound is a CONSTANT named in its module. Two of everything that
competes (orders for a court or wallet, invocations for an operation, groups for
the money of a payment, amendments for an order, transactions for a payment) is
where each hazard of `PROJECT.json` first happens: two orders overlap, two
transactions are captured for one payment, an old and a new attempt of one refund
live side by side. Three lines are needed where prices are netted: one gets dearer,
two get cheaper, and the cent that does not divide goes to one of them. Three
minutes let a hold of two minutes lapse before, during and after a transaction of
one minute. One fault is enough for a crash or lost answer at every point; two
independent faults are not covered by the runs.

Two runs are cut down further by a state constraint, `MCScope`. In `channel_safety`
the payment and the refund are explored one at a time, as they share nothing but the
invocations, and only one attempt of the refund is reported under two numbers, without
a fault. The first attempt at the refund is retried at once, after which the second and
third are like the attempts at a newer refund, or it is worked on first, without faults
and second numbers. In `intake` one exception is refunded at a time, receipts are not
linked while one is, and only failures are reported under two numbers. The theorems of
section 5 hold without these constraints and for every value of the bounds.

Deadlock is checked except in two runs. In `refunds` the finite supply of batches,
payments and groups runs out; in `conversations` nothing is left to do once the
credential is revoked before a message came. Symmetry is used in runs without
liveness properties only.

**Fairness.** The worker of `server.ts:918-933` starts a scan every 15 seconds,
skips a tick while the last scan is running, and goes on after an error.
`CourtBooking` and `Amendments` therefore have weak fairness of the clock and of
the expiry of each venue; no customer, employee or channel is obliged to act.
`PaymentChannel` has weak fairness of what a running invocation does next and of
the lapse of a lease, and strong fairness of the scan for each operation: a scan
goes through everything due, and while no more operations are due than it takes,
each gets its turn again and again. That condition is what `ReconcileQueue`
examines with weak fairness of the scan alone. The channel need not decide: the
liveness properties are about outcomes it has, and faults are finitely many.
`CashIntake` and `Conversations` state no fairness: linking, completing and giving
back depend on people and on outside components.

## 4. Findings

* `channel_expired`: `payment-channel.ts:383` reads isPayable and then, outside
  any transaction, creates the payment at the channel. A payment that expires in
  between is started after it expired; `docs/tennis/payment-channel.md:13` says
  it is not. The money is not lost: `CourtBooking` shows that a late success
  becomes an exception to be refunded.
* `queue_crowded`: `payment-channel.ts:511` always takes the first 20 due
  operations by id. Operations without an outcome come due again before the scan
  gets to higher ids, so about 60 of them keep the worker from ever asking about
  the rest; the same document promises a check every 30 seconds.

Three properties except what the code does not give. Each exception is named in the
property, and a further configuration, which is no part of the runs above, has a
stronger property that TLC finds violated by exactly what is excepted.

* `PaymentChannel_old.cfg` (`RetriedNumbersAreDead`): `channel-intents.ts:190` takes
  an operation that is still READY for refused when its refund has any failure in its
  history. A refund from before there were operations, which failed then, gets its
  operation when it is simulated (`payment-channel.ts:472`); the simulated channel pays
  it, and until the result is recorded a retry starts a second number, although
  `docs/tennis/payment-channel.md:22` allows one only after the channel refused the
  first for good. `RefundedOnce` leaves out the first attempt at such refunds, and
  only that.
* `PaymentChannel_late.cfg` (`LateSuccessReachesBooks`): the scan leaves out operations
  that are FAILED (`payment-channel.ts:511`), yet a failed payment may succeed late (the
  same document, lines 12 and 22). Such a success reaches the books only by the
  channel's notification or by a person who reconciles the payment. `SuccessReachesBooks`
  therefore excepts operations that are FAILED.
* `Conversations_suspension.cfg` (`NoneBesideTheUnknown`): suspending a tenant
  (`auth.ts:572`) starts a new generation of its conversations without handing those
  with an unknown result to a person, as `gateway.ts:147` does. Once the tenant is
  restored the agent gets its next message beside the open one;
  `docs/tennis/implementation-status.md:208` says that an unknown result must be checked
  first. `UnresolvedIsNotForgotten` names the suspension as the one exception. Without
  the two actions of the platform `NoneBesideTheUnknown` holds of the same instance.

## 5. Proofs

The theorems hold for every value of the constants, under the named assumptions of
the modules they are about. TLC evaluates each of them in the runs.

* `CourtBooking`: NULL is not a row, intervals are not empty, a selection has one
  venue and no overlapping lines, amounts and policies are natural numbers.
* `Amendments`: `NilAssumption`, `CatalogAssumption`, `BookingsAssumption`,
  `PolicyAssumption` (among them that a refund is a natural number of cents, which
  the schema of the request enforces, `apps/api/src/tennis/server.ts:156`), and
  `TablesAssumption`: tables have finitely many rows.
* `PaymentChannel`: payments, top-ups and refunds are different things
  (`SourcesAssumption`), NULL is not a row, bounds are natural numbers
  (`BoundsAssumption`).
* `CashIntake`: orders and top-ups are disjoint (`IntakeAssumption`), NULL is not a
  row. `Conversations`: messages belong to conversations and come from one side
  (`ConversationAssumption`, `RowsAssumption`).
* `WalletStore` and `OrderRefunds`: finitely many batches, payments, groups and
  lines, numbered by naturals and with natural amounts (`WalletAssumption`,
  `RefundsAssumption`), and NULL is not a row (`WalletRowsAssumption`,
  `RefundRowsAssumption`).

Each proof module states its inductive invariant, proves that it holds at the start
and that every action keeps it, one lemma per action or kind of action, and then
that it implies what the runs check. The checked invariants are seldom inductive
themselves; what had to be added, and why, is the argument.

* `CourtBooking_proofs`: `TypeCorrect`, `NeverDoubleBooked`,
  `InventoryFollowsOrders`, `MoneyAgrees`, `NoCaptureIsLost` and the action
  properties `LostForEver`, `HoldsAreHonoured`, `SettlementsAreFinal`,
  `RevisionsAreCurrent`. Types are inductive alone. No double booking is inductive
  with types: every action only drops occupancies, or adds ones that the conflict
  check passed (`AddOccupancies`). That inventory matches orders needs both: two
  lines of one order are told apart because live occupancies do not overlap. That a
  capture is accounted for depends on who owns it, whether an order is paid on its
  payments, and what a reservation is on its payment's status; `MoneyInv` is the
  conjunction. Actions that only end payments share `DroppingStep`, those that begin
  or capture one share `FundingStep`, those that claim no transaction share
  `CapturesKept`. For the action properties: a command writes what its expiry of due
  holds leaves, and on top of it one order and one payment; `MoneyInv` is needed
  where a settlement relies on what waits, since a waiting payment has a held order,
  and a payment without a capture did not succeed with the provider's money.
* `Amendments_proofs`: `RowsFitTogether`, `CourtsAlwaysFollowLines`,
  `CourtsAreKept`, `PaidOnceOrGivenBack`, `CapsStayFunded`, `LinesChangeAsAgreed`.
  The code compares a quote with its order by the order's revision alone, so
  `CourtInv` says what that is worth: an order that still has the revision of a
  quote still has the lines that were quoted, because every command that writes an
  order or its lines raises the revision (`OrderChanges`) or leaves them alone
  (`OrderStays`). That the staged pieces and the lines that move cover the targets
  rests on `PiecesCover`: around a point that no old interval covers there is a
  largest piece, whose ends are the last old interval before the point and the first
  one after it. `PaymentInv` adds that an amendment has at most one payment ever,
  since a payment that does not succeed ends its amendment, and that an order has at
  most one pending payment of its own. `MoneyInv` adds what a quote is worth in
  money: while its order has the revision it was quoted for, its increases and
  decreases net to its supplement and no line loses more than it has left. It also
  says that the lines of an unpaid order have all of their price left, and that a
  pending payment of an order asks for exactly that. What a quote nets up to follows
  from the exactness of the division (`NettingAddsUp`, `QuotedMoney`); afterwards an
  order's money is only paid, refreshed, returned or applied (`WorthPaid`,
  `WorthRefreshed`, `WorthReturned`, `WorthApplied`) or left alone (`WorthStays`). A
  command expires what is due and writes a few rows on top of that; `SweepStep`,
  `PaymentSweep` and `BesideExpiry` prove that expiring is safe once, for all
  commands.
* `PaymentChannel_proofs`: `FinalStatesComeFromTheChannel`, `BooksAreTheChannels`,
  `RefundsArePaidOnce`, `SuccessStays`, `LeasesAreRespected`. `ChannelInv` adds what
  an invocation holds in its hands between two statements: the observation it read
  is stored and was said by the channel, and what it is about to mark is in the
  books. That stays true under the steps of all others because the channel's
  records, the rows, the stored observations and the successes of the books only
  grow (`Growth`). Refunds are paid once because an attempt has a successor only
  after a final refusal; the first attempt at a refund that had failed before there
  were operations is left out, as section 4 explains. A lease ends by
  lapsing, by its holder, by a result of the channel, or by the catch block of the
  scan (`payment-channel.ts:519`), which clears it without holding the token;
  `LeasesAreRespected` says no more than that.
* `CashIntake_proofs`: `IntakeCorrect`, `CashStaysAccounted`,
  `ReceiptsStayInAgreement`, `ExceptionsAreReturnedOnce`, `OnlyAuthorisedLinks`.
  `IntakeInv` adds which exceptions belong to which source, that a caller in the
  middle of a link has found its rows, that what was settled from WeCom is claimed,
  and that a further attempt at a refund follows refused ones. The books change in
  one of three ways (`BooksMove`), so each invariant is proved of those rather than
  of every action. That at most one attempt of a refund succeeds is a statement about
  a cardinality, proved through the only attempt that may be undecided.
* `Conversations_proofs`: `ConversationsAreCorrect`, `AgentsRunOneAtATime`,
  `UnknownResultsStay`, `CommandsFollowTheRequest`. `ConversationInv` adds that
  delegations and invocations are of the dispatch they were made for and that two
  invocations never work on one message. A step changes the unresolved requests of a
  conversation in one of few ways (`UnresolvedMove`): it adds one where there was
  none, resolves one, leaves them, or clears them by a hand-over or a suspension.
  `UnknownResultsStay` excepts the suspension, as `UnresolvedIsNotForgotten` does.
* `TennisCents_proofs`: `CentsAreAllocatedExactly`, for every total and all finite
  weights that are not all 0: the shares add up to the total, each is within a cent
  of the exact quotient, and none exceeds its weight when the total does not exceed
  the sum of the weights. The remainder is smaller than the number of shares that
  were rounded down, which is why a cent never goes where there is no fraction left.
  The module also holds the lemmas about sums that the other money proofs use
  (`SumOfPlus`, `SumOfChanged`, `SumOfGroups`, `SumOfTable`, ...). A sum is a fold,
  a recursive function over the subsets of its domain; the lemmas are proved from its
  recursive equation by `SubsetInduction`, which states induction over finite sets
  with a set of subsets in the place of a predicate.
* `WalletStore_proofs` has no theorem of its own: the wallet runs inside
  `OrderRefunds`. Its lemmas say that a debit takes exactly the amount, from no batch
  more than it has, and the oldest first (`DebitIsExact`, `DebitIsOldestFirst`), and
  that crediting, reserving and settling keep `WalletInv`: what is reserved of a
  batch is what waiting payments took of it, part by part, so a release never gives a
  batch more than it lost.
* `OrderRefunds_proofs`: `RefundsInvariant`, `TypesHold`,
  `NothingIsReturnedTwiceHolds`, `LinesAgreeWithSourcesHolds`,
  `BatchesAreConservedHolds`, `BalanceFitsHolds`, `StatusFollowsMoneyHolds`,
  `NumbersBackOneRefundHolds`, the action properties `OldestFirstHolds` and
  `SharesAreFairHolds`, and the refinement `RefundedWalletIsAnAccount`. Amounts per
  payment are not enough to be inductive: a success puts back principal and gift of
  each batch, and without knowing each of them a batch could be refilled from another
  one. `RefundsInv` therefore counts money by kind, principal and gift of every batch
  and the channel's money (`ReturnsFit`, `KindsAreConserved`), ties a payment's row to
  its allocation (`PaidFromWallet`), and keeps the order of events (`InTurn`):
  payments come one after the other, and no refund before the first capture. A new
  group of refunds is divided over the sources with weights that are what is left of
  them, and the division never exceeds a weight. `BalanceFits` follows because what
  comes back was spent: the balance never exceeds what was granted, which the credit
  checks against `MaxCents`. For the refinement `AccountInv` adds that what is
  available, held and spent is what was granted; each action then moves money between
  these three as one action of `AbstractWallet`, or not at all.

Every invariant and every action property the passing runs of these modules check
is stated by one of the theorems, and so is the refinement. Only model-checked are
the liveness properties, as fairness and ENABLED are out of the prover's reach, and
all of `ReconcileQueue`, whose one property is such. What the sums of a fold are, for
every input, was proved by way of the induction over sets described above; nothing
else in these modules is recursive.

## 6. Not modelled, and why

* Prices of selections: exact integer arithmetic over the segments of a day,
  a pure function that tests compare with tables. The models take the priced
  selection as given; the division that shares its rounding is `TennisCents`.
* Catalog, discounts, policy, merchant bindings, customers, `saveTopupOffer`: one
  row under a revision check or a unique key.
* Business events: a trigger draws the number of an event from the tenant's row of
  `business_event_counters` and keeps it locked until the commit, so a reader
  behind a cursor cannot be overtaken; a model would restate that row lock.
* Sessions and contexts. Of `auth.ts` the change of an employee's permissions is
  `CashIntake!ChangePermission`, which gives or takes the one permission that matters
  there, and the suspension of a tenant is part of `Conversations`; in the other
  modules a suspended tenant only stops giving commands, while expiry and the channel
  go on.
* Signatures and HTTP transport of WeChat Pay V3: not connected to a payment in
  this repository.
* The back-office assistant and its records: reads for orders and money.
* The web interface, which is the largest part of the repository, views and
  directories, the migration tool: no state that anything else depends on.
* Green PMS, the hotel system the repository was forked from
  (`packages/db/src/commands`, `database.ts`, `room-status.ts`, `schemas.ts`): its
  entry points are disabled and no tennis command uses its tables. It is most of the
  database package, so the models cover a small share of the lines of the
  repository and nearly all of the tennis commands that move courts or money.

What could come next: two orders in `Amendments` and larger sets of lines; the
composition of `CashIntake` with the statements of `PaymentChannel`, where now one
assumes what the other delivers; and a proof that the orders of `OrderRefunds` are
those of `Amendments`, which now take each other's part as given.
