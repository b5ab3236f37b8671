----------------------------- MODULE OrderRefunds -----------------------------
(***************************************************************************)
(* Refunds of one order: packages/db/src/tennis/refunds.ts and             *)
(* channel-refunds.ts, over the wallet of WalletStore.                     *)
(*                                                                         *)
(* An order is paid by an initial payment and by the supplements of its    *)
(* amendments, each partly from the wallet and partly through a channel.   *)
(* An employee refunds lines of it; the amount goes back to every source   *)
(* the money came from.  Each command runs in a transaction under the      *)
(* tenant's advisory lock and is one action.  What the channel is asked    *)
(* and how its answers arrive is PaymentChannel; here an answer is an      *)
(* event of SettleRefund.                                                  *)
(*                                                                         *)
(* A refund is named by its group and the payment it returns money of.     *)
(***************************************************************************)
EXTENDS WalletStore

CONSTANTS
  Lines,        \* lines of the order
  LineCents,    \* price of each line when the order was made
  Supplements,  \* amounts an amendment of a line may ask for in addition
  Asked,        \* cents an employee may ask for of a line
  Groups,       \* identities of refund groups, numbered as they are made
  Numbers       \* refund numbers of the channel

VARIABLES
  order,     \* tennis.orders: status, payment_status and revision
  cancelled, \* lines with cancelled_at
  caps,      \* money each line was paid with: initial_funding_cents and the
             \* funding_cap_delta_cents of applied amendments
  payments,  \* tennis.payment_attempts
  groups,    \* tennis.refund_groups with their tennis.refund_lines
  refunds,   \* tennis.refunds with their tennis.refund_wallet_allocations
  claims     \* external_refund_receipts and the channel's refund claims

refundVars == <<groups, refunds, claims>>
vars == <<walletVars, order, cancelled, caps, payments, refundVars>>

ASSUME RefundsAssumption ==
  /\ Batches # {} /\ Payments \subseteq Nat
  /\ Groups \subseteq Nat /\ IsFiniteSet(Groups) /\ IsFiniteSet(Lines)
  /\ LineCents \in [Lines -> Nat] /\ Asked \subseteq Nat /\ Supplements \subseteq Nat \ {0}

OrderRow == [status: {"HELD", "CONFIRMED", "CANCELLED"},
             paid: {"UNPAID", "PAID", "PARTIALLY_REFUNDED", "REFUNDED"},
             revision: Nat \ {0}]

\* A payment: the line whose amendment it pays, its money from the channel.
Payment == [line: Lines \cup {Nil}, wallet: Nat, external: Nat,
            status: {"PENDING", "SUCCEEDED", "ENDED"}]

Refund == [status: {"REQUESTED", "SUCCEEDED", "FAILED"},
           external: Nat, portions: [Batches -> Portion], number: Numbers \cup {Nil}]

Group == [lines: [Lines -> Nat], drop: SUBSET Lines]

RefundIds == Groups \X Payments

ASSUME RefundRowsAssumption ==
  /\ Nil \notin Lines /\ Nil \notin Numbers /\ Nil \notin RefundIds
  /\ Nil \notin Payment /\ Nil \notin Group /\ Nil \notin Refund

Made      == {r \in RefundIds : refunds[r] # Nil}
MadeIn(s) == {r \in Made : refunds[r].status = s}
Of(p)     == {r \in Made : r[2] = p}

Captured == {p \in Payments : payments[p] # Nil /\ payments[p].status = "SUCCEEDED"}
Started == {p \in Payments : payments[p] # Nil}
Waiting == {p \in Started : payments[p].status = "PENDING"}
Price(p) == payments[p].wallet + payments[p].external

WalletPart(r) == SumOf([b \in Batches |-> Cents(refunds[r].portions[b])])
Amount(r)     == refunds[r].external + WalletPart(r)

\* refundableLines: what is left of the money a line was paid with, whether a
\* refund of the rest succeeded or not.
Remaining(l) ==
  caps[l] - SumOf([g \in {h \in Groups : groups[h] # Nil} |-> groups[g].lines[l]])

\* refreshOrderPaymentStatus, with the payments and refunds that succeeded.
PaidStatus(captured, returned, anyReturn) ==
  CASE captured = 0 -> "UNPAID"
    [] captured > 0 /\ returned >= captured -> "REFUNDED"
    [] captured > 0 /\ returned < captured /\ anyReturn -> "PARTIALLY_REFUNDED"
    [] OTHER -> "PAID"

CapturedCents == SumOf([p \in Captured |-> Price(p)])
ReturnedCents == SumOf([r \in MadeIn("SUCCEEDED") |-> Amount(r)])
-----------------------------------------------------------------------------
Init ==
  /\ WalletInit
  /\ order = [status |-> "HELD", paid |-> "UNPAID", revision |-> 1]
  /\ cancelled = {}
  /\ caps = LineCents
  /\ payments = [p \in Payments |-> Nil]
  /\ groups = [g \in Groups |-> Nil]
  /\ refunds = [r \in RefundIds |-> Nil]
  /\ claims = [n \in Numbers |-> Nil]

TopUp ==
  /\ \E b \in Batches, grant \in Grants : CreditWalletBatch(b, grant)
  /\ UNCHANGED <<order, cancelled, caps, payments, refundVars>>

(***************************************************************************)
(* Payments, as far as refunds depend on them (CourtBooking has the rest). *)
(***************************************************************************)
\* A payment that succeeded pays the order, or applies the amendment of a line.
Confirm(row) ==
  /\ order' = [order EXCEPT !.status = "CONFIRMED", !.revision = @ + 1,
                            !.paid = PaidStatus(CapturedCents + row.wallet + row.external,
                                                ReturnedCents, ReturnedCents > 0)]
  /\ caps' = IF row.line = Nil THEN caps
             ELSE [caps EXCEPT ![row.line] = @ + row.wallet + row.external]

\* beginOrderPayment and beginAmendmentPayment: w cents of the wallet, the rest
\* from the channel.  Payments are numbered as they are made.
BeginPayment(p, l, amount, w) ==
  LET row == [line |-> l, wallet |-> w, external |-> amount - w,
              status |-> IF w = amount THEN "SUCCEEDED" ELSE "PENDING"]
  IN
  /\ p \notin Started /\ \A s \in Started : s < p
  /\ Waiting = {} /\ w <= amount
  /\ IF w > 0 THEN ReserveWallet(p, w, w = amount) ELSE UNCHANGED walletVars
  /\ payments' = [payments EXCEPT ![p] = row]
  /\ IF w = amount THEN Confirm(row) ELSE UNCHANGED <<order, caps>>
  /\ UNCHANGED <<cancelled, refundVars>>

PayOrder(p, w) ==
  /\ order.status = "HELD"
  /\ BeginPayment(p, Nil, SumOf(LineCents), w)

PaySupplement(p, l, amount, w) ==
  /\ order.status = "CONFIRMED" /\ l \notin cancelled
  /\ BeginPayment(p, l, amount, w)

\* The channel answers for a payment that waits.  Without its initial payment the
\* order is cancelled; without its supplement an amendment is given up.
SettlePayment(p, succeeds) ==
  LET lost == ~succeeds /\ payments[p].line = Nil IN
  /\ p \in Waiting
  /\ payments' = [payments EXCEPT ![p].status = IF succeeds THEN "SUCCEEDED" ELSE "ENDED"]
  /\ IF payments[p].wallet > 0 THEN SettleWalletReservation(p, succeeds)
     ELSE UNCHANGED walletVars
  /\ IF succeeds THEN Confirm(payments[p])
     ELSE /\ order' = IF lost THEN [order EXCEPT !.status = "CANCELLED", !.revision = @ + 1]
                       ELSE order
          /\ UNCHANGED caps
  /\ cancelled' = IF lost THEN Lines ELSE cancelled
  /\ UNCHANGED refundVars
-----------------------------------------------------------------------------
(***************************************************************************)
(* Refunds.                                                                *)
(***************************************************************************)
\* Where money can go back to: principal and gift of each batch a payment
\* consumed, in the order of batch ids, then the channel; payments by age.
Sources == Payments \X ((Batches \X {1, 2}) \cup {<<Max(Batches) + 1, 1>>})
PartOf(s) == IF s[2][2] = 1 THEN "principal" ELSE "gift"
IsChannel(s) == s[2][1] \notin Batches

\* What source s gave and no refund, in whatever state, has asked back.
Left(s) ==
  LET p == s[1] IN
  CASE p \notin Captured -> 0
    [] p \in Captured /\ IsChannel(s) ->
         payments[p].external - SumOf([r \in Of(p) |-> refunds[r].external])
    [] p \in Captured /\ ~IsChannel(s) ->
         IF payments[p].wallet = 0 THEN 0
         ELSE allocations[p].portions[s[2][1]][PartOf(s)]
              - SumOf([r \in Of(p) |-> refunds[r].portions[s[2][1]][PartOf(s)]])

\* The sources in that order.
Before(s, t) ==
  \/ s[1] < t[1]
  \/ s[1] = t[1] /\ s[2][1] < t[2][1]
  \/ s[1] = t[1] /\ s[2][1] = t[2][1] /\ s[2][2] < t[2][2]
Place   == [s \in Sources |-> Cardinality({t \in Sources : Before(t, s)}) + 1]
InOrder == [i \in 1 .. Cardinality(Sources) |-> CHOOSE s \in Sources : Place[s] = i]

\* allocateCents of the total over what is left of the sources.
Portions(total) ==
  LET shares == AllocateCents(total, [i \in DOMAIN InOrder |-> Left(InOrder[i])])
  IN [s \in Sources |-> shares[Place[s]]]

\* The refund of payment p under the portions x.  Nothing to ask the channel for
\* means that it is completed at once.
RefundRow(p, x) ==
  LET external == x[<<p, <<Max(Batches) + 1, 1>>>>] IN
  [status   |-> IF external = 0 THEN "SUCCEEDED" ELSE "REQUESTED",
   external |-> external,
   portions |-> [b \in Batches |-> [principal |-> x[<<p, <<b, 1>>>>],
                                    gift      |-> x[<<p, <<b, 2>>>>]]],
   number   |-> Nil]

\* completeRefund: the wallet portions of refunds R go back to their batches.
Fault_Restore(rows, R) ==
  [b \in Batches |->
     IF b \notin Credited THEN Nil
     ELSE [batches[b] EXCEPT
             !.available.principal = @ + SumOf([r \in R |-> Cents(rows[r].portions[b])])]]
Restore(rows, R) ==
  [b \in Batches |->
     IF b \notin Credited THEN Nil
     ELSE [batches[b] EXCEPT
             !.available.principal = @ + SumOf([r \in R |-> rows[r].portions[b].principal]),
             !.available.gift = @ + SumOf([r \in R |-> rows[r].portions[b].gift])]]

\* The payment status after refunds R completed; it only changes with one.
Fault_Refreshed(rows, R) == order.paid
Refreshed(rows, R) ==
  LET all == {r \in RefundIds : rows[r] # Nil /\ rows[r].status = "SUCCEEDED"}
      cents == SumOf([r \in all |-> rows[r].external
                        + SumOf([b \in Batches |-> Cents(rows[r].portions[b])])])
  IN IF R = {} THEN order.paid ELSE PaidStatus(CapturedCents, cents, cents > 0)

\* May `cents` of these lines be refunded and the lines `drop` be cancelled?
Fault_Refundable(cents, drop) ==
  /\ \/ order.paid \in {"PAID", "PARTIALLY_REFUNDED"}
     \/ order.paid = "REFUNDED" /\ SumOf(cents) = 0
  /\ drop \cap cancelled = {}
  /\ SumOf(cents) <= SumOf([l \in Lines |-> Remaining(l)])
Refundable(cents, drop) ==
  /\ \/ order.paid \in {"PAID", "PARTIALLY_REFUNDED"}
     \/ order.paid = "REFUNDED" /\ SumOf(cents) = 0
  /\ drop \cap cancelled = {}
  /\ \A l \in Lines : cents[l] <= Remaining(l)

\* requestOrderRefundGroup, and requestOrderRefund for one payment: with the
\* current revision, while no amendment waits for its payment.  A line is chosen
\* for some cents of it, or to be cancelled.
RequestRefund(g, cents, drop) ==
  LET total == SumOf(cents)
      x     == Portions(total)
      used  == IF total = 0 THEN {Min(Captured)}
               ELSE {p \in Captured : \E s \in Sources : s[1] = p /\ x[s] > 0}
      rows  == [r \in RefundIds |-> IF r[1] = g /\ r[2] \in used
                                    THEN RefundRow(r[2], x) ELSE refunds[r]]
      done  == {r \in RefundIds : r[1] = g /\ rows[r] # Nil /\ rows[r].status = "SUCCEEDED"}
  IN
  /\ groups[g] = Nil /\ \A h \in Groups : h < g => groups[h] # Nil
  /\ Waiting = {}
  /\ total > 0 \/ drop # {}
  /\ Refundable(cents, drop)
  /\ total <= SumOf([s \in Sources |-> Left(s)]) /\ \A s \in Sources : Left(s) >= 0
  /\ groups' = [groups EXCEPT ![g] = [lines |-> cents, drop |-> drop]]
  /\ refunds' = rows
  /\ batches' = Restore(rows, done)
  /\ cancelled' = cancelled \cup drop
  /\ order' = [order EXCEPT !.revision = @ + 1, !.paid = Refreshed(rows, done),
                            !.status = IF cancelled \cup drop = Lines THEN "CANCELLED" ELSE @]
  /\ UNCHANGED <<allocations, caps, payments, claims>>

\* settleVerifiedRefund, a success: under one number of the channel, for good.
Fault_Claimable(r, n) == refunds[r].status # "SUCCEEDED"
Claimable(r, n) ==
  claims[n] \in {Nil, r} /\ refunds[r].number \in {Nil, n} /\ refunds[r].status # "SUCCEEDED"

SettleRefundSuccess(r, n) ==
  LET rows == [refunds EXCEPT ![r].status = "SUCCEEDED", ![r].number = n] IN
  /\ r \in Made /\ refunds[r].external > 0
  /\ Claimable(r, n)
  /\ claims' = [claims EXCEPT ![n] = r]
  /\ refunds' = rows
  /\ batches' = Restore(rows, {r})
  /\ order' = [order EXCEPT !.paid = Refreshed(rows, {r})]
  /\ UNCHANGED <<allocations, cancelled, caps, payments, groups>>

\* settleVerifiedRefund, a failure: a success is not undone.
Fault_Failable(r) == TRUE
Failable(r) == refunds[r].status # "SUCCEEDED"

SettleRefundFailure(r) ==
  /\ r \in Made /\ refunds[r].external > 0
  /\ Failable(r)
  /\ refunds' = [refunds EXCEPT ![r].status = "FAILED"]
  /\ UNCHANGED <<walletVars, order, cancelled, caps, payments, groups, claims>>

\* retryFailedRefund: the same refund, asked for again.
RetryFailedRefund(r) ==
  /\ r \in MadeIn("FAILED")
  /\ refunds' = [refunds EXCEPT ![r].status = "REQUESTED"]
  /\ UNCHANGED <<walletVars, order, cancelled, caps, payments, groups, claims>>
-----------------------------------------------------------------------------
Next ==
  \/ TopUp
  \/ \E p \in Payments, w \in Amounts : PayOrder(p, w)
  \/ \E p \in Payments, l \in Lines, amount \in Supplements, w \in Amounts :
       PaySupplement(p, l, amount, w)
  \/ \E p \in Payments, succeeds \in BOOLEAN : SettlePayment(p, succeeds)
  \/ \E g \in Groups, cents \in [Lines -> Asked], drop \in SUBSET Lines :
       RequestRefund(g, cents, drop)
  \/ \E r \in RefundIds, n \in Numbers : SettleRefundSuccess(r, n)
  \/ \E r \in RefundIds : SettleRefundFailure(r) \/ RetryFailedRefund(r)

Spec == Init /\ [][Next]_vars
-----------------------------------------------------------------------------
(***************************************************************************)
(* Properties.                                                             *)
(***************************************************************************)
\* The rows of the tables; a refund returns money of a payment that succeeded.
TypeOK ==
  /\ WalletTypeOK
  /\ order \in OrderRow
  /\ cancelled \subseteq Lines
  /\ caps \in [Lines -> Nat]
  /\ payments \in [Payments -> Payment \cup {Nil}]
  /\ groups \in [Groups -> Group \cup {Nil}]
  /\ refunds \in [RefundIds -> Refund \cup {Nil}]
  /\ claims \in [Numbers -> RefundIds \cup {Nil}]
  /\ \A r \in Made : groups[r[1]] # Nil /\ r[2] \in Captured

\* refunds.ts: what refunds of a source ask back, together and in whatever state,
\* is never more than it gave, and no line gives back more than it was paid with,
\* although each refund is asked for under its own group and may fail and be tried
\* again.
NothingIsReturnedTwice ==
  /\ \A l \in Lines : Remaining(l) >= 0
  /\ \A p \in Captured :
    /\ SumOf([r \in Of(p) |-> refunds[r].external]) <= payments[p].external
    /\ payments[p].wallet > 0 =>
         \A b \in Batches, part \in {"principal", "gift"} :
           SumOf([r \in Of(p) |-> refunds[r].portions[b][part]])
             <= allocations[p].portions[b][part]

\* What may still be refunded of the lines is what may still go back to the
\* sources: the amount an employee may grant always finds its way back, and
\* nothing is left behind when every line is refunded.
LinesAgreeWithSources ==
  order.paid # "UNPAID" =>
    SumOf([l \in Lines |-> Remaining(l)]) = SumOf([s \in Sources |-> Left(s)])

\* Principal and gift of each batch are conserved through refunds: each goes back
\* to the batch and the part it came from, and only when the refund succeeded.
BatchesAreConserved ==
  \A b \in Credited, part \in {"principal", "gift"} :
    batches[b].granted[part] + SumOf([r \in MadeIn("SUCCEEDED") |-> refunds[r].portions[b][part]])
      = batches[b].available[part] + From(b, With("RESERVED") \cup With("CONSUMED"), part)

\* wallet-store.ts: the balance never leaves the range of exact amounts, although
\* money comes back that was spent before later top-ups.
BalanceFits ==
  SumOf([b \in Credited |-> Cents(batches[b].available ++ batches[b].reserved)]) <= MaxCents

\* The payment status says what really came back, whatever is still under way.
StatusFollowsMoney ==
  /\ TypeOK
  /\ order.paid = PaidStatus(CapturedCents, ReturnedCents, ReturnedCents > 0)

\* A number of the channel backs one refund, and a refund that needed the channel
\* succeeded under one number.
NumbersBackOneRefund ==
  \A r \in MadeIn("SUCCEEDED") : refunds[r].external > 0 =>
    refunds[r].number # Nil /\ claims[refunds[r].number] = r

\* The wallet with what refunds returned of each payment.
ReturnedTo(p) == SumOf([r \in Of(p) \cap MadeIn("SUCCEEDED") |-> WalletPart(r)])

RefundedAccount == INSTANCE AbstractWallet WITH
  balance <- Spendable(Credited),
  held    <- [p \in Payments |-> Held(p)],
  spent   <- [p \in Payments |-> Spent(p) - ReturnedTo(p)]

\* Refunds keep what the wallet promises: what comes back was spent, once.
ImplementsRefundedWallet == RefundedAccount!Spec
=============================================================================
