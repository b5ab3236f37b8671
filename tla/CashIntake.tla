------------------------------ MODULE CashIntake ------------------------------
(***************************************************************************)
(* What becomes of money that arrives from outside:                        *)
(*   packages/db/src/tennis/topups.ts, payments.ts (settlement),           *)
(*   channel-transactions.ts, wecom-reconciliation.ts,                     *)
(*   exception-refunds.ts, channel-intents.ts and receipts.ts.             *)
(*                                                                         *)
(* A transaction of the channel is reported by the channel itself, for the *)
(* payment it was made for, and may also be collected from WeCom, where it *)
(* may name no payment or a wrong one, until an employee links it.  It     *)
(* funds one order or top-up, or it is an exception that is refunded.      *)
(*                                                                         *)
(* Settling holds the tenant's advisory lock and is one action.  Linking a *)
(* receipt is several transactions (a preflight, the settlement, a note of *)
(* the failure), between which everything else may happen.                 *)
(***************************************************************************)
EXTENDS Integers, FiniteSets, Sequences

CONSTANTS
  Orders,     \* payment attempts of orders, with an amount for the channel
  Topups,     \* quotes of wallet top-ups, each with at most one payment
  Txns,       \* transactions of the channel
  Fitting,    \* <<transaction, source>> of one tenant, merchant and amount
  Employees,  \* callers who link receipts
  Feeds,      \* callers that import trusted collections
  Keys,       \* command keys
  EventIds,   \* numbers under which the channel reports the end of a refund
  MaxAttempts,\* bound: attempts at one refund
  Nil         \* SQL NULL, a row that does not exist, an idle caller

VARIABLES
  quotes,     \* tennis.topup_quotes
  status,     \* of payment_attempts and topup_payments
  funding,    \* their provider_transaction_id
  claims,     \* tennis.channel_transactions: the source of a transaction
  batches,    \* transactions credited to the wallet
  exceptions, \* financial_exceptions and topup_exceptions
  resolved,   \* those with status RESOLVED
  events,     \* payment_events and topup_events
  receipts,   \* tennis.wecom_receipts
  closed,     \* sources whose channel operation a receipt set to SUCCEEDED
  commands,   \* tennis.command_receipts
  allowed,    \* employees with the permissions
  jobs,       \* what each caller is linking
  captured,   \* the channel's records: what it reported each transaction for
  refunds,    \* tennis.exception_refunds and their channel operations
  observed,   \* stored observations of refunds
  refunded    \* tennis.exception_refund_events

books  == <<status, funding, claims, batches, exceptions>>
linked == <<receipts, closed, jobs>>
returns == <<resolved, refunds, observed, refunded>>
vars   == <<quotes, books, linked, returns, events, commands, allowed, captured>>

Sources == Orders \cup Topups
Callers == Employees \cup Feeds

Statuses == {"PENDING", "SUCCEEDED", "FAILED", "EXPIRED", "REFUND_REQUIRED"}

ASSUME IntakeAssumption ==
  /\ Orders \cap Topups = {}
  /\ Employees \cap Feeds = {}
  /\ MaxAttempts \in Nat
  /\ Nil \notin Sources \cup Txns \cup Callers \cup Keys \cup EventIds
  /\ Nil \notin Statuses

Exception == [source: Sources, txn: Txns,
              kind: {"LATE_PAYMENT", "DUPLICATE_PAYMENT", "EXTRA_TOPUP_RECEIPT"}]

\* A verified payment event: the failure of a payment carries no transaction.
Event == [from: {"channel", "wecom"}, txn: Txns \cup {Nil}, source: Sources]

Receipt == [trusted: Sources \cup {Nil}, op: Sources \cup {Nil},
            state: {"UNMATCHED", "REVIEW", "LINKED", "EXCEPTION"},
            by: Callers \cup {Nil}]

Job == [step: {"check", "settle", "review"}, receipt: Txns, op: Sources,
        key: Keys \cup {Nil}]

\* The result of each attempt (generation) in the channel, and the attempt that
\* gave the money back (provider_refund_id).
Refund == [status: {"REQUESTED", "SUCCEEDED", "FAILED"},
           results: Seq({"OPEN", "SUCCEEDED", "FAILED"}), paid: Nat]

Observation == [exception: Exception, attempt: Nat, id: EventIds]

\* What a command asks for: its type and what it is about.
Request == [type: {"topup.begin"}, of: Topups]
           \cup [type: {"wecom.receipt.link"}, of: [txn: Txns, source: Sources]]
           \cup [type: {"exception_refund.request", "exception_refund.retry"}, of: Exception]

ASSUME RowsAssumption ==
  Nil \notin Receipt /\ Nil \notin Job /\ Nil \notin Refund /\ Nil \notin Request
-----------------------------------------------------------------------------
(***************************************************************************)
(* idempotentCommand: the first command under a key acts and leaves its    *)
(* receipt, in one transaction.  The same request again gets the stored    *)
(* result and another request is refused; both change nothing.             *)
(***************************************************************************)
Unanswered(k, request) == commands[k] = Nil

Answer(k, request) == commands' = [commands EXCEPT ![k] = request]
-----------------------------------------------------------------------------
(***************************************************************************)
(* Top-ups and orders ask for money.                                       *)
(***************************************************************************)
CreateTopupQuote(s) ==
  /\ quotes[s] = Nil
  /\ quotes' = [quotes EXCEPT ![s] = "OPEN"]
  /\ UNCHANGED <<books, linked, returns, events, commands, allowed, captured>>

\* Five minutes pass.  Once there is a payment nothing looks at the quote's time.
QuoteLapses(s) ==
  /\ quotes[s] = "OPEN" /\ status[s] = Nil
  /\ quotes' = [quotes EXCEPT ![s] = "EXPIRED"]
  /\ UNCHANGED <<books, linked, returns, events, commands, allowed, captured>>

\* Another key for the same quote finds the payment that is there.
BeginTopupPayment(s, k) ==
  /\ quotes[s] # Nil
  /\ Unanswered(k, [type |-> "topup.begin", of |-> s])
  /\ status[s] = Nil => quotes[s] = "OPEN"
  /\ status' = [status EXCEPT ![s] = IF @ = Nil THEN "PENDING" ELSE @]
  /\ Answer(k, [type |-> "topup.begin", of |-> s])
  /\ UNCHANGED <<quotes, funding, claims, batches, exceptions, linked, returns,
                 events, allowed, captured>>

\* Orders are CourtBooking's: here one begins to wait for money, and stops when
\* it expires or is cancelled.
BeginOrderPayment(s) ==
  /\ status[s] = Nil
  /\ status' = [status EXCEPT ![s] = "PENDING"]
  /\ UNCHANGED <<quotes, funding, claims, batches, exceptions, linked, returns,
                 events, commands, allowed, captured>>

\* EXPIRED stands for CANCELLED too: nothing tells them apart here.
Released(s) == IF s \in Orders /\ status[s] = "PENDING" THEN "EXPIRED" ELSE status[s]

ReleasePendingPayments(s) ==
  /\ status[s] = "PENDING"
  /\ status' = [status EXCEPT ![s] = Released(s)]
  /\ UNCHANGED <<quotes, funding, claims, batches, exceptions, linked, returns,
                 events, commands, allowed, captured>>
-----------------------------------------------------------------------------
(***************************************************************************)
(* settleVerifiedPayment and settleVerifiedTopup.  An order whose hold is  *)
(* over is expired first; now is the status of the source after that.      *)
(***************************************************************************)
\* claimChannelTransaction: one transaction, one source.
Fault_Claimable(t, s) == TRUE
Claimable(t, s) == claims[t] \in {Nil, s}

\* An order takes money while it waits, a top-up until it has some.
Takes(s, now) == IF s \in Orders THEN now = "PENDING" ELSE now \in {"PENDING", "FAILED"}

Fund(s, t, now) ==
  /\ funding[s] = Nil /\ Takes(s, now)
  /\ status' = [status EXCEPT ![s] = "SUCCEEDED"]
  /\ funding' = [funding EXCEPT ![s] = t]
  /\ batches' = IF s \in Topups THEN batches \cup {t} ELSE batches
  /\ UNCHANGED exceptions

\* LATE_PAYMENT: nothing waits for the money any more.
ComesLate(s, t, now) ==
  /\ funding[s] = Nil /\ ~Takes(s, now)
  /\ status' = [status EXCEPT ![s] = "REFUND_REQUIRED"]
  /\ funding' = [funding EXCEPT ![s] = t]
  /\ exceptions' = exceptions \cup {[source |-> s, txn |-> t, kind |-> "LATE_PAYMENT"]}
  /\ UNCHANGED batches

\* DUPLICATE_PAYMENT, or the extra receipt of a top-up.
ComesTwice(s, t, now) ==
  /\ funding[s] \notin {Nil, t}
  /\ exceptions' = exceptions \cup
       {[source |-> s, txn |-> t,
         kind |-> IF s \in Orders THEN "DUPLICATE_PAYMENT" ELSE "EXTRA_TOPUP_RECEIPT"]}
  /\ status' = [status EXCEPT ![s] = now]
  /\ UNCHANGED <<funding, batches>>

IsKnown(s, t, now) ==
  /\ funding[s] = t
  /\ status' = [status EXCEPT ![s] = now]
  /\ UNCHANGED <<funding, batches, exceptions>>

RecordSuccess(s, t, now) ==
  /\ Claimable(t, s)
  /\ claims' = [claims EXCEPT ![t] = s]
  /\ \/ Fund(s, t, now)
     \/ ComesLate(s, t, now)
     \/ ComesTwice(s, t, now)
     \/ IsKnown(s, t, now)

\* The status of s when it is settled.
Now(s) == {status[s], Released(s)}

\* The channel reports a transaction for the payment it was made for, always the
\* same one; what another source has taken is refused.
SettleSuccess(t, s) ==
  LET e == [from |-> "channel", txn |-> t, source |-> s] IN
  /\ captured[t] \in {Nil, s} /\ e \notin events
  /\ status[s] # Nil /\ <<t, s>> \in Fitting
  /\ captured' = [captured EXCEPT ![t] = s]
  /\ \/ /\ \E now \in Now(s) : RecordSuccess(s, t, now)
        /\ events' = events \cup {e}
     \/ ~Claimable(t, s) /\ UNCHANGED <<books, events>>
  /\ UNCHANGED <<quotes, linked, returns, commands, allowed>>

SettleFailure(s) ==
  LET e == [from |-> "channel", txn |-> Nil, source |-> s] IN
  /\ status[s] # Nil /\ e \notin events
  /\ \E now \in Now(s) :
       status' = [status EXCEPT ![s] = IF Takes(s, now) THEN "FAILED" ELSE now]
  /\ events' = events \cup {e}
  /\ UNCHANGED <<quotes, funding, claims, batches, exceptions, linked, returns,
                 commands, allowed, captured>>
-----------------------------------------------------------------------------
(***************************************************************************)
(* WeCom receipts.                                                         *)
(***************************************************************************)
\* validateMatch
Matches(t, s) ==
  /\ receipts[t].trusted \in {Nil, s}
  /\ receipts[t].op \in {Nil, s}
  /\ <<t, s>> \in Fitting

Done(c) == jobs' = [jobs EXCEPT ![c] = Nil]

\* authorizeLink: permissions are those of the moment; a feed needs none.
Authorised(c) == c \in Employees => c \in allowed

\* ingestWecomCollection stores what it has not seen; the same transaction with
\* other facts is refused.
IngestWecomCollection(c, t, s) ==
  /\ jobs[c] = Nil
  /\ receipts[t] # Nil => receipts[t].trusted = s
  /\ receipts' = IF receipts[t] # Nil THEN receipts
                 ELSE [receipts EXCEPT ![t] =
                         [trusted |-> s, op |-> Nil, state |-> "UNMATCHED", by |-> Nil]]
  /\ jobs' = IF s = Nil \/ receipts'[t].op # Nil THEN jobs
             ELSE [jobs EXCEPT ![c] = [step |-> "check", receipt |-> t, op |-> s, key |-> Nil]]
  /\ UNCHANGED <<quotes, books, returns, events, closed, commands, allowed, captured>>

\* The preflight of a trusted reference ...
PreflightTrusted(c) ==
  LET job == jobs[c] IN
  /\ job # Nil /\ job.step = "check"
  /\ jobs' = [jobs EXCEPT ![c].step =
                IF status[job.op] # Nil /\ Matches(job.receipt, job.op) THEN "settle" ELSE "review"]
  /\ UNCHANGED <<quotes, books, returns, events, receipts, closed, commands, allowed, captured>>

\* ... and that of an employee, who links by hand (linkWecomReceipt, without a
\* key, and linkStaffWecomReceipt).
PreflightManual(c, t, s, k) ==
  /\ jobs[c] = Nil
  /\ receipts[t] # Nil /\ status[s] # Nil
  /\ Authorised(c) /\ Matches(t, s)
  /\ jobs' = [jobs EXCEPT ![c] = [step |-> "settle", receipt |-> t, op |-> s, key |-> k]]
  /\ UNCHANGED <<quotes, books, returns, events, receipts, closed, commands, allowed, captured>>

\* beforeSettlement: what may have changed since the preflight is checked again.
Fault_BeforeSettlement(c) == Matches(jobs[c].receipt, jobs[c].op)
BeforeSettlement(c) == Authorised(c) /\ Matches(jobs[c].receipt, jobs[c].op)

LinkRequest(job) == [type |-> "wecom.receipt.link", of |-> [txn |-> job.receipt, source |-> job.op]]

KeyFits(job) == job.key # Nil => commands[job.key] \in {Nil, LinkRequest(job)}

\* The state of a receipt after its settlement.
Fault_LinkState(t, s) ==
  IF \E x \in exceptions : x.source = s /\ x.txn = t THEN "EXCEPTION" ELSE "LINKED"
LinkState(t, s) ==
  IF \E x \in exceptions' : x.source = s /\ x.txn = t THEN "EXCEPTION" ELSE "LINKED"

\* beforeCommit
Link(c) ==
  LET job == jobs[c]
      t == job.receipt
      s == job.op IN
  /\ receipts' = IF receipts[t].op # Nil THEN receipts
                 ELSE [receipts EXCEPT ![t] =
                         [trusted |-> receipts[t].trusted, op |-> s,
                          state |-> LinkState(t, s), by |-> c]]
  /\ closed' = closed \cup {s}
  /\ commands' = IF job.key = Nil THEN commands
                 ELSE [commands EXCEPT ![job.key] = LinkRequest(job)]
  /\ Done(c)

WecomEvent(job) == [from |-> "wecom", txn |-> job.receipt, source |-> job.op]

\* applyReceipt settles: the books, the receipt and the command in one transaction.
SettleReceipt(c) ==
  LET job == jobs[c] IN
  /\ job # Nil /\ job.step = "settle"
  /\ BeforeSettlement(c) /\ KeyFits(job)
  /\ \/ /\ WecomEvent(job) \notin events
        /\ \E now \in Now(job.op) : RecordSuccess(job.op, job.receipt, now)
        /\ events' = events \cup {WecomEvent(job)}
     \/ /\ WecomEvent(job) \in events
        /\ UNCHANGED <<books, events>>
  /\ Link(c)
  /\ UNCHANGED <<quotes, returns, allowed, captured>>

\* The settlement throws and nothing of it stays: an employee gets the error, a
\* feed notes it.
RefuseReceipt(c) ==
  LET job == jobs[c] IN
  /\ job # Nil /\ job.step = "settle"
  /\ \/ ~BeforeSettlement(c)
     \/ ~KeyFits(job)
     \/ WecomEvent(job) \notin events /\ ~Claimable(job.receipt, job.op)
  /\ jobs' = [jobs EXCEPT ![c] = IF c \in Feeds THEN [job EXCEPT !.step = "review"] ELSE Nil]
  /\ UNCHANGED <<quotes, books, returns, events, receipts, closed, commands, allowed, captured>>

ReviewReceipt(c) ==
  LET job == jobs[c] IN
  /\ job # Nil /\ job.step = "review"
  /\ receipts' = IF receipts[job.receipt].op # Nil THEN receipts
                 ELSE [receipts EXCEPT ![job.receipt].state = "REVIEW"]
  /\ Done(c)
  /\ UNCHANGED <<quotes, books, returns, events, closed, commands, allowed, captured>>

\* The process stops, or the request is given up, between two transactions.
Crash(c) ==
  /\ jobs[c] # Nil
  /\ Done(c)
  /\ UNCHANGED <<quotes, books, returns, events, receipts, closed, commands, allowed, captured>>

\* An administrator gives or takes the permissions of an employee.
ChangePermission(c) ==
  /\ allowed' = IF c \in allowed THEN allowed \ {c} ELSE allowed \cup {c}
  /\ UNCHANGED <<quotes, books, linked, returns, events, commands, captured>>
-----------------------------------------------------------------------------
(***************************************************************************)
(* Exceptional money is given back.                                        *)
(***************************************************************************)
\* cashExceptionInTransaction: the rows still say that x funded nothing.
Refundable(x) ==
  /\ claims[x.txn] = x.source /\ funding[x.source] # Nil
  /\ x.kind = "LATE_PAYMENT" =>
       status[x.source] = "REFUND_REQUIRED" /\ funding[x.source] = x.txn
  /\ x.kind = "DUPLICATE_PAYMENT" =>
       status[x.source] \in {"SUCCEEDED", "REFUND_REQUIRED"} /\ funding[x.source] # x.txn
  /\ x.kind = "EXTRA_TOPUP_RECEIPT" =>
       status[x.source] = "SUCCEEDED" /\ funding[x.source] # x.txn

\* Another operator who asks again gets the refund that is there.
RequestExceptionRefund(x, k) ==
  /\ Refundable(x)
  /\ Unanswered(k, [type |-> "exception_refund.request", of |-> x])
  /\ refunds[x] = Nil => x \notin resolved
  /\ refunds' = IF refunds[x] # Nil THEN refunds
                ELSE [refunds EXCEPT ![x] =
                        [status |-> "REQUESTED", results |-> <<"OPEN">>, paid |-> 0]]
  /\ Answer(k, [type |-> "exception_refund.request", of |-> x])
  /\ UNCHANGED <<quotes, books, linked, resolved, observed, refunded, events, allowed, captured>>

Latest(x) == Len(refunds[x].results)
IsObserved(x, n) == \E o \in observed : o.exception = x /\ o.attempt = n

\* A new attempt follows one the channel is known to have refused.
RetryExceptionRefund(x, k) ==
  /\ refunds[x] # Nil /\ refunds[x].status = "FAILED"
  /\ Unanswered(k, [type |-> "exception_refund.retry", of |-> x])
  /\ Refundable(x) /\ x \notin resolved
  /\ IsObserved(x, Latest(x)) /\ refunds[x].results[Latest(x)] = "FAILED"
  /\ Latest(x) < MaxAttempts
  /\ refunds' = [refunds EXCEPT ![x].status = "REQUESTED",
                                ![x].results = Append(@, "OPEN")]
  /\ Answer(k, [type |-> "exception_refund.retry", of |-> x])
  /\ UNCHANGED <<quotes, books, linked, resolved, observed, refunded, events, allowed, captured>>

\* The channel decides an attempt, once.
ChannelRefunds(x, n, result) ==
  /\ refunds[x] # Nil /\ n \in 1 .. Latest(x)
  /\ refunds[x].results[n] = "OPEN"
  /\ refunds' = [refunds EXCEPT ![x].results[n] = result]
  /\ UNCHANGED <<quotes, books, linked, resolved, observed, refunded, events, commands,
                 allowed, captured>>

\* PaymentChannel stores what it hears before it is settled.
ObserveRefund(x, n, id) ==
  /\ refunds[x] # Nil /\ n \in 1 .. Latest(x)
  /\ refunds[x].results[n] # "OPEN"
  /\ observed' = observed \cup {[exception |-> x, attempt |-> n, id |-> id]}
  /\ UNCHANGED <<quotes, books, linked, resolved, refunds, refunded, events, commands,
                 allowed, captured>>

\* An old attempt's failure does not end a newer attempt.
Fault_Superseded(x, n) == FALSE
Superseded(x, n) == n < Latest(x)

SettleExceptionRefund(o) ==
  LET x == o.exception
      result == refunds[x].results[o.attempt] IN
  /\ o \notin refunded
  /\ Refundable(x)
  /\ \/ /\ result = "SUCCEEDED"
        /\ refunds[x].paid \in {0, o.attempt}
        /\ refunds' = [refunds EXCEPT ![x].status = "SUCCEEDED", ![x].paid = o.attempt]
        /\ resolved' = resolved \cup {x}
     \/ /\ result = "FAILED"
        /\ refunds' = IF refunds[x].status = "SUCCEEDED" \/ Superseded(x, o.attempt) THEN refunds
                      ELSE [refunds EXCEPT ![x].status = "FAILED"]
        /\ UNCHANGED resolved
  /\ refunded' = refunded \cup {o}
  /\ UNCHANGED <<quotes, books, linked, observed, events, commands, allowed, captured>>
-----------------------------------------------------------------------------
Init ==
  /\ quotes = [s \in Topups |-> Nil]
  /\ status = [s \in Sources |-> Nil]
  /\ funding = [s \in Sources |-> Nil]
  /\ claims = [t \in Txns |-> Nil]
  /\ batches = {}
  /\ exceptions = {}
  /\ resolved = {}
  /\ events = {}
  /\ receipts = [t \in Txns |-> Nil]
  /\ closed = {}
  /\ commands = [k \in Keys |-> Nil]
  /\ allowed = Employees
  /\ jobs = [c \in Callers |-> Nil]
  /\ captured = [t \in Txns |-> Nil]
  /\ refunds = [x \in Exception |-> Nil]
  /\ observed = {}
  /\ refunded = {}

Pay ==
  \/ \E s \in Topups : CreateTopupQuote(s) \/ QuoteLapses(s)
  \/ \E s \in Topups, k \in Keys : BeginTopupPayment(s, k)
  \/ \E s \in Orders : BeginOrderPayment(s) \/ ReleasePendingPayments(s)
  \/ \E t \in Txns, s \in Sources : SettleSuccess(t, s)
  \/ \E s \in Sources : SettleFailure(s)

Reconcile ==
  \/ \E c \in Feeds, t \in Txns, s \in Sources \cup {Nil} : IngestWecomCollection(c, t, s)
  \/ \E c \in Employees, t \in Txns, s \in Sources, k \in Keys \cup {Nil} :
       PreflightManual(c, t, s, k)
  \/ \E c \in Employees : ChangePermission(c)
  \/ \E c \in Callers :
       \/ PreflightTrusted(c)
       \/ SettleReceipt(c)
       \/ RefuseReceipt(c)
       \/ ReviewReceipt(c)
       \/ Crash(c)

GiveBack ==
  \/ \E x \in exceptions, k \in Keys : RequestExceptionRefund(x, k)
  \/ \E x \in exceptions, k \in Keys : RetryExceptionRefund(x, k)
  \/ \E x \in exceptions, n \in 1 .. MaxAttempts, result \in {"SUCCEEDED", "FAILED"} :
       ChannelRefunds(x, n, result)
  \/ \E x \in exceptions, n \in 1 .. MaxAttempts, id \in EventIds : ObserveRefund(x, n, id)
  \/ \E o \in observed : SettleExceptionRefund(o)

Next == Pay \/ Reconcile \/ GiveBack

Spec == Init /\ [][Next]_vars
-----------------------------------------------------------------------------
(***************************************************************************)
(* Properties.                                                             *)
(***************************************************************************)
TypeOK ==
  /\ quotes \in [Topups -> {"OPEN", "EXPIRED", Nil}]
  /\ status \in [Sources -> Statuses \cup {Nil}]
  /\ funding \in [Sources -> Txns \cup {Nil}]
  /\ claims \in [Txns -> Sources \cup {Nil}]
  /\ batches \subseteq Txns
  /\ exceptions \subseteq Exception /\ resolved \subseteq exceptions
  /\ events \subseteq Event
  /\ receipts \in [Txns -> Receipt \cup {Nil}]
  /\ closed \subseteq Sources
  /\ commands \in [Keys -> Request \cup {Nil}]
  /\ allowed \subseteq Employees
  /\ jobs \in [Callers -> Job \cup {Nil}]
  /\ captured \in [Txns -> Sources \cup {Nil}]
  /\ refunds \in [Exception -> Refund \cup {Nil}]
  /\ observed \subseteq Observation /\ refunded \subseteq observed

\* The exceptions of transaction t.
ExceptionsOf(t) == {x \in exceptions : x.txn = t}

\* Source s took transaction t and is paid by it.
Funds(t, s) == funding[s] = t /\ status[s] = "SUCCEEDED"

\* A transaction that was taken either funds its source, and a top-up's is in the
\* wallet, or it is one exception of that source.  Nothing else is funded, and no
\* transaction has two sources or two exceptions.
CashIsAccounted ==
  /\ TypeOK
  /\ \A t \in Txns, s \in Sources :
       claims[t] = s =>
         \/ Funds(t, s) /\ ExceptionsOf(t) = {}
         \/ ~Funds(t, s) /\ \E x \in ExceptionsOf(t) :
              x.source = s /\ Refundable(x) /\ ExceptionsOf(t) = {x}
  /\ \A t \in Txns : claims[t] = Nil => ExceptionsOf(t) = {}
  /\ \A s \in Sources :
       /\ status[s] \in {"SUCCEEDED", "REFUND_REQUIRED"} <=> funding[s] # Nil
       /\ funding[s] # Nil => claims[funding[s]] = s
  /\ batches = {funding[s] : s \in Topups} \ {Nil}

\* A WeCom receipt that was linked agrees with the books: the transaction belongs
\* to the payment it is linked to, which is the one it names if it names one, and
\* its state says whether the money is an exception.  A link that was answered
\* under a command key is the link that is there.
ReceiptsAgreeWithBooks ==
  /\ \A t \in Txns : receipts[t] # Nil =>
       LET r == receipts[t] IN
       /\ r.op = Nil <=> r.state \in {"UNMATCHED", "REVIEW"}
       /\ r.op # Nil =>
            /\ claims[t] = r.op /\ r.op \in closed
            /\ r.trusted \in {Nil, r.op}
            /\ r.state = "LINKED" <=> Funds(t, r.op)
  /\ \A k \in Keys : commands[k] # Nil /\ commands[k].type = "wecom.receipt.link" =>
       /\ receipts[commands[k].of.txn] # Nil
       /\ receipts[commands[k].of.txn].op = commands[k].of.source

\* A receipt is linked by someone who may link it when the money is booked, not
\* only when the link was asked for; and once linked it stays as it is.
LinksAreAuthorised ==
  [][\A t \in Txns : receipts[t] # Nil =>
       IF receipts[t].op = Nil
       THEN receipts'[t].op # Nil => receipts'[t].by \in allowed \cup Feeds
       ELSE receipts'[t] = receipts[t]]_vars

\* The number of successes of x in the channel.
Returned(x) == Cardinality({n \in 1 .. Latest(x) : refunds[x].results[n] = "SUCCEEDED"})

RetryKeys(x) == {k \in Keys : commands[k] = [type |-> "exception_refund.retry", of |-> x]}

\* Exceptional money is given back at most once, whatever is asked, retried and
\* reported twice: an exception is resolved exactly when the books know of the
\* success of its refund, a refund counts as failed only if its last attempt did,
\* and every further attempt was asked for by a command of its own.
RefundsFollowChannel ==
  /\ resolved = {x \in exceptions : refunds[x] # Nil /\ refunds[x].status = "SUCCEEDED"}
  /\ \A x \in exceptions : refunds[x] # Nil =>
       /\ Returned(x) <= 1
       /\ refunds[x].status = "SUCCEEDED" => refunds[x].results[refunds[x].paid] = "SUCCEEDED"
       /\ refunds[x].status = "FAILED" => refunds[x].results[Latest(x)] = "FAILED"
       /\ Latest(x) = 1 + Cardinality(RetryKeys(x))
=============================================================================
