-------------------------- MODULE CashIntake_proofs --------------------------
(***************************************************************************)
(* Proofs about CashIntake: where money goes, what linked receipts say,    *)
(* who links them, and how often exceptional money is given back, for      *)
(* every number of payments, transactions, callers, keys and attempts.     *)
(*                                                                         *)
(* The inductive invariant is IntakeInv.  Its parts about the books are    *)
(* kept because an action changes them in one of three ways (BooksMove):   *)
(* not at all, the status of a source without money, or by RecordSuccess.  *)
(***************************************************************************)
EXTENDS CashIntake, FiniteSetTheorems, TLAPS

\* Which exceptions belong to top-ups, and which states a top-up never takes.
KindsFit ==
  /\ \A x \in exceptions : x.source \in Topups <=> x.kind = "EXTRA_TOPUP_RECEIPT"
  /\ \A s \in Topups : status[s] \notin {"EXPIRED", "REFUND_REQUIRED"}

\* A caller that settles has found its receipt and its payment.
JobsHaveRows ==
  \A c \in Callers : jobs[c] # Nil =>
    /\ receipts[jobs[c].receipt] # Nil
    /\ jobs[c].step = "settle" => status[jobs[c].op] # Nil

\* What was settled from WeCom is claimed by the payment it was settled for.
EventsAreClaimed ==
  \A t \in Txns, s \in Sources :
    [from |-> "wecom", txn |-> t, source |-> s] \in events => claims[t] = s

\* A further attempt follows refused ones; only the last one may be undecided.
AttemptsInOrder ==
  \A x \in Exception : refunds[x] # Nil =>
    /\ x \in exceptions
    /\ Latest(x) >= 1
    /\ \A n \in 1 .. Latest(x) - 1 : refunds[x].results[n] = "FAILED"
    /\ refunds[x].status = "SUCCEEDED" => refunds[x].paid \in 1 .. Latest(x)

\* What was observed is a decision the channel made.
ObservationsHaveResults ==
  \A o \in observed :
    /\ refunds[o.exception] # Nil
    /\ o.attempt \in 1 .. Latest(o.exception)
    /\ refunds[o.exception].results[o.attempt] # "OPEN"

\* The command keys spent on retries of a refund are finitely many.
RetriesAreCounted ==
  \A x \in Exception : IsFiniteSet(RetryKeys(x)) /\ (refunds[x] = Nil => RetryKeys(x) = {})

IntakeInv ==
  /\ TypeOK /\ KindsFit /\ CashIsAccounted
  /\ JobsHaveRows /\ EventsAreClaimed /\ ReceiptsAgreeWithBooks
  /\ AttemptsInOrder /\ ObservationsHaveResults /\ RetriesAreCounted /\ RefundsFollowChannel

(***************************************************************************)
(* Types.                                                                  *)
(***************************************************************************)
\* What one settlement of a success leaves of the types.
LEMMA RecordType ==
  ASSUME TypeOK, NEW s \in Sources, NEW t \in Txns, NEW now \in Now(s), RecordSuccess(s, t, now),
         status[s] # Nil
  PROVE  /\ status' \in [Sources -> Statuses \cup {Nil}]
         /\ funding' \in [Sources -> Txns \cup {Nil}]
         /\ claims' \in [Txns -> Sources \cup {Nil}]
         /\ batches' \subseteq Txns
         /\ exceptions' \subseteq Exception
         /\ exceptions \subseteq exceptions'
<1>1. now \in Statuses
  BY DEF TypeOK, Now, Released, Statuses
<1>2. claims' \in [Txns -> Sources \cup {Nil}]
  BY DEF RecordSuccess, TypeOK
<1>3. CASE Fund(s, t, now)
  BY <1>2, <1>3 DEF Fund, TypeOK, Statuses
<1>4. CASE ComesLate(s, t, now)
  BY <1>2, <1>4 DEF ComesLate, TypeOK, Statuses, Exception
<1>5. CASE ComesTwice(s, t, now)
  <2>1. exceptions' \subseteq Exception /\ exceptions \subseteq exceptions'
    BY <1>5 DEF ComesTwice, TypeOK, Exception
  <2> QED
    BY <1>1, <1>2, <1>5, <2>1 DEF ComesTwice, TypeOK
<1>6. CASE IsKnown(s, t, now)
  BY <1>1, <1>2, <1>6 DEF IsKnown, TypeOK
<1> QED
  BY <1>3, <1>4, <1>5, <1>6 DEF RecordSuccess

LEMMA PayType ==
  ASSUME TypeOK, Pay
  PROVE  TypeOK'
<1>1. ASSUME NEW s \in Topups, CreateTopupQuote(s) \/ QuoteLapses(s)
      PROVE  TypeOK'
  BY <1>1 DEF TypeOK, CreateTopupQuote, QuoteLapses, books, linked, returns
<1>2. ASSUME NEW s \in Topups, NEW k \in Keys, BeginTopupPayment(s, k)
      PROVE  TypeOK'
  BY <1>2 DEF TypeOK, BeginTopupPayment, Answer, Request, Sources, Statuses, linked, returns
<1>3. ASSUME NEW s \in Orders, BeginOrderPayment(s) \/ ReleasePendingPayments(s)
      PROVE  TypeOK'
  BY <1>3 DEF TypeOK, BeginOrderPayment, ReleasePendingPayments, Released, Sources, Statuses, linked, returns
<1>4. ASSUME NEW t \in Txns, NEW s \in Sources, SettleSuccess(t, s)
      PROVE  TypeOK'
  <2> DEFINE e == [from |-> "channel", txn |-> t, source |-> s]
  <2>1. /\ captured' \in [Txns -> Sources \cup {Nil}]
        /\ UNCHANGED <<quotes, linked, returns, commands, allowed>>
        /\ status[s] # Nil
        /\ e \in Event
    BY <1>4 DEF SettleSuccess, TypeOK, Event
  <2>2. CASE UNCHANGED <<books, events>>
    BY <2>1, <2>2 DEF TypeOK, books, linked, returns
  <2>3. ASSUME NEW now \in Now(s), RecordSuccess(s, t, now), events' = events \cup {e}
        PROVE  TypeOK'
    <3> HIDE DEF e
    <3>1. events' \subseteq Event
      BY <2>1, <2>3 DEF TypeOK
    <3> QED
      BY <2>1, <2>3, <3>1, RecordType DEF TypeOK, linked, returns
  <2> QED
    BY <1>4, <2>2, <2>3 DEF SettleSuccess
<1>5. ASSUME NEW s \in Sources, SettleFailure(s)
      PROVE  TypeOK'
  BY <1>5 DEF TypeOK, SettleFailure, Takes, Now, Released, Event, Statuses, linked, returns
<1> QED
  BY <1>1, <1>2, <1>3, <1>4, <1>5 DEF Pay

LEMMA ReconcileType ==
  ASSUME TypeOK, JobsHaveRows, Reconcile
  PROVE  TypeOK'
<1>1. ASSUME NEW c \in Feeds, NEW t \in Txns, NEW s \in Sources \cup {Nil}, IngestWecomCollection(c, t, s)
      PROVE  TypeOK'
  <2>1. receipts' \in [Txns -> Receipt \cup {Nil}]
    BY <1>1 DEF TypeOK, IngestWecomCollection, Receipt, Callers
  <2>2. jobs' \in [Callers -> Job \cup {Nil}]
    BY <1>1 DEF TypeOK, IngestWecomCollection, Job, Callers
  <2> QED
    BY <1>1, <2>1, <2>2 DEF TypeOK, IngestWecomCollection, books, returns
<1>2. ASSUME NEW c \in Employees, NEW t \in Txns, NEW s \in Sources, NEW k \in Keys \cup {Nil},
             PreflightManual(c, t, s, k)
      PROVE  TypeOK'
  <2>1. jobs' \in [Callers -> Job \cup {Nil}]
    BY <1>2 DEF TypeOK, PreflightManual, Job, Callers
  <2> QED
    BY <1>2, <2>1 DEF TypeOK, PreflightManual, books, returns
<1>3. ASSUME NEW c \in Employees, ChangePermission(c)
      PROVE  TypeOK'
  BY <1>3 DEF TypeOK, ChangePermission, books, linked, returns
<1>4. ASSUME NEW c \in Callers, PreflightTrusted(c) \/ RefuseReceipt(c) \/ Crash(c)
      PROVE  TypeOK'
  <2>1. jobs' \in [Callers -> Job \cup {Nil}]
    BY <1>4 DEF TypeOK, PreflightTrusted, RefuseReceipt, Crash, Done, Job
  <2> QED
    BY <1>4, <2>1 DEF TypeOK, PreflightTrusted, RefuseReceipt, Crash, books, returns
<1>5. ASSUME NEW c \in Callers, ReviewReceipt(c)
      PROVE  TypeOK'
  <2>1. jobs[c] \in Job /\ receipts[jobs[c].receipt] \in Receipt
    BY <1>5 DEF TypeOK, JobsHaveRows, ReviewReceipt, Job
  <2>2. receipts' \in [Txns -> Receipt \cup {Nil}]
    BY <1>5, <2>1 DEF TypeOK, ReviewReceipt, Receipt
  <2>3. jobs' \in [Callers -> Job \cup {Nil}]
    BY <1>5 DEF TypeOK, ReviewReceipt, Done
  <2> QED
    BY <1>5, <2>2, <2>3 DEF TypeOK, ReviewReceipt, books, returns
<1>6. ASSUME NEW c \in Callers, SettleReceipt(c)
      PROVE  TypeOK'
  <2> DEFINE t == jobs[c].receipt
             s == jobs[c].op
  <2>1. /\ jobs[c] \in Job /\ t \in Txns /\ s \in Sources
        /\ receipts[t] \in Receipt /\ status[s] # Nil
    BY <1>6 DEF TypeOK, JobsHaveRows, SettleReceipt, Job
  <2>2. receipts' \in [Txns -> Receipt \cup {Nil}]
    BY <1>6, <2>1 DEF TypeOK, SettleReceipt, Link, LinkState, Receipt
  <2>3. closed' \subseteq Sources /\ jobs' \in [Callers -> Job \cup {Nil}]
    BY <1>6, <2>1 DEF TypeOK, SettleReceipt, Link, Done
  <2>4. commands' \in [Keys -> Request \cup {Nil}]
    BY <1>6, <2>1 DEF TypeOK, SettleReceipt, Link, LinkRequest, Request, Job
  <2>5. WecomEvent(jobs[c]) \in Event
    BY <2>1 DEF WecomEvent, Event
  <2>6. events' \subseteq Event
    BY <1>6, <2>5 DEF TypeOK, SettleReceipt
  <2>7. UNCHANGED <<quotes, returns, allowed, captured>>
    BY <1>6 DEF SettleReceipt
  <2>8. CASE UNCHANGED books
    BY <2>2, <2>3, <2>4, <2>6, <2>7, <2>8 DEF TypeOK, returns, books
  <2>9. ASSUME NEW now \in Now(s), RecordSuccess(s, t, now)
        PROVE  TypeOK'
    <3> HIDE DEF s, t
    <3> QED
      BY <2>1, <2>2, <2>3, <2>4, <2>6, <2>7, <2>9, RecordType DEF TypeOK, returns
  <2> QED
    BY <1>6, <2>8, <2>9 DEF SettleReceipt
<1> QED
  BY <1>1, <1>2, <1>3, <1>4, <1>5, <1>6 DEF Reconcile, Callers

LEMMA GiveBackType ==
  ASSUME TypeOK, AttemptsInOrder, ObservationsHaveResults, GiveBack
  PROVE  TypeOK'
<1>1. ASSUME NEW x \in exceptions, NEW k \in Keys, RequestExceptionRefund(x, k)
      PROVE  TypeOK'
  <2>1. x \in Exception
    BY DEF TypeOK
  <2>2. [status |-> "REQUESTED", results |-> <<"OPEN">>, paid |-> 0] \in Refund
    BY DEF Refund
  <2>3. refunds' \in [Exception -> Refund \cup {Nil}]
    BY <1>1, <2>1, <2>2 DEF TypeOK, RequestExceptionRefund
  <2>4. commands' \in [Keys -> Request \cup {Nil}]
    BY <1>1, <2>1 DEF TypeOK, RequestExceptionRefund, Answer, Request
  <2> QED
    BY <1>1, <2>3, <2>4 DEF TypeOK, RequestExceptionRefund, books, linked
<1>2. ASSUME NEW x \in exceptions, NEW k \in Keys, RetryExceptionRefund(x, k)
      PROVE  TypeOK'
  <2>1. x \in Exception /\ refunds[x] \in Refund
    BY <1>2 DEF TypeOK, RetryExceptionRefund
  <2>2. Append(refunds[x].results, "OPEN") \in Seq({"OPEN", "SUCCEEDED", "FAILED"})
    BY <2>1 DEF Refund
  <2>3. refunds' \in [Exception -> Refund \cup {Nil}]
    BY <1>2, <2>1, <2>2 DEF TypeOK, RetryExceptionRefund, Refund
  <2>4. commands' \in [Keys -> Request \cup {Nil}]
    BY <1>2, <2>1 DEF TypeOK, RetryExceptionRefund, Answer, Request
  <2> QED
    BY <1>2, <2>3, <2>4 DEF TypeOK, RetryExceptionRefund, books, linked
<1>3. ASSUME NEW x \in exceptions, NEW n \in 1 .. MaxAttempts, NEW result \in {"SUCCEEDED", "FAILED"},
             ChannelRefunds(x, n, result)
      PROVE  TypeOK'
  <2>1. x \in Exception /\ refunds[x] \in Refund /\ n \in 1 .. Len(refunds[x].results)
    BY <1>3 DEF TypeOK, ChannelRefunds, Latest
  <2>2. [refunds[x].results EXCEPT ![n] = result] \in Seq({"OPEN", "SUCCEEDED", "FAILED"})
    BY <2>1 DEF Refund
  <2>3. refunds' \in [Exception -> Refund \cup {Nil}]
    BY <1>3, <2>1, <2>2 DEF TypeOK, ChannelRefunds, Refund
  <2> QED
    BY <1>3, <2>3 DEF TypeOK, ChannelRefunds, books, linked
<1>4. ASSUME NEW x \in exceptions, NEW n \in 1 .. MaxAttempts, NEW id \in EventIds, ObserveRefund(x, n, id)
      PROVE  TypeOK'
  <2>1. x \in Exception /\ n \in Nat
    BY IntakeAssumption DEF TypeOK
  <2>2. observed' \subseteq Observation /\ observed \subseteq observed'
    BY <1>4, <2>1 DEF TypeOK, ObserveRefund, Observation
  <2> QED
    BY <1>4, <2>2 DEF TypeOK, ObserveRefund, books, linked
<1>5. ASSUME NEW o \in observed, SettleExceptionRefund(o)
      PROVE  TypeOK'
  <2> DEFINE x == o.exception
  <2>1. x \in Exception /\ refunds[x] \in Refund /\ o.attempt \in Nat
    BY DEF TypeOK, ObservationsHaveResults, Observation
  <2>2. /\ [refunds[x] EXCEPT !.status = "SUCCEEDED", !.paid = o.attempt] \in Refund
        /\ [refunds[x] EXCEPT !.status = "FAILED"] \in Refund
    BY <2>1 DEF Refund
  <2>3. \/ refunds' = refunds
        \/ refunds' = [refunds EXCEPT ![x].status = "SUCCEEDED", ![x].paid = o.attempt]
        \/ refunds' = [refunds EXCEPT ![x].status = "FAILED"]
    BY <1>5 DEF SettleExceptionRefund
  <2>4. refunds' \in [Exception -> Refund \cup {Nil}]
    <3> HIDE DEF x
    <3> QED
      BY <2>1, <2>2, <2>3 DEF TypeOK
  <2>5. x \in exceptions
    BY <2>1 DEF AttemptsInOrder, ObservationsHaveResults
  <2>6. resolved' \subseteq exceptions' /\ refunded' \subseteq observed'
    BY <1>5, <2>5 DEF TypeOK, SettleExceptionRefund, books
  <2>7. UNCHANGED <<quotes, books, linked, observed, events, commands, allowed, captured>>
    BY <1>5 DEF SettleExceptionRefund
  <2> QED
    BY <2>4, <2>6, <2>7 DEF TypeOK, books, linked
<1> QED
  BY <1>1, <1>2, <1>3, <1>4, <1>5 DEF GiveBack

LEMMA TypeStep ==
  ASSUME TypeOK, JobsHaveRows, AttemptsInOrder, ObservationsHaveResults, [Next]_vars
  PROVE  TypeOK'
<1>1. CASE UNCHANGED vars
  BY <1>1 DEF TypeOK, vars, books, linked, returns
<1> QED
  BY <1>1, PayType, ReconcileType, GiveBackType DEF Next

(***************************************************************************)
(* The books.                                                              *)
(***************************************************************************)
\* What CashIsAccounted says of a transaction that s took.
Accounted(t, s) ==
  \/ Funds(t, s) /\ ExceptionsOf(t) = {}
  \/ ~Funds(t, s) /\ \E x \in ExceptionsOf(t) :
       x.source = s /\ Refundable(x) /\ ExceptionsOf(t) = {x}

\* What it says of a source.
Funded(s) ==
  /\ status[s] \in {"SUCCEEDED", "REFUND_REQUIRED"} <=> funding[s] # Nil
  /\ funding[s] # Nil => claims[funding[s]] = s

LEMMA AccountedParts ==
  CashIsAccounted <=>
    /\ TypeOK
    /\ \A t \in Txns, s \in Sources : claims[t] = s => Accounted(t, s)
    /\ \A t \in Txns : claims[t] = Nil => ExceptionsOf(t) = {}
    /\ \A s \in Sources : Funded(s)
    /\ batches = {funding[s] : s \in Topups} \ {Nil}
BY DEF CashIsAccounted, Accounted, Funded

\* A source without money has claimed nothing.
LEMMA NothingClaimed ==
  ASSUME CashIsAccounted, NEW s \in Sources, funding[s] = Nil, NEW t \in Txns
  PROVE  claims[t] # s
BY IntakeAssumption DEF CashIsAccounted, Funds, Refundable

\* The status of a source without money changes.
StatusMoves ==
  /\ \E s \in Sources, v \in {"PENDING", "FAILED", "EXPIRED"} :
       /\ funding[s] = Nil
       /\ s \in Topups => v # "EXPIRED"
       /\ status' = [status EXCEPT ![s] = v]
  /\ UNCHANGED <<funding, claims, batches, exceptions>>

\* Money arrives at a source that has none, and funds it or is an exception.
FirstMoney(s, t) ==
  /\ funding[s] = Nil /\ status[s] # Nil
  /\ claims[t] = Nil
  /\ claims' = [claims EXCEPT ![t] = s]
  /\ funding' = [funding EXCEPT ![s] = t]
  /\ \/ /\ status' = [status EXCEPT ![s] = "SUCCEEDED"]
        /\ batches' = IF s \in Topups THEN batches \cup {t} ELSE batches
        /\ UNCHANGED exceptions
     \/ /\ s \in Orders
        /\ status' = [status EXCEPT ![s] = "REFUND_REQUIRED"]
        /\ exceptions' = exceptions \cup {[source |-> s, txn |-> t, kind |-> "LATE_PAYMENT"]}
        /\ UNCHANGED batches

\* More money arrives than a source takes.
MoreMoney(s, t) ==
  LET x == [source |-> s, txn |-> t,
            kind |-> IF s \in Orders THEN "DUPLICATE_PAYMENT" ELSE "EXTRA_TOPUP_RECEIPT"] IN
  /\ funding[s] \notin {Nil, t}
  /\ claims[t] = Nil
  /\ claims' = [claims EXCEPT ![t] = s]
  /\ exceptions' = exceptions \cup {x}
  /\ UNCHANGED <<status, funding, batches>>

\* What settling a success does to the books.
LEMMA RecordMoves ==
  ASSUME CashIsAccounted, KindsFit, NEW s \in Sources, NEW t \in Txns, NEW now \in Now(s),
         status[s] # Nil, RecordSuccess(s, t, now)
  PROVE  UNCHANGED books \/ FirstMoney(s, t) \/ MoreMoney(s, t)
<1>1. TypeOK /\ Funded(s)
  BY AccountedParts
<1>2. claims[t] \in {Nil, s} /\ claims' = [claims EXCEPT ![t] = s]
  BY DEF RecordSuccess, Claimable
<1>3. funding[s] # Nil => now = status[s]
  BY <1>1 DEF Now, Released, Funded
<1>4. ASSUME funding[s] = Nil
      PROVE  claims[t] = Nil
  BY <1>2, <1>4, NothingClaimed
<1>5. CASE Fund(s, t, now)
  BY <1>2, <1>4, <1>5 DEF Fund, FirstMoney
<1>6. CASE ComesLate(s, t, now)
  <2>1. s \in Orders
    <3>1. ASSUME s \in Topups
          PROVE  now \in {"PENDING", "FAILED"}
      <4>1. status[s] \in {"PENDING", "FAILED"}
        BY <1>1, <1>6, <3>1 DEF ComesLate, KindsFit, Funded, TypeOK, Statuses
      <4>2. s \notin Orders
        BY <3>1, IntakeAssumption
      <4> QED
        BY <4>1, <4>2 DEF Now, Released
    <3>2. s \in Topups => s \notin Orders
      BY IntakeAssumption
    <3> QED
      BY <1>6, <3>1, <3>2 DEF ComesLate, Takes, Sources
  <2> QED
    BY <1>2, <1>4, <1>6, <2>1 DEF ComesLate, FirstMoney
<1>7. CASE ComesTwice(s, t, now)
  <2> DEFINE x == [source |-> s, txn |-> t,
                   kind |-> IF s \in Orders THEN "DUPLICATE_PAYMENT" ELSE "EXTRA_TOPUP_RECEIPT"]
  <2>1. status' = status /\ UNCHANGED <<funding, batches>>
    BY <1>1, <1>3, <1>7 DEF ComesTwice, TypeOK
  <2>2. funding[s] \notin {Nil, t} /\ exceptions' = exceptions \cup {x}
    BY <1>7 DEF ComesTwice
  <2>3. CASE claims[t] = Nil
    BY <1>2, <2>1, <2>2, <2>3 DEF MoreMoney
  <2>4. CASE claims[t] = s
    <3>1. Accounted(t, s) /\ ~Funds(t, s)
      BY <2>2, <2>4, AccountedParts DEF Funds
    <3>2. PICK y \in exceptions : y.txn = t /\ y.source = s /\ Refundable(y)
      BY <3>1 DEF Accounted, ExceptionsOf
    <3>3. y \in Exception /\ y.kind # "LATE_PAYMENT"
      BY <1>1, <2>2, <3>2 DEF TypeOK, Refundable
    <3>4. y.kind = IF s \in Orders THEN "DUPLICATE_PAYMENT" ELSE "EXTRA_TOPUP_RECEIPT"
      <4>1. s \in Topups <=> s \notin Orders
        BY IntakeAssumption DEF Sources
      <4>2. y.kind = "EXTRA_TOPUP_RECEIPT" <=> s \in Topups
        BY <3>2 DEF KindsFit
      <4>3. y.kind \in {"DUPLICATE_PAYMENT", "EXTRA_TOPUP_RECEIPT"}
        BY <3>3 DEF Exception
      <4> QED
        BY <4>1, <4>2, <4>3
    <3>5. y = x
      BY <3>2, <3>3, <3>4 DEF Exception
    <3>6. exceptions' = exceptions
      BY <2>2, <3>2, <3>5
    <3>7. claims' = claims
      BY <1>1, <1>2, <2>4 DEF TypeOK
    <3> QED
      BY <2>1, <3>6, <3>7 DEF books
  <2> QED
    BY <1>2, <2>3, <2>4
<1>8. CASE IsKnown(s, t, now)
  <2>1. funding[s] # Nil /\ claims[t] = s
    BY <1>1, <1>8, IntakeAssumption DEF IsKnown, Funded
  <2>2. status' = status /\ claims' = claims
    BY <1>1, <1>2, <1>3, <1>8, <2>1 DEF IsKnown, TypeOK
  <2> QED
    BY <1>8, <2>2 DEF IsKnown, books
<1> QED
  BY <1>5, <1>6, <1>7, <1>8 DEF RecordSuccess

\* What any step does to the books.
LEMMA BooksMove ==
  ASSUME IntakeInv, [Next]_vars
  PROVE  \/ UNCHANGED books
         \/ StatusMoves
         \/ \E s \in Sources, t \in Txns : FirstMoney(s, t) \/ MoreMoney(s, t)
<1> DEFINE Goal == \/ UNCHANGED books
                   \/ StatusMoves
                   \/ \E s \in Sources, t \in Txns : FirstMoney(s, t) \/ MoreMoney(s, t)
<1>0. /\ TypeOK /\ CashIsAccounted /\ KindsFit /\ JobsHaveRows
      /\ \A s \in Sources : Funded(s)
  BY AccountedParts DEF IntakeInv
<1>1. CASE UNCHANGED vars
  BY <1>1 DEF vars
<1>2. ASSUME NEW s \in Topups, CreateTopupQuote(s) \/ QuoteLapses(s)
      PROVE  Goal
  BY <1>2 DEF CreateTopupQuote, QuoteLapses
<1>3. ASSUME NEW s \in Topups, NEW k \in Keys, BeginTopupPayment(s, k)
      PROVE  Goal
  <2>1. s \in Sources
    BY DEF Sources
  <2>2. CASE status[s] = Nil
    <3>1. funding[s] = Nil
      BY <1>0, <2>1, <2>2, IntakeAssumption DEF Funded, Statuses
    <3>2. status' = [status EXCEPT ![s] = "PENDING"] /\ UNCHANGED <<funding, claims, batches, exceptions>>
      BY <1>3, <2>2 DEF BeginTopupPayment
    <3> QED
      BY <2>1, <3>1, <3>2 DEF StatusMoves
  <2>3. CASE status[s] # Nil
    BY <1>0, <1>3, <2>1, <2>3 DEF BeginTopupPayment, books, TypeOK
  <2> QED
    BY <2>2, <2>3
<1>4. ASSUME NEW s \in Orders, BeginOrderPayment(s) \/ ReleasePendingPayments(s)
      PROVE  Goal
  <2>1. s \in Sources /\ s \notin Topups
    BY IntakeAssumption DEF Sources
  <2>2. funding[s] = Nil
    BY <1>0, <1>4, <2>1, IntakeAssumption DEF Funded, BeginOrderPayment, ReleasePendingPayments, Statuses
  <2>3. PICK v \in {"PENDING", "EXPIRED"} : status' = [status EXCEPT ![s] = v]
    BY <1>4 DEF BeginOrderPayment, ReleasePendingPayments, Released
  <2>4. UNCHANGED <<funding, claims, batches, exceptions>>
    BY <1>4 DEF BeginOrderPayment, ReleasePendingPayments
  <2> QED
    BY <2>1, <2>2, <2>3, <2>4 DEF StatusMoves
<1>5. ASSUME NEW s \in Sources, NEW t \in Txns, NEW now \in Now(s),
             status[s] # Nil, RecordSuccess(s, t, now)
      PROVE  Goal
  BY <1>0, <1>5, RecordMoves
<1>6. ASSUME NEW t \in Txns, NEW s \in Sources, SettleSuccess(t, s)
      PROVE  Goal
  BY <1>5, <1>6 DEF SettleSuccess, books
<1>7. ASSUME NEW s \in Sources, SettleFailure(s)
      PROVE  Goal
  <2>1. PICK now \in Now(s) :
          status' = [status EXCEPT ![s] = IF Takes(s, now) THEN "FAILED" ELSE now]
    BY <1>7 DEF SettleFailure
  <2>2. UNCHANGED <<funding, claims, batches, exceptions>> /\ status[s] # Nil
    BY <1>7 DEF SettleFailure
  <2>3. CASE Takes(s, now)
    <3>1. status[s] \in {"PENDING", "FAILED"}
      BY <2>3 DEF Takes, Now, Released
    <3>2. funding[s] = Nil
      BY <1>0, <3>1 DEF Funded
    <3> QED
      BY <2>1, <2>2, <2>3, <3>2 DEF StatusMoves
  <2>4. CASE ~Takes(s, now) /\ now = status[s]
    BY <1>0, <2>1, <2>2, <2>4 DEF TypeOK, books
  <2>5. CASE ~Takes(s, now) /\ now # status[s]
    <3>1. now = "EXPIRED" /\ s \in Orders /\ status[s] = "PENDING"
      BY <2>5 DEF Now, Released
    <3>2. funding[s] = Nil /\ s \notin Topups
      BY <1>0, <3>1, IntakeAssumption DEF Funded
    <3> QED
      BY <2>1, <2>2, <2>5, <3>1, <3>2 DEF StatusMoves
  <2> QED
    BY <2>3, <2>4, <2>5
<1>8. ASSUME NEW c \in Callers, SettleReceipt(c)
      PROVE  Goal
  <2>1. jobs[c].op \in Sources /\ jobs[c].receipt \in Txns /\ status[jobs[c].op] # Nil
    BY <1>0, <1>8 DEF TypeOK, JobsHaveRows, SettleReceipt, Job
  <2> QED
    BY <1>5, <1>8, <2>1 DEF SettleReceipt, books
<1>9. CASE GiveBack
  BY <1>9 DEF GiveBack, RequestExceptionRefund, RetryExceptionRefund, ChannelRefunds,
              ObserveRefund, SettleExceptionRefund
<1>10. CASE Reconcile
  BY <1>8, <1>10 DEF Reconcile, IngestWecomCollection, PreflightManual, ChangePermission,
              PreflightTrusted, RefuseReceipt, ReviewReceipt, Crash
<1>11. CASE Pay
  BY <1>2, <1>3, <1>4, <1>6, <1>7, <1>11 DEF Pay
<1> QED
  BY <1>1, <1>9, <1>10, <1>11 DEF Next

\* A step that touches neither the source nor the transaction keeps its account.
LEMMA AccountedStays ==
  ASSUME NEW s \in Sources, NEW t \in Txns, claims[t] = s, Accounted(t, s),
         claims'[t] = claims[t], status'[s] = status[s], funding'[s] = funding[s],
         ExceptionsOf(t)' = ExceptionsOf(t)
  PROVE  Accounted(t, s)'
<1>1. Funds(t, s)' <=> Funds(t, s)
  BY DEF Funds
<1>2. ASSUME NEW x \in ExceptionsOf(t), x.source = s
      PROVE  Refundable(x)' <=> Refundable(x)
  BY <1>2 DEF Refundable, ExceptionsOf
<1> QED
  BY <1>1, <1>2 DEF Accounted

\* What the books keep, whatever happens.
BooksGrow ==
  /\ \A t \in Txns, s \in Sources :
       claims[t] = s => claims'[t] = s /\ (Funds(t, s)' <=> Funds(t, s))
  /\ \A s \in Sources : status[s] # Nil => status'[s] # Nil
  /\ exceptions \subseteq exceptions'

LEMMA StatusMovesKeeps ==
  ASSUME CashIsAccounted, KindsFit, TypeOK', StatusMoves
  PROVE  CashIsAccounted' /\ KindsFit' /\ BooksGrow
<1>1. PICK s0 \in Sources, v \in {"PENDING", "FAILED", "EXPIRED"} :
        /\ funding[s0] = Nil
        /\ s0 \in Topups => v # "EXPIRED"
        /\ status' = [status EXCEPT ![s0] = v]
  BY DEF StatusMoves
<1>2. UNCHANGED <<funding, claims, batches, exceptions>>
  BY DEF StatusMoves
<1>3. /\ TypeOK
      /\ \A t \in Txns, s \in Sources : claims[t] = s => Accounted(t, s)
      /\ \A t \in Txns : claims[t] = Nil => ExceptionsOf(t) = {}
      /\ \A s \in Sources : Funded(s)
      /\ batches = {funding[s] : s \in Topups} \ {Nil}
  BY AccountedParts
<1>4. \A s \in Sources : status'[s] = IF s = s0 THEN v ELSE status[s]
  BY <1>1, <1>3 DEF TypeOK
<1>5. \A t \in Txns : claims[t] # s0
  BY <1>1, NothingClaimed
<1>6. ASSUME NEW t \in Txns, NEW s \in Sources, claims'[t] = s
      PROVE  Accounted(t, s)'
  <2>1. claims[t] = s /\ s # s0 /\ Accounted(t, s)
    BY <1>2, <1>3, <1>5, <1>6
  <2>2. ExceptionsOf(t)' = ExceptionsOf(t)
    BY <1>2 DEF ExceptionsOf
  <2> QED
    BY <1>2, <1>4, <2>1, <2>2, AccountedStays
<1>7. \A t \in Txns : claims'[t] = Nil => ExceptionsOf(t)' = {}
  BY <1>2, <1>3 DEF ExceptionsOf
<1>8. ASSUME NEW s \in Sources
      PROVE  Funded(s)'
  BY <1>1, <1>2, <1>3, <1>4 DEF Funded
<1>9. batches' = {funding'[s] : s \in Topups} \ {Nil}
  BY <1>2, <1>3
<1>10. CashIsAccounted'
  BY <1>6, <1>7, <1>8, <1>9 DEF CashIsAccounted, Accounted, Funded
<1>11. KindsFit'
  BY <1>1, <1>2, <1>4 DEF KindsFit, Sources
<1>12. BooksGrow
  <2>1. ASSUME NEW t \in Txns, NEW s \in Sources, claims[t] = s
        PROVE  claims'[t] = s /\ (Funds(t, s)' <=> Funds(t, s))
    BY <1>2, <1>4, <1>5, <2>1 DEF Funds
  <2>2. \A s \in Sources : status[s] # Nil => status'[s] # Nil
    BY <1>4, IntakeAssumption DEF Statuses
  <2> QED
    BY <1>2, <2>1, <2>2 DEF BooksGrow
<1> QED
  BY <1>10, <1>11, <1>12

LEMMA FirstMoneyKeeps ==
  ASSUME CashIsAccounted, KindsFit, TypeOK', NEW s0 \in Sources, NEW t0 \in Txns, FirstMoney(s0, t0)
  PROVE  CashIsAccounted' /\ KindsFit' /\ BooksGrow
<1> DEFINE x0 == [source |-> s0, txn |-> t0, kind |-> "LATE_PAYMENT"]
<1>1. /\ funding[s0] = Nil /\ claims[t0] = Nil
      /\ claims' = [claims EXCEPT ![t0] = s0]
      /\ funding' = [funding EXCEPT ![s0] = t0]
  BY DEF FirstMoney
<1>2. PICK v \in {"SUCCEEDED", "REFUND_REQUIRED"} :
        /\ status' = [status EXCEPT ![s0] = v]
        /\ v = "SUCCEEDED" =>
             exceptions' = exceptions /\ batches' = IF s0 \in Topups THEN batches \cup {t0} ELSE batches
        /\ v = "REFUND_REQUIRED" =>
             s0 \in Orders /\ exceptions' = exceptions \cup {x0} /\ batches' = batches
  BY DEF FirstMoney
<1>3. /\ TypeOK
      /\ \A t \in Txns, s \in Sources : claims[t] = s => Accounted(t, s)
      /\ \A t \in Txns : claims[t] = Nil => ExceptionsOf(t) = {}
      /\ \A s \in Sources : Funded(s)
      /\ batches = {funding[s] : s \in Topups} \ {Nil}
  BY AccountedParts
<1>4. /\ \A s \in Sources : status'[s] = IF s = s0 THEN v ELSE status[s]
      /\ \A s \in Sources : funding'[s] = IF s = s0 THEN t0 ELSE funding[s]
      /\ \A t \in Txns : claims'[t] = IF t = t0 THEN s0 ELSE claims[t]
  BY <1>1, <1>2, <1>3 DEF TypeOK
<1>5. /\ \A t \in Txns : claims[t] # s0
      /\ Nil \notin Sources /\ Nil \notin Txns /\ Nil \notin Statuses
      /\ s0 \in Orders => s0 \notin Topups
  BY <1>1, NothingClaimed, IntakeAssumption
<1>6. ASSUME NEW t \in Txns, t # t0
      PROVE  ExceptionsOf(t)' = ExceptionsOf(t)
  BY <1>2, <1>6 DEF ExceptionsOf
<1>7. ExceptionsOf(t0)' = IF v = "SUCCEEDED" THEN {} ELSE {x0}
  <2>1. ExceptionsOf(t0) = {}
    BY <1>1, <1>3
  <2> QED
    BY <1>2, <2>1 DEF ExceptionsOf
<1>8. ASSUME NEW t \in Txns, NEW s \in Sources, claims'[t] = s
      PROVE  Accounted(t, s)'
  <2>1. CASE t = t0
    <3>1. s = s0 /\ status'[s0] = v /\ funding'[s0] = t0 /\ claims'[t0] = s0
      BY <1>4, <1>8, <2>1
    <3>2. CASE v = "SUCCEEDED"
      BY <1>7, <2>1, <3>1, <3>2 DEF Accounted, Funds
    <3>3. CASE v = "REFUND_REQUIRED"
      <4>1. Refundable(x0)' /\ ~Funds(t0, s0)'
        BY <1>5, <3>1, <3>3 DEF Refundable, Funds
      <4>2. ExceptionsOf(t0)' = {x0} /\ x0.source = s0
        BY <1>7, <3>3
      <4> HIDE DEF x0
      <4> QED
        BY <2>1, <3>1, <4>1, <4>2 DEF Accounted
    <3> QED
      BY <3>2, <3>3
  <2>2. CASE t # t0
    <3>1. claims[t] = s /\ s # s0
      BY <1>4, <1>5, <1>8, <2>2
    <3> QED
      BY <1>3, <1>4, <1>6, <2>2, <3>1, AccountedStays
  <2> QED
    BY <2>1, <2>2
<1>9. ASSUME NEW t \in Txns, claims'[t] = Nil
      PROVE  ExceptionsOf(t)' = {}
  <2>1. t # t0 /\ claims[t] = Nil
    BY <1>4, <1>5, <1>9
  <2> QED
    BY <1>3, <1>6, <2>1
<1>10. ASSUME NEW s \in Sources
       PROVE  Funded(s)'
  <2>1. CASE s = s0
    BY <1>4, <1>5, <2>1 DEF Funded
  <2>2. CASE s # s0
    <3>1. funding[s] \in Txns \cup {Nil} /\ Funded(s)
      BY <1>3 DEF TypeOK
    <3>2. funding[s] # Nil => funding[s] # t0
      BY <1>1, <1>5, <3>1 DEF Funded
    <3> QED
      BY <1>4, <2>2, <3>1, <3>2 DEF Funded
  <2> QED
    BY <2>1, <2>2
<1>11. batches' = {funding'[s] : s \in Topups} \ {Nil}
  <2>1. \A s \in Topups : s \in Sources /\ funding'[s] = IF s = s0 THEN t0 ELSE funding[s]
    BY <1>4 DEF Sources
  <2>2. CASE s0 \in Topups
    <3>1. batches' = batches \cup {t0}
      BY <1>2, <1>5, <2>2
    <3> QED
      BY <1>1, <1>3, <1>5, <2>1, <2>2, <3>1
  <2>3. CASE s0 \notin Topups
    <3>1. batches' = batches
      BY <1>2, <2>3
    <3>2. \A s \in Topups : funding'[s] = funding[s]
      BY <2>1, <2>3
    <3> QED
      BY <1>3, <3>1, <3>2
  <2> QED
    BY <2>2, <2>3
<1>12. CashIsAccounted'
  BY <1>8, <1>9, <1>10, <1>11 DEF CashIsAccounted, Accounted, Funded
<1>13. KindsFit'
  <2>1. \A s \in Topups : status'[s] \notin {"EXPIRED", "REFUND_REQUIRED"}
    BY <1>2, <1>4, <1>5 DEF KindsFit, Sources
  <2>2. ASSUME NEW x \in exceptions'
        PROVE  x.source \in Topups <=> x.kind = "EXTRA_TOPUP_RECEIPT"
    <3>1. CASE x \in exceptions
      BY <3>1 DEF KindsFit
    <3>2. CASE x \notin exceptions
      BY <1>2, <1>5, <2>2, <3>2
    <3> QED
      BY <3>1, <3>2
  <2> QED
    BY <2>1, <2>2 DEF KindsFit
<1>14. BooksGrow
  <2>1. ASSUME NEW t \in Txns, NEW s \in Sources, claims[t] = s
        PROVE  claims'[t] = s /\ (Funds(t, s)' <=> Funds(t, s))
    <3>1. t # t0 /\ s # s0
      BY <1>1, <1>5, <2>1
    <3> QED
      BY <1>4, <2>1, <3>1 DEF Funds
  <2>2. \A s \in Sources : status[s] # Nil => status'[s] # Nil
    BY <1>4, <1>5 DEF Statuses
  <2> QED
    BY <1>2, <2>1, <2>2 DEF BooksGrow
<1> QED
  BY <1>12, <1>13, <1>14

LEMMA MoreMoneyKeeps ==
  ASSUME CashIsAccounted, KindsFit, TypeOK', NEW s0 \in Sources, NEW t0 \in Txns, MoreMoney(s0, t0)
  PROVE  CashIsAccounted' /\ KindsFit' /\ BooksGrow
<1> DEFINE x0 == [source |-> s0, txn |-> t0,
                  kind |-> IF s0 \in Orders THEN "DUPLICATE_PAYMENT" ELSE "EXTRA_TOPUP_RECEIPT"]
<1>1. /\ funding[s0] \notin {Nil, t0} /\ claims[t0] = Nil
      /\ claims' = [claims EXCEPT ![t0] = s0]
      /\ exceptions' = exceptions \cup {x0}
      /\ UNCHANGED <<status, funding, batches>>
  BY DEF MoreMoney
<1>2. /\ TypeOK
      /\ \A t \in Txns, s \in Sources : claims[t] = s => Accounted(t, s)
      /\ \A t \in Txns : claims[t] = Nil => ExceptionsOf(t) = {}
      /\ \A s \in Sources : Funded(s)
      /\ batches = {funding[s] : s \in Topups} \ {Nil}
  BY AccountedParts
<1>3. \A t \in Txns : claims'[t] = IF t = t0 THEN s0 ELSE claims[t]
  BY <1>1, <1>2 DEF TypeOK
<1>4. /\ Nil \notin Sources /\ Nil \notin Txns
      /\ s0 \in Orders <=> s0 \notin Topups
  BY IntakeAssumption DEF Sources
<1>5. ASSUME NEW t \in Txns, t # t0
      PROVE  ExceptionsOf(t)' = ExceptionsOf(t)
  BY <1>1, <1>5 DEF ExceptionsOf
<1>6. ExceptionsOf(t0)' = {x0}
  <2>1. ExceptionsOf(t0) = {}
    BY <1>1, <1>2
  <2> QED
    BY <1>1, <2>1 DEF ExceptionsOf
<1>7. status[s0] \in {"SUCCEEDED", "REFUND_REQUIRED"} /\ (s0 \in Topups => status[s0] = "SUCCEEDED")
  BY <1>1, <1>2 DEF Funded, KindsFit
<1>8. ASSUME NEW t \in Txns, NEW s \in Sources, claims'[t] = s
      PROVE  Accounted(t, s)'
  <2>1. CASE t = t0
    <3>1. s = s0 /\ claims'[t0] = s0
      BY <1>3, <1>8, <2>1
    <3>2. ~Funds(t0, s0)'
      BY <1>1 DEF Funds
    <3>3. Refundable(x0)'
      BY <1>1, <1>4, <1>7, <3>1 DEF Refundable
    <3>4. x0.source = s0
      OBVIOUS
    <3> HIDE DEF x0
    <3> QED
      BY <1>6, <2>1, <3>1, <3>2, <3>3, <3>4 DEF Accounted
  <2>2. CASE t # t0
    <3>1. claims[t] = s /\ claims'[t] = claims[t]
      BY <1>3, <1>8, <2>2
    <3> QED
      BY <1>1, <1>2, <1>5, <2>2, <3>1, AccountedStays
  <2> QED
    BY <2>1, <2>2
<1>9. ASSUME NEW t \in Txns, claims'[t] = Nil
      PROVE  ExceptionsOf(t)' = {}
  <2>1. t # t0 /\ claims[t] = Nil
    BY <1>3, <1>4, <1>9
  <2> QED
    BY <1>2, <1>5, <2>1
<1>10. ASSUME NEW s \in Sources
       PROVE  Funded(s)'
  <2>1. funding[s] \in Txns \cup {Nil} /\ Funded(s)
    BY <1>2 DEF TypeOK
  <2>2. funding[s] # Nil => funding[s] # t0
    BY <1>1, <1>4, <2>1 DEF Funded
  <2> QED
    BY <1>1, <1>3, <2>1, <2>2 DEF Funded
<1>11. CashIsAccounted'
  BY <1>1, <1>2, <1>8, <1>9, <1>10 DEF CashIsAccounted, Accounted, Funded
<1>12. KindsFit'
  <2>1. x0.source \in Topups <=> x0.kind = "EXTRA_TOPUP_RECEIPT"
    BY <1>4
  <2> HIDE DEF x0
  <2> QED
    BY <1>1, <2>1 DEF KindsFit
<1>13. BooksGrow
  <2>1. ASSUME NEW t \in Txns, NEW s \in Sources, claims[t] = s
        PROVE  claims'[t] = s /\ (Funds(t, s)' <=> Funds(t, s))
    <3>1. t # t0
      BY <1>1, <1>4, <2>1
    <3> QED
      BY <1>1, <1>3, <2>1, <3>1 DEF Funds
  <2> HIDE DEF x0
  <2> QED
    BY <1>1, <2>1 DEF BooksGrow
<1> QED
  BY <1>11, <1>12, <1>13

LEMMA UnchangedKeeps ==
  ASSUME CashIsAccounted, KindsFit, TypeOK', UNCHANGED books
  PROVE  CashIsAccounted' /\ KindsFit' /\ BooksGrow
<1>1. UNCHANGED <<status, funding, claims, batches, exceptions>>
  BY DEF books
<1>2. ASSUME NEW t \in Txns, NEW s \in Sources
      PROVE  Accounted(t, s)' <=> Accounted(t, s)
  BY <1>1 DEF Accounted, Funds, ExceptionsOf, Refundable
<1>3. CashIsAccounted'
  BY <1>1, <1>2 DEF CashIsAccounted, Accounted, ExceptionsOf
<1>4. KindsFit' /\ BooksGrow
  BY <1>1 DEF KindsFit, BooksGrow, Funds
<1> QED
  BY <1>3, <1>4

LEMMA BooksStep ==
  ASSUME IntakeInv, [Next]_vars
  PROVE  TypeOK' /\ CashIsAccounted' /\ KindsFit' /\ BooksGrow
<1>1. TypeOK'
  BY TypeStep DEF IntakeInv
<1> QED
  BY <1>1, BooksMove, UnchangedKeeps, StatusMovesKeeps, FirstMoneyKeeps, MoreMoneyKeeps DEF IntakeInv

(***************************************************************************)
(* Linked receipts.                                                        *)
(***************************************************************************)
\* A receipt as it is first stored.
Stored(s) == [trusted |-> s, op |-> Nil, state |-> "UNMATCHED", by |-> Nil]

\* The parts of ReceiptsAgreeWithBooks.
Agrees(t) ==
  receipts[t] # Nil =>
    LET r == receipts[t] IN
    /\ r.op = Nil <=> r.state \in {"UNMATCHED", "REVIEW"}
    /\ r.op # Nil =>
         /\ claims[t] = r.op /\ r.op \in closed
         /\ r.trusted \in {Nil, r.op}
         /\ r.state = "LINKED" <=> Funds(t, r.op)

Answered(k) ==
  commands[k] # Nil /\ commands[k].type = "wecom.receipt.link" =>
    /\ receipts[commands[k].of.txn] # Nil
    /\ receipts[commands[k].of.txn].op = commands[k].of.source

\* Caller c links receipt t to payment s.
LinkedBy(c, t, s) ==
  /\ receipts[t] # Nil /\ receipts[t].op = Nil
  /\ receipts[t].trusted \in {Nil, s}
  /\ Authorised(c)
  /\ receipts'[t] = [trusted |-> receipts[t].trusted, op |-> s,
                     state |-> LinkState(t, s), by |-> c]
  /\ claims'[t] = s /\ s \in closed'

ReceiptMove(t) ==
  \/ receipts'[t] = receipts[t]
  \/ receipts[t] = Nil /\ \E s \in Sources \cup {Nil} : receipts'[t] = Stored(s)
  \/ /\ receipts[t] # Nil /\ receipts[t].op = Nil
     /\ receipts'[t] = [receipts[t] EXCEPT !.state = "REVIEW"]
  \/ \E c \in Callers, s \in Sources : LinkedBy(c, t, s)

\* What the settlement of a receipt leaves.
LEMMA SettledReceipt ==
  ASSUME IntakeInv, TypeOK', NEW c \in Callers, SettleReceipt(c)
  PROVE  LET t == jobs[c].receipt
             s == jobs[c].op IN
         /\ t \in Txns /\ s \in Sources
         /\ claims'[t] = s /\ s \in closed' /\ closed \subseteq closed'
         /\ ReceiptMove(t)
         /\ receipts'[t] # Nil /\ receipts'[t].op = s
         /\ \A u \in Txns \ {t} : receipts'[u] = receipts[u]
<1> DEFINE t == jobs[c].receipt
           s == jobs[c].op
<1>1. TypeOK /\ JobsHaveRows /\ EventsAreClaimed
  BY DEF IntakeInv
<1>2. t \in Txns /\ s \in Sources /\ receipts[t] \in Receipt
  BY <1>1 DEF TypeOK, JobsHaveRows, SettleReceipt, Job
<1>3. claims'[t] = s
  <2>1. CASE WecomEvent(jobs[c]) \in events /\ UNCHANGED books
    BY <1>1, <1>2, <2>1 DEF WecomEvent, EventsAreClaimed, books
  <2>2. ASSUME NEW now \in Now(s), RecordSuccess(s, t, now)
        PROVE  claims'[t] = s
    BY <1>1, <1>2, <2>2 DEF RecordSuccess, TypeOK
  <2> QED
    BY <2>1, <2>2 DEF SettleReceipt
<1>4. s \in closed' /\ closed \subseteq closed'
  BY DEF SettleReceipt, Link
<1>5. Authorised(c) /\ receipts[t].trusted \in {Nil, s} /\ receipts[t].op \in {Nil, s}
  BY DEF SettleReceipt, BeforeSettlement, Matches
<1>6. receipts' = IF receipts[t].op # Nil THEN receipts
                  ELSE [receipts EXCEPT ![t] =
                          [trusted |-> receipts[t].trusted, op |-> s,
                           state |-> LinkState(t, s), by |-> c]]
  BY DEF SettleReceipt, Link
<1>7. Nil \notin Sources /\ receipts[t] # Nil
  BY <1>1, IntakeAssumption DEF JobsHaveRows, SettleReceipt
<1> HIDE DEF t, s
<1>8. CASE receipts[t].op # Nil
  <2>1. receipts' = receipts
    BY <1>6, <1>8
  <2>2. ReceiptMove(t) /\ receipts'[t].op = s /\ receipts'[t] # Nil
    BY <1>5, <1>7, <1>8, <2>1 DEF ReceiptMove
  <2>3. \A u \in Txns \ {t} : receipts'[u] = receipts[u]
    BY <2>1
  <2> QED
    BY <1>2, <1>3, <1>4, <2>2, <2>3 DEF t, s
<1>9. CASE receipts[t].op = Nil
  <2>1. /\ receipts'[t] = [trusted |-> receipts[t].trusted, op |-> s,
                           state |-> LinkState(t, s), by |-> c]
        /\ \A u \in Txns \ {t} : receipts'[u] = receipts[u]
    BY <1>1, <1>2, <1>6, <1>9 DEF TypeOK
  <2>2. LinkedBy(c, t, s)
    BY <1>3, <1>4, <1>5, <1>7, <1>9, <2>1 DEF LinkedBy
  <2>3. ReceiptMove(t)
    BY <1>2, <2>2 DEF ReceiptMove
  <2>4. receipts'[t].op = s
    BY <2>1
  <2>5. receipts'[t] # Nil
    <3>1. LinkState(t, s) \in {"LINKED", "EXCEPTION"} /\ receipts[t].trusted \in Sources \cup {Nil}
      BY <1>2 DEF LinkState, Receipt
    <3>2. receipts'[t] \in Receipt
      BY <1>2, <2>1, <3>1 DEF Receipt
    <3> QED
      BY <3>2, RowsAssumption
  <2> QED
    BY <1>2, <1>3, <1>4, <2>1, <2>3, <2>4, <2>5 DEF t, s
<1> QED
  BY <1>8, <1>9

\* What each step does to the receipts.
LEMMA ReceiptsMove ==
  ASSUME IntakeInv, [Next]_vars
  PROVE  closed \subseteq closed' /\ \A t \in Txns : ReceiptMove(t)
<1> DEFINE Goal == closed \subseteq closed' /\ \A t \in Txns : ReceiptMove(t)
<1>0. TypeOK /\ TypeOK' /\ JobsHaveRows
  BY BooksStep DEF IntakeInv
<1>1. ASSUME UNCHANGED <<receipts, closed>>
      PROVE  Goal
  BY <1>1 DEF ReceiptMove
<1>2. ASSUME NEW c \in Feeds, NEW t \in Txns, NEW s \in Sources \cup {Nil}, IngestWecomCollection(c, t, s)
      PROVE  Goal
  <2>1. /\ closed' = closed
        /\ receipts[t] # Nil => receipts' = receipts
        /\ receipts[t] = Nil => receipts' = [receipts EXCEPT ![t] = Stored(s)]
    BY <1>2 DEF IngestWecomCollection, Stored
  <2>2. ASSUME NEW u \in Txns
        PROVE  receipts'[u] = receipts[u] \/ (receipts[u] = Nil /\ receipts'[u] = Stored(s))
    <3>1. receipts \in [Txns -> Receipt \cup {Nil}]
      BY <1>0 DEF TypeOK
    <3>2. CASE receipts[t] # Nil
      BY <2>1, <3>2
    <3>3. CASE receipts[t] = Nil
      BY <2>1, <3>1, <3>3
    <3> QED
      BY <3>2, <3>3
  <2> QED
    BY <2>1, <2>2 DEF ReceiptMove
<1>3. ASSUME NEW c \in Callers, ReviewReceipt(c)
      PROVE  Goal
  <2> DEFINE t == jobs[c].receipt
  <2>1. /\ closed' = closed /\ receipts[t] # Nil /\ t \in Txns
        /\ receipts' = IF receipts[t].op # Nil THEN receipts
                       ELSE [receipts EXCEPT ![t].state = "REVIEW"]
    BY <1>0, <1>3 DEF ReviewReceipt, JobsHaveRows, TypeOK, Job
  <2> HIDE DEF t
  <2>2. ASSUME NEW u \in Txns
        PROVE  \/ receipts'[u] = receipts[u]
               \/ /\ receipts[u] # Nil /\ receipts[u].op = Nil
                  /\ receipts'[u] = [receipts[u] EXCEPT !.state = "REVIEW"]
    BY <1>0, <2>1 DEF TypeOK
  <2> QED
    BY <2>1, <2>2 DEF ReceiptMove
<1>4. ASSUME NEW c \in Callers, SettleReceipt(c)
      PROVE  Goal
  <2> DEFINE t == jobs[c].receipt
  <2>1. ReceiptMove(t) /\ closed \subseteq closed' /\ \A u \in Txns \ {t} : receipts'[u] = receipts[u]
    BY <1>0, <1>4, SettledReceipt
  <2> HIDE DEF t
  <2> QED
    BY <2>1 DEF ReceiptMove
<1>5. CASE Reconcile
  <2>1. CASE \E c \in Callers : PreflightTrusted(c) \/ RefuseReceipt(c) \/ Crash(c)
    BY <1>1, <2>1 DEF PreflightTrusted, RefuseReceipt, Crash
  <2>2. CASE \E c \in Employees : ChangePermission(c) \/
               \E t \in Txns, s \in Sources, k \in Keys \cup {Nil} : PreflightManual(c, t, s, k)
    BY <1>1, <2>2 DEF ChangePermission, PreflightManual, linked
  <2> QED
    BY <1>2, <1>3, <1>4, <1>5, <2>1, <2>2 DEF Reconcile
<1>6. CASE Pay
  BY <1>1, <1>6 DEF Pay, CreateTopupQuote, QuoteLapses, BeginTopupPayment, BeginOrderPayment,
     ReleasePendingPayments, SettleSuccess, SettleFailure, linked
<1>7. CASE GiveBack
  BY <1>1, <1>7 DEF GiveBack, RequestExceptionRefund, RetryExceptionRefund, ChannelRefunds,
     ObserveRefund, SettleExceptionRefund, linked
<1>8. CASE UNCHANGED vars
  BY <1>1, <1>8 DEF vars, linked
<1> QED
  BY <1>5, <1>6, <1>7, <1>8 DEF Next

\* A receipt stays stored, and once linked stays as it is.
LEMMA ReceiptsStay ==
  ASSUME IntakeInv, TypeOK', NEW t \in Txns, receipts[t] # Nil, ReceiptMove(t)
  PROVE  /\ receipts'[t] # Nil
         /\ receipts[t].op # Nil => receipts'[t] = receipts[t]
<1>1. receipts[t] \in Receipt /\ Nil \notin Receipt
  BY RowsAssumption DEF IntakeInv, TypeOK
<1>2. [receipts[t] EXCEPT !.state = "REVIEW"] \in Receipt
  BY <1>1 DEF Receipt
<1>3. ASSUME NEW c \in Callers, NEW s \in Sources
      PROVE  [trusted |-> receipts[t].trusted, op |-> s, state |-> LinkState(t, s), by |-> c] \in Receipt
  BY <1>1 DEF Receipt, LinkState
<1> QED
  BY <1>1, <1>2, <1>3 DEF ReceiptMove, LinkedBy

\* A receipt that agrees with the books goes on doing so.
LEMMA AgreesStep ==
  ASSUME IntakeInv, [Next]_vars, NEW t \in Txns
  PROVE  Agrees(t)'
<1>1. /\ TypeOK /\ TypeOK' /\ BooksGrow /\ ReceiptMove(t) /\ closed \subseteq closed'
      /\ \A u \in Txns, s \in Sources : claims'[u] = s => Accounted(u, s)'
  BY BooksStep, ReceiptsMove DEF IntakeInv, CashIsAccounted, Accounted
<1>2. Agrees(t)
  BY DEF IntakeInv, ReceiptsAgreeWithBooks, Agrees
<1>3. Nil \notin Sources /\ (receipts[t] # Nil => receipts[t] \in Receipt)
  BY <1>1, IntakeAssumption DEF TypeOK
<1>4. CASE receipts'[t] = receipts[t]
  <2>1. ASSUME receipts[t] # Nil, receipts[t].op # Nil
        PROVE  claims'[t] = receipts[t].op /\ (Funds(t, receipts[t].op)' <=> Funds(t, receipts[t].op))
    <3>1. receipts[t].op \in Sources /\ claims[t] = receipts[t].op
      BY <1>2, <1>3, <2>1 DEF Agrees, Receipt
    <3>2. PICK s \in Sources : s = receipts[t].op
      BY <3>1
    <3>3. receipts'[t].op = s
      BY <1>4, <3>2
    <3> QED
      BY <1>1, <1>4, <3>1, <3>2, <3>3 DEF BooksGrow, Funds
  <2> QED
    BY <1>1, <1>2, <1>4, <2>1 DEF Agrees, Funds
<1>5. CASE \E s \in Sources \cup {Nil} : receipts'[t] = Stored(s)
  BY <1>5 DEF Stored, Agrees
<1>6. CASE receipts[t] # Nil /\ receipts[t].op = Nil /\ receipts'[t] = [receipts[t] EXCEPT !.state = "REVIEW"]
  BY <1>3, <1>6 DEF Agrees, Receipt
<1>7. ASSUME NEW c \in Callers, NEW s \in Sources, LinkedBy(c, t, s)
      PROVE  Agrees(t)'
  <2>1. /\ receipts'[t].op = s /\ receipts'[t].trusted \in {Nil, s}
        /\ receipts'[t].state = LinkState(t, s)
        /\ claims'[t] = s /\ s \in closed'
    BY <1>7 DEF LinkedBy
  <2>2. Accounted(t, s)'
    BY <1>1, <2>1
  <2>3. Funds(t, s)' => ~\E x \in exceptions' : x.source = s /\ x.txn = t
    BY <2>2 DEF Accounted, ExceptionsOf
  <2>4. ~Funds(t, s)' => \E x \in exceptions' : x.source = s /\ x.txn = t
    BY <2>2 DEF Accounted, ExceptionsOf
  <2>5. LinkState(t, s) \in {"LINKED", "EXCEPTION"} /\ (LinkState(t, s) = "LINKED" <=> Funds(t, s)')
    BY <2>3, <2>4 DEF LinkState
  <2> QED
    BY <1>3, <2>1, <2>5 DEF Agrees, Funds
<1> QED
  BY <1>1, <1>4, <1>5, <1>6, <1>7 DEF ReceiptMove

\* What each step does to the answered commands.
LEMMA CommandsMove ==
  ASSUME IntakeInv, [Next]_vars, NEW k \in Keys
  PROVE  \/ commands'[k] = commands[k]
         \/ commands[k] = Nil /\ commands'[k].type # "wecom.receipt.link"
         \/ \E c \in Callers : SettleReceipt(c) /\ commands'[k] = LinkRequest(jobs[c])
<1> DEFINE Goal == \/ commands'[k] = commands[k]
                   \/ commands[k] = Nil /\ commands'[k].type # "wecom.receipt.link"
                   \/ \E c \in Callers : SettleReceipt(c) /\ commands'[k] = LinkRequest(jobs[c])
<1>0. commands \in [Keys -> Request \cup {Nil}]
  BY DEF IntakeInv, TypeOK
<1>1. ASSUME NEW k1 \in Keys, NEW request, request.type # "wecom.receipt.link",
             Unanswered(k1, request), Answer(k1, request)
      PROVE  Goal
  BY <1>0, <1>1 DEF Unanswered, Answer
<1>2. CASE Pay
  <2>1. ASSUME NEW s \in Topups, NEW k1 \in Keys, BeginTopupPayment(s, k1)
        PROVE  Goal
    <3> DEFINE request == [type |-> "topup.begin", of |-> s]
    <3>1. Unanswered(k1, request) /\ Answer(k1, request)
      BY <2>1 DEF BeginTopupPayment
    <3> QED
      BY <1>1, <3>1
  <2> QED
    BY <1>2, <2>1 DEF Pay, CreateTopupQuote, QuoteLapses, BeginOrderPayment,
       ReleasePendingPayments, SettleSuccess, SettleFailure
<1>3. CASE GiveBack
  <2>1. ASSUME NEW x \in exceptions, NEW k1 \in Keys, RequestExceptionRefund(x, k1)
        PROVE  Goal
    <3> DEFINE request == [type |-> "exception_refund.request", of |-> x]
    <3>1. Unanswered(k1, request) /\ Answer(k1, request)
      BY <2>1 DEF RequestExceptionRefund
    <3> QED
      BY <1>1, <3>1
  <2>2. ASSUME NEW x \in exceptions, NEW k1 \in Keys, RetryExceptionRefund(x, k1)
        PROVE  Goal
    <3> DEFINE request == [type |-> "exception_refund.retry", of |-> x]
    <3>1. Unanswered(k1, request) /\ Answer(k1, request)
      BY <2>2 DEF RetryExceptionRefund
    <3> QED
      BY <1>1, <3>1
  <2> QED
    BY <1>3, <2>1, <2>2 DEF GiveBack, ChannelRefunds, ObserveRefund, SettleExceptionRefund
<1>4. ASSUME NEW c \in Callers, SettleReceipt(c)
      PROVE  Goal
  <2>1. \/ commands' = commands
        \/ commands' = [commands EXCEPT ![jobs[c].key] = LinkRequest(jobs[c])]
    BY <1>4 DEF SettleReceipt, Link
  <2>2. commands'[k] = commands[k] \/ commands'[k] = LinkRequest(jobs[c])
    <3> DEFINE request == LinkRequest(jobs[c])
               k1 == jobs[c].key
    <3>1. commands' = commands \/ commands' = [commands EXCEPT ![k1] = request]
      BY <2>1
    <3>2. commands'[k] = commands[k] \/ commands'[k] = request
      <4> HIDE DEF request, k1
      <4> QED
        BY <1>0, <3>1
    <3> QED
      BY <3>2
  <2> QED
    BY <1>4, <2>2
<1>5. CASE Reconcile
  BY <1>4, <1>5 DEF Reconcile, IngestWecomCollection, PreflightManual, ChangePermission,
     PreflightTrusted, RefuseReceipt, ReviewReceipt, Crash
<1>6. CASE UNCHANGED vars
  BY <1>6 DEF vars
<1> QED
  BY <1>2, <1>3, <1>5, <1>6 DEF Next

LEMMA AnsweredStep ==
  ASSUME IntakeInv, [Next]_vars, NEW k \in Keys
  PROVE  Answered(k)'
<1>1. TypeOK /\ TypeOK' /\ Answered(k) /\ \A t \in Txns : ReceiptMove(t)
  BY BooksStep, ReceiptsMove DEF IntakeInv, ReceiptsAgreeWithBooks, Answered
<1>2. CASE commands'[k] = commands[k]
  <2>1. ASSUME commands[k] # Nil, commands[k].type = "wecom.receipt.link"
        PROVE  commands[k].of \in [txn: Txns, source: Sources]
    BY <1>1, <2>1 DEF TypeOK, Request
  <2>2. ASSUME commands[k] # Nil, commands[k].type = "wecom.receipt.link",
               NEW t \in Txns, t = commands[k].of.txn,
               NEW s \in Sources, s = commands[k].of.source
        PROVE  receipts'[t] # Nil /\ receipts'[t].op = s
    <3>1. receipts[t] # Nil /\ receipts[t].op = s
      BY <1>1, <2>2 DEF Answered
    <3>2. receipts[t].op # Nil
      BY <3>1, IntakeAssumption
    <3> QED
      BY <1>1, <3>1, <3>2, ReceiptsStay
  <2>3. ASSUME commands[k] # Nil, commands[k].type = "wecom.receipt.link"
        PROVE  receipts'[commands[k].of.txn] # Nil /\ receipts'[commands[k].of.txn].op = commands[k].of.source
    BY <2>1, <2>2, <2>3
  <2> QED
    BY <1>2, <2>3 DEF Answered
<1>3. CASE commands'[k].type # "wecom.receipt.link"
  BY <1>3 DEF Answered
<1>4. ASSUME NEW c \in Callers, SettleReceipt(c), commands'[k] = LinkRequest(jobs[c])
      PROVE  Answered(k)'
  <2>1. receipts'[jobs[c].receipt] # Nil /\ receipts'[jobs[c].receipt].op = jobs[c].op
    BY <1>1, <1>4, SettledReceipt
  <2>2. commands'[k].of.txn = jobs[c].receipt /\ commands'[k].of.source = jobs[c].op
    BY <1>4 DEF LinkRequest
  <2> QED
    BY <2>1, <2>2 DEF Answered
<1> QED
  BY <1>2, <1>3, <1>4, CommandsMove

LEMMA JobsStep ==
  ASSUME IntakeInv, [Next]_vars
  PROVE  JobsHaveRows'
<1> DEFINE Fits(job) == job # Nil =>
             /\ job \in Job
             /\ receipts'[job.receipt] # Nil
             /\ job.step = "settle" => status'[job.op] # Nil
<1>1. /\ TypeOK /\ TypeOK' /\ BooksGrow /\ JobsHaveRows
      /\ \A t \in Txns : receipts[t] # Nil => receipts'[t] # Nil
  <2>1. TypeOK /\ TypeOK' /\ BooksGrow /\ JobsHaveRows
    BY BooksStep DEF IntakeInv
  <2> QED
    BY <2>1, ReceiptsMove, ReceiptsStay
<1>2. \A c \in Callers : Fits(jobs[c])
  BY <1>1 DEF TypeOK, JobsHaveRows, BooksGrow, Job
<1>3. SUFFICES ASSUME NEW c \in Callers
               PROVE  Fits(jobs'[c])
  BY DEF JobsHaveRows
<1>4. ASSUME NEW d \in Callers, NEW job, Fits(job), jobs' = [jobs EXCEPT ![d] = job]
      PROVE  Fits(jobs'[c])
  <2>1. jobs'[c] = jobs[c] \/ jobs'[c] = job
    BY <1>1, <1>4 DEF TypeOK
  <2> QED
    BY <1>2, <1>4, <2>1
<1>5. ASSUME jobs' = jobs
      PROVE  Fits(jobs'[c])
  BY <1>2, <1>5
<1>6. ASSUME NEW d \in Feeds, NEW t \in Txns, NEW s \in Sources \cup {Nil}, IngestWecomCollection(d, t, s)
      PROVE  Fits(jobs'[c])
  <2> DEFINE job == [step |-> "check", receipt |-> t, op |-> s, key |-> Nil]
  <2>1. jobs' = jobs \/ (s # Nil /\ jobs' = [jobs EXCEPT ![d] = job])
    BY <1>6 DEF IngestWecomCollection
  <2>2. receipts'[t] # Nil
    BY <1>1, <1>6, RowsAssumption DEF IngestWecomCollection, TypeOK, Receipt
  <2>3. s # Nil => Fits(job)
    BY <2>2 DEF Job
  <2>4. d \in Callers
    BY DEF Callers
  <2> HIDE DEF job
  <2> QED
    BY <1>4, <1>5, <2>1, <2>3, <2>4
<1>7. ASSUME NEW d \in Employees, NEW t \in Txns, NEW s \in Sources, NEW k \in Keys \cup {Nil},
             PreflightManual(d, t, s, k)
      PROVE  Fits(jobs'[c])
  <2> DEFINE job == [step |-> "settle", receipt |-> t, op |-> s, key |-> k]
  <2>1. jobs' = [jobs EXCEPT ![d] = job]
    BY <1>7 DEF PreflightManual
  <2>2. receipts'[t] # Nil /\ status'[s] # Nil
    BY <1>1, <1>7 DEF PreflightManual, BooksGrow
  <2>3. Fits(job)
    BY <2>2 DEF Job
  <2>4. d \in Callers
    BY DEF Callers
  <2> HIDE DEF job
  <2> QED
    BY <1>4, <2>1, <2>3, <2>4
<1>8. ASSUME NEW d \in Callers, NEW step \in {"settle", "review"}, jobs[d] # Nil,
             step = "settle" => status'[jobs[d].op] # Nil,
             jobs' = [jobs EXCEPT ![d] = [jobs[d] EXCEPT !.step = step]]
      PROVE  Fits(jobs'[c])
  <2> DEFINE job == [jobs[d] EXCEPT !.step = step]
  <2>1. Fits(job)
    BY <1>2, <1>8 DEF Job
  <2> HIDE DEF job, Fits
  <2> QED
    BY <1>4, <1>8, <2>1 DEF job
<1>9. ASSUME NEW d \in Callers, PreflightTrusted(d)
      PROVE  Fits(jobs'[c])
  <2>1. PICK step \in {"settle", "review"} :
          /\ jobs' = [jobs EXCEPT ![d] = [jobs[d] EXCEPT !.step = step]]
          /\ step = "settle" => status[jobs[d].op] # Nil
    BY <1>1, <1>9 DEF PreflightTrusted, TypeOK
  <2>2. UNCHANGED status /\ jobs[d] # Nil
    BY <1>9 DEF PreflightTrusted, books
  <2> QED
    BY <1>8, <2>1, <2>2
<1>10. ASSUME NEW d \in Callers, RefuseReceipt(d)
       PROVE  Fits(jobs'[c])
  <2>1. CASE jobs' = [jobs EXCEPT ![d] = Nil]
    BY <1>4, <2>1
  <2>2. CASE jobs' = [jobs EXCEPT ![d] = [jobs[d] EXCEPT !.step = "review"]]
    BY <1>8, <1>10, <2>2 DEF RefuseReceipt
  <2> QED
    BY <1>10, <2>1, <2>2 DEF RefuseReceipt
<1>11. ASSUME NEW d \in Callers, Done(d)
       PROVE  Fits(jobs'[c])
  BY <1>4, <1>11 DEF Done
<1>12. CASE Reconcile
  <2>1. CASE \E d \in Callers : SettleReceipt(d) \/ ReviewReceipt(d) \/ Crash(d)
    BY <1>11, <2>1 DEF SettleReceipt, Link, ReviewReceipt, Crash
  <2>2. CASE \E d \in Employees : ChangePermission(d)
    BY <1>5, <2>2 DEF ChangePermission, linked
  <2> HIDE DEF Fits
  <2> QED
    BY <1>6, <1>7, <1>9, <1>10, <1>12, <2>1, <2>2 DEF Reconcile
<1>13. CASE Pay
  BY <1>5, <1>13 DEF Pay, CreateTopupQuote, QuoteLapses, BeginTopupPayment, BeginOrderPayment,
     ReleasePendingPayments, SettleSuccess, SettleFailure, linked
<1>14. CASE GiveBack
  BY <1>5, <1>14 DEF GiveBack, RequestExceptionRefund, RetryExceptionRefund, ChannelRefunds,
     ObserveRefund, SettleExceptionRefund, linked
<1>15. CASE UNCHANGED vars
  BY <1>5, <1>15 DEF vars, linked
<1> QED
  BY <1>12, <1>13, <1>14, <1>15 DEF Next

LEMMA EventsStep ==
  ASSUME IntakeInv, [Next]_vars
  PROVE  EventsAreClaimed'
<1> DEFINE Wecom(t, s) == [from |-> "wecom", txn |-> t, source |-> s]
<1>1. TypeOK' /\ BooksGrow /\ EventsAreClaimed
  BY BooksStep DEF IntakeInv
<1>2. SUFFICES ASSUME NEW t \in Txns, NEW s \in Sources, Wecom(t, s) \in events', Wecom(t, s) \notin events
               PROVE  claims'[t] = s
  BY <1>1 DEF EventsAreClaimed, BooksGrow
<1>3. ASSUME NEW c \in Callers, SettleReceipt(c)
      PROVE  claims'[t] = s
  <2>1. Wecom(t, s) = WecomEvent(jobs[c])
    BY <1>2, <1>3 DEF SettleReceipt
  <2>2. t = jobs[c].receipt /\ s = jobs[c].op
    BY <2>1 DEF WecomEvent
  <2> QED
    BY <1>1, <1>3, <2>2, SettledReceipt
<1>4. ASSUME NEW e, e.from = "channel", events' \subseteq events \cup {e}
      PROVE  FALSE
  BY <1>2, <1>4
<1>5. CASE Reconcile
  BY <1>2, <1>3, <1>5 DEF Reconcile, IngestWecomCollection, PreflightManual, ChangePermission,
     PreflightTrusted, RefuseReceipt, ReviewReceipt, Crash
<1>6. CASE Pay
  <2>1. ASSUME NEW u \in Txns, NEW v \in Sources, SettleSuccess(u, v)
        PROVE  FALSE
    <3> DEFINE e == [from |-> "channel", txn |-> u, source |-> v]
    <3>1. events' \subseteq events \cup {e} /\ e.from = "channel"
      BY <2>1 DEF SettleSuccess
    <3> HIDE DEF e, Wecom
    <3> QED
      BY <1>4, <3>1
  <2>2. ASSUME NEW v \in Sources, SettleFailure(v)
        PROVE  FALSE
    <3> DEFINE e == [from |-> "channel", txn |-> Nil, source |-> v]
    <3>1. events' \subseteq events \cup {e} /\ e.from = "channel"
      BY <2>2 DEF SettleFailure
    <3> HIDE DEF e, Wecom
    <3> QED
      BY <1>4, <3>1
  <2> QED
    BY <1>2, <1>6, <2>1, <2>2 DEF Pay, CreateTopupQuote, QuoteLapses, BeginTopupPayment,
       BeginOrderPayment, ReleasePendingPayments
<1>7. CASE GiveBack
  BY <1>2, <1>7 DEF GiveBack, RequestExceptionRefund, RetryExceptionRefund, ChannelRefunds,
     ObserveRefund, SettleExceptionRefund
<1>8. CASE UNCHANGED vars
  BY <1>2, <1>8 DEF vars
<1> QED
  BY <1>5, <1>6, <1>7, <1>8 DEF Next

LEMMA ReceiptsStep ==
  ASSUME IntakeInv, [Next]_vars
  PROVE  ReceiptsAgreeWithBooks'
BY AgreesStep, AnsweredStep DEF ReceiptsAgreeWithBooks, Agrees, Answered

LEMMA LinkStep ==
  ASSUME IntakeInv, [Next]_vars, NEW t \in Txns, receipts[t] # Nil
  PROVE  IF receipts[t].op = Nil
         THEN receipts'[t].op # Nil => receipts'[t].by \in allowed \cup Feeds
         ELSE receipts'[t] = receipts[t]
<1>1. TypeOK' /\ ReceiptMove(t) /\ receipts[t] \in Receipt
  BY BooksStep, ReceiptsMove DEF IntakeInv, TypeOK
<1>2. receipts[t].op # Nil => receipts'[t] = receipts[t]
  BY <1>1, ReceiptsStay
<1>3. CASE receipts[t].op = Nil /\ receipts'[t] = [receipts[t] EXCEPT !.state = "REVIEW"]
  BY <1>1, <1>3 DEF Receipt
<1>4. ASSUME NEW c \in Callers, NEW s \in Sources, LinkedBy(c, t, s)
      PROVE  receipts'[t].by \in allowed \cup Feeds
  BY <1>4 DEF LinkedBy, Authorised, Callers
<1> QED
  BY <1>1, <1>2, <1>3, <1>4 DEF ReceiptMove

(***************************************************************************)
(* Exceptional money that is given back.                                   *)
(***************************************************************************)
\* The parts of RefundsFollowChannel that concern one exception.
Follows(x) ==
  refunds[x] # Nil =>
    /\ Returned(x) <= 1
    /\ refunds[x].status = "SUCCEEDED" => refunds[x].results[refunds[x].paid] = "SUCCEEDED"
    /\ refunds[x].status = "FAILED" => refunds[x].results[Latest(x)] = "FAILED"
    /\ Latest(x) = 1 + Cardinality(RetryKeys(x))

\* Only the last attempt can have given the money back.
LEMMA ReturnedOnce ==
  ASSUME NEW N \in Nat, NEW r, N >= 1, \A n \in 1 .. N - 1 : r[n] = "FAILED"
  PROVE  /\ {n \in 1 .. N : r[n] = "SUCCEEDED"} \subseteq {N}
         /\ Cardinality({n \in 1 .. N : r[n] = "SUCCEEDED"}) <= 1
<1> DEFINE S == {n \in 1 .. N : r[n] = "SUCCEEDED"}
<1>1. S \subseteq {N}
  OBVIOUS
<1>2. IsFiniteSet({N}) /\ Cardinality({N}) = 1
  BY FS_Singleton
<1>3. IsFiniteSet(S) /\ Cardinality(S) <= Cardinality({N}) /\ Cardinality(S) \in Nat
  BY <1>1, <1>2, FS_Subset, FS_CardinalityType
<1> QED
  BY <1>1, <1>2, <1>3

Attempted(x) ==
  refunds[x] # Nil =>
    /\ x \in exceptions
    /\ Latest(x) >= 1
    /\ \A n \in 1 .. Latest(x) - 1 : refunds[x].results[n] = "FAILED"
    /\ refunds[x].status = "SUCCEEDED" => refunds[x].paid \in 1 .. Latest(x)

Counted(x) == IsFiniteSet(RetryKeys(x)) /\ (refunds[x] = Nil => RetryKeys(x) = {})

Observed(o) ==
  /\ refunds[o.exception] # Nil
  /\ o.attempt \in 1 .. Latest(o.exception)
  /\ refunds[o.exception].results[o.attempt] # "OPEN"

IsResolved(x) == x \in resolved <=> (refunds[x] # Nil /\ refunds[x].status = "SUCCEEDED")

\* All the invariant says about the refund of x.
Returns(x) == Attempted(x) /\ Counted(x) /\ Follows(x) /\ IsResolved(x)

LEMMA ReturnsParts ==
  ASSUME IntakeInv
  PROVE  /\ \A x \in Exception : Returns(x)
         /\ \A o \in observed : Observed(o)
<1>1. TypeOK /\ AttemptsInOrder /\ RetriesAreCounted /\ RefundsFollowChannel /\ ObservationsHaveResults
  BY DEF IntakeInv
<1>2. ASSUME NEW x \in Exception
      PROVE  Attempted(x) /\ Counted(x)
  BY <1>1 DEF AttemptsInOrder, RetriesAreCounted, Attempted, Counted
<1>3. ASSUME NEW x \in Exception
      PROVE  Follows(x) /\ IsResolved(x)
  <2>1. refunds[x] # Nil => x \in exceptions
    BY <1>2 DEF Attempted
  <2>2. Follows(x)
    BY <1>1, <2>1 DEF RefundsFollowChannel, Follows
  <2>3. IsResolved(x)
    BY <1>1, <2>1 DEF RefundsFollowChannel, IsResolved
  <2> QED
    BY <2>2, <2>3
<1>4. \A o \in observed : Observed(o)
  BY <1>1 DEF ObservationsHaveResults, Observed
<1> QED
  BY <1>2, <1>3, <1>4 DEF Returns

LEMMA ReturnsWhole ==
  ASSUME TypeOK', \A x \in Exception : Returns(x)', \A o \in observed' : Observed(o)'
  PROVE  AttemptsInOrder' /\ RetriesAreCounted' /\ RefundsFollowChannel' /\ ObservationsHaveResults'
<1>1. AttemptsInOrder' /\ RetriesAreCounted'
  BY DEF AttemptsInOrder, RetriesAreCounted, Returns, Attempted, Counted
<1>2. ObservationsHaveResults'
  BY DEF ObservationsHaveResults, Observed
<1>3. exceptions' \subseteq Exception /\ resolved' \subseteq exceptions'
  BY DEF TypeOK
<1>4. resolved' = {x \in exceptions' : refunds'[x] # Nil /\ refunds'[x].status = "SUCCEEDED"}
  BY <1>3 DEF Returns, IsResolved
<1>5. \A x \in exceptions' : Follows(x)'
  BY <1>3 DEF Returns
<1> QED
  BY <1>1, <1>2, <1>4, <1>5 DEF RefundsFollowChannel, Follows

\* A step that does not touch the refund of x.
LEMMA ReturnsStay ==
  ASSUME NEW x \in Exception, Returns(x), refunds'[x] = refunds[x],
         RetryKeys(x)' = RetryKeys(x), exceptions \subseteq exceptions',
         x \in resolved' <=> x \in resolved
  PROVE  Returns(x)'
<1>1. Attempted(x)' /\ IsResolved(x)'
  BY DEF Returns, Attempted, IsResolved, Latest
<1>2. Counted(x)'
  BY DEF Returns, Counted
<1>3. Returned(x)' = Returned(x) /\ Latest(x)' = Latest(x)
  BY DEF Returned, Latest
<1>4. Follows(x)'
  BY <1>3 DEF Returns, Follows
<1> QED
  BY <1>1, <1>2, <1>4 DEF Returns

\* Commands that are no retries leave the count of retries alone.
LEMMA RetryKeysStay ==
  ASSUME NEW k0, NEW request, request.type # "exception_refund.retry",
         commands[k0] = Nil \/ commands[k0].type # "exception_refund.retry",
         commands \in [Keys -> Request \cup {Nil}],
         commands' = [commands EXCEPT ![k0] = request],
         NEW x \in Exception
  PROVE  RetryKeys(x)' = RetryKeys(x)
<1> DEFINE retry == [type |-> "exception_refund.retry", of |-> x]
<1>1. retry \in Request /\ retry.type = "exception_refund.retry" /\ retry # Nil
  BY RowsAssumption DEF Request
<1> HIDE DEF retry
<1>2. \A k \in Keys : commands'[k] = retry <=> commands[k] = retry
  BY <1>1
<1> QED
  BY <1>2 DEF RetryKeys, retry

LEMMA RetryKeysMove ==
  ASSUME IntakeInv, [Next]_vars, NEW x \in Exception,
         ~\E y \in exceptions, k \in Keys : RetryExceptionRefund(y, k)
  PROVE  RetryKeys(x)' = RetryKeys(x)
<1> DEFINE Goal == RetryKeys(x)' = RetryKeys(x)
<1>0. commands \in [Keys -> Request \cup {Nil}] /\ TypeOK /\ JobsHaveRows
  BY DEF IntakeInv, TypeOK
<1>1. ASSUME commands' = commands
      PROVE  Goal
  BY <1>1 DEF RetryKeys
<1>2. CASE Pay
  <2>1. ASSUME NEW s \in Topups, NEW k \in Keys, BeginTopupPayment(s, k)
        PROVE  Goal
    <3> DEFINE request == [type |-> "topup.begin", of |-> s]
    <3>1. commands[k] = Nil /\ commands' = [commands EXCEPT ![k] = request]
      BY <2>1 DEF BeginTopupPayment, Unanswered, Answer
    <3>2. request.type # "exception_refund.retry"
      OBVIOUS
    <3> HIDE DEF request
    <3> QED
      BY <1>0, <3>1, <3>2, RetryKeysStay
  <2> QED
    BY <1>1, <1>2, <2>1 DEF Pay, CreateTopupQuote, QuoteLapses, BeginOrderPayment,
       ReleasePendingPayments, SettleSuccess, SettleFailure
<1>3. CASE GiveBack
  <2>1. ASSUME NEW y \in exceptions, NEW k \in Keys, RequestExceptionRefund(y, k)
        PROVE  Goal
    <3> DEFINE request == [type |-> "exception_refund.request", of |-> y]
    <3>1. commands[k] = Nil /\ commands' = [commands EXCEPT ![k] = request]
      BY <2>1 DEF RequestExceptionRefund, Unanswered, Answer
    <3>2. request.type # "exception_refund.retry"
      OBVIOUS
    <3> HIDE DEF request
    <3> QED
      BY <1>0, <3>1, <3>2, RetryKeysStay
  <2> QED
    BY <1>1, <1>3, <2>1 DEF GiveBack, ChannelRefunds, ObserveRefund, SettleExceptionRefund
<1>4. ASSUME NEW c \in Callers, SettleReceipt(c)
      PROVE  Goal
  <2> DEFINE request == LinkRequest(jobs[c])
             k == jobs[c].key
  <2>1. request.type = "wecom.receipt.link"
    BY DEF LinkRequest
  <2>2. \/ commands' = commands
        \/ k # Nil /\ commands' = [commands EXCEPT ![k] = request]
    BY <1>4 DEF SettleReceipt, Link
  <2>3. k # Nil => commands[k] \in {Nil, request}
    BY <1>4 DEF SettleReceipt, KeyFits
  <2> HIDE DEF request, k
  <2> QED
    BY <1>0, <1>1, <2>1, <2>2, <2>3, RetryKeysStay
<1>5. CASE Reconcile
  BY <1>1, <1>4, <1>5 DEF Reconcile, IngestWecomCollection, PreflightManual, ChangePermission,
     PreflightTrusted, RefuseReceipt, ReviewReceipt, Crash
<1>6. CASE UNCHANGED vars
  BY <1>1, <1>6 DEF vars
<1> QED
  BY <1>2, <1>3, <1>5, <1>6 DEF Next

\* A step changes the refund of x0 only.
LEMMA OtherReturns ==
  ASSUME IntakeInv, TypeOK', NEW x0 \in Exception, Returns(x0)',
         exceptions \subseteq exceptions',
         \A x \in Exception \ {x0} :
           /\ refunds'[x] = refunds[x] /\ RetryKeys(x)' = RetryKeys(x)
           /\ x \in resolved' <=> x \in resolved,
         \A o \in observed' : Observed(o)'
  PROVE  AttemptsInOrder' /\ RetriesAreCounted' /\ RefundsFollowChannel' /\ ObservationsHaveResults'
<1>1. \A x \in Exception : Returns(x)'
  BY ReturnsParts, ReturnsStay
<1> QED
  BY <1>1, ReturnsWhole

LEMMA RequestReturns ==
  ASSUME IntakeInv, [Next]_vars, NEW x0 \in Exception, refunds[x0] = Nil, x0 \in exceptions,
         exceptions' = exceptions, resolved' = resolved, observed' = observed,
         refunds' = [refunds EXCEPT ![x0] = [status |-> "REQUESTED", results |-> <<"OPEN">>, paid |-> 0]],
         \A x \in Exception : RetryKeys(x)' = RetryKeys(x)
  PROVE  AttemptsInOrder' /\ RetriesAreCounted' /\ RefundsFollowChannel' /\ ObservationsHaveResults'
<1> DEFINE r == [status |-> "REQUESTED", results |-> <<"OPEN">>, paid |-> 0]
<1>1. /\ TypeOK /\ TypeOK' /\ \A x \in Exception : Returns(x)
      /\ \A o \in observed : Observed(o)
  BY BooksStep, ReturnsParts DEF IntakeInv
<1>2. /\ refunds'[x0] = r
      /\ \A x \in Exception \ {x0} : refunds'[x] = refunds[x]
  BY <1>1 DEF TypeOK
<1>3. r.results[1] = "OPEN" /\ Len(r.results) = 1 /\ r.status = "REQUESTED"
  OBVIOUS
<1> HIDE DEF r
<1>4. Latest(x0)' = 1
  BY <1>2, <1>3 DEF Latest
<1>5. Attempted(x0)'
  BY <1>2, <1>3, <1>4 DEF Attempted
<1>6. RetryKeys(x0)' = {} /\ Counted(x0)'
  <2>1. RetryKeys(x0)' = {}
    BY <1>1 DEF Returns, Counted
  <2> QED
    BY <2>1, FS_EmptySet DEF Counted
<1>7. Follows(x0)'
  <2>1. Returned(x0)' <= 1
    <3>1. /\ {n \in 1 .. 1 : r.results[n] = "SUCCEEDED"} \subseteq {1}
          /\ Cardinality({n \in 1 .. 1 : r.results[n] = "SUCCEEDED"}) <= 1
      BY ReturnedOnce
    <3> QED
      BY <1>2, <1>4, <3>1 DEF Returned
  <2>2. Latest(x0)' = 1 + Cardinality(RetryKeys(x0)')
    BY <1>4, <1>6, FS_EmptySet
  <2> QED
    BY <1>2, <1>3, <2>1, <2>2 DEF Follows
<1>8. IsResolved(x0)'
  BY <1>1, <1>2, <1>3 DEF Returns, IsResolved
<1>9. Returns(x0)'
  BY <1>5, <1>6, <1>7, <1>8 DEF Returns
<1>10. ASSUME NEW o \in observed'
       PROVE  Observed(o)'
  <2>1. o.exception \in Exception /\ o.exception # x0
    BY <1>1, <1>10 DEF Observed, TypeOK, Observation
  <2> QED
    BY <1>1, <1>2, <1>10, <2>1 DEF Observed, Latest
<1> QED
  BY <1>1, <1>2, <1>9, <1>10, OtherReturns

LEMMA RetryReturns ==
  ASSUME IntakeInv, [Next]_vars, NEW x0 \in exceptions, NEW k0 \in Keys, RetryExceptionRefund(x0, k0)
  PROVE  AttemptsInOrder' /\ RetriesAreCounted' /\ RefundsFollowChannel' /\ ObservationsHaveResults'
<1> DEFINE r == refunds[x0].results
           N == Latest(x0)
           retry(x) == [type |-> "exception_refund.retry", of |-> x]
<1>1. /\ TypeOK /\ TypeOK' /\ \A x \in Exception : Returns(x)
      /\ \A o \in observed : Observed(o)
      /\ x0 \in Exception /\ refunds[x0] \in Refund
  BY BooksStep, ReturnsParts DEF IntakeInv, TypeOK, RetryExceptionRefund
<1>2. /\ exceptions' = exceptions /\ resolved' = resolved /\ observed' = observed
      /\ x0 \notin resolved /\ r[N] = "FAILED"
      /\ commands[k0] = Nil /\ commands' = [commands EXCEPT ![k0] = retry(x0)]
      /\ refunds' = [refunds EXCEPT ![x0].status = "REQUESTED", ![x0].results = Append(@, "OPEN")]
  BY DEF RetryExceptionRefund, Unanswered, Answer, books
<1>3. r \in Seq({"OPEN", "SUCCEEDED", "FAILED"}) /\ N = Len(r) /\ N \in Nat /\ N >= 1
  BY <1>1 DEF Refund, Latest, Returns, Attempted, RetryExceptionRefund
<1>4. /\ \A x \in Exception \ {x0} : refunds'[x] = refunds[x]
      /\ refunds'[x0].status = "REQUESTED" /\ refunds'[x0].results = Append(r, "OPEN")
  BY <1>1, <1>2 DEF TypeOK, Refund
<1>5. /\ Latest(x0)' = N + 1
      /\ \A n \in 1 .. N : refunds'[x0].results[n] = r[n]
      /\ refunds'[x0].results[N + 1] = "OPEN"
  BY <1>3, <1>4 DEF Latest
<1>6. refunds'[x0] # Nil
  <2>0. Append(r, "OPEN") \in Seq({"OPEN", "SUCCEEDED", "FAILED"})
    BY <1>3
  <2>1. [refunds[x0] EXCEPT !.status = "REQUESTED", !.results = Append(r, "OPEN")] \in Refund
    BY <1>1, <2>0 DEF Refund
  <2> QED
    BY <1>1, <1>2, <2>1, RowsAssumption DEF TypeOK
<1>7. \A n \in 1 .. N : refunds'[x0].results[n] = "FAILED"
  <2>1. \A n \in 1 .. N - 1 : r[n] = "FAILED"
    BY <1>1 DEF Returns, Attempted, RetryExceptionRefund
  <2>2. r[N] = "FAILED" /\ N \in Nat /\ \A n \in 1 .. N : refunds'[x0].results[n] = r[n]
    BY <1>2, <1>3, <1>5
  <2> HIDE DEF r, N
  <2>3. \A n \in 1 .. N : n = N \/ n \in 1 .. N - 1
    BY <2>2
  <2> QED
    BY <2>1, <2>2, <2>3
<1> HIDE DEF r, N
<1>8. Attempted(x0)'
  <2>1. x0 \in exceptions' /\ Latest(x0)' = N + 1 /\ N \in Nat /\ refunds'[x0].status = "REQUESTED"
    BY <1>2, <1>3, <1>4, <1>5
  <2>2. N + 1 >= 1 /\ (N + 1) - 1 = N
    BY <2>1
  <2> QED
    BY <1>7, <2>1, <2>2 DEF Attempted
<1>9. /\ RetryKeys(x0)' = RetryKeys(x0) \cup {k0} /\ k0 \notin RetryKeys(x0)
      /\ \A x \in Exception \ {x0} : RetryKeys(x)' = RetryKeys(x)
  <2>1. \A x \in Exception : retry(x) \in Request
    BY DEF Request
  <2>2. \A x \in Exception : retry(x) # Nil /\ (retry(x) = retry(x0) <=> x = x0)
    BY <1>1, <2>1, RowsAssumption
  <2>3. \A k \in Keys : commands'[k] = IF k = k0 THEN retry(x0) ELSE commands[k]
    BY <1>1, <1>2 DEF TypeOK
  <2>4. \A x \in Exception : /\ RetryKeys(x) = {k \in Keys : commands[k] = retry(x)}
                             /\ RetryKeys(x)' = {k \in Keys : commands'[k] = retry(x)}
    BY DEF RetryKeys
  <2>5. commands[k0] = Nil /\ x0 \in Exception
    BY <1>1, <1>2
  <2> HIDE DEF retry
  <2>6. /\ \A k \in Keys : commands'[k] = retry(x0) <=> (k = k0 \/ commands[k] = retry(x0))
        /\ commands[k0] # retry(x0)
    BY <2>2, <2>3, <2>5
  <2>7. \A x \in Exception \ {x0}, k \in Keys : commands'[k] = retry(x) <=> commands[k] = retry(x)
    BY <2>2, <2>3, <2>5
  <2>8. RetryKeys(x0)' = RetryKeys(x0) \cup {k0} /\ k0 \notin RetryKeys(x0)
    BY <2>4, <2>5, <2>6
  <2>9. \A x \in Exception \ {x0} : RetryKeys(x)' = RetryKeys(x)
    BY <2>4, <2>7
  <2> QED
    BY <2>8, <2>9
<1>10. Counted(x0)' /\ Cardinality(RetryKeys(x0)') = Cardinality(RetryKeys(x0)) + 1
  BY <1>1, <1>6, <1>9, FS_AddElement DEF Returns, Counted
<1>11. Follows(x0)'
  <2>1. Latest(x0)' = 1 + Cardinality(RetryKeys(x0)')
    <3>1. N = 1 + Cardinality(RetryKeys(x0)) /\ Cardinality(RetryKeys(x0)) \in Nat
      BY <1>1, FS_CardinalityType DEF Returns, Follows, Counted, RetryExceptionRefund, N
    <3> QED
      BY <1>3, <1>5, <1>10, <3>1
  <2>2. Returned(x0)' <= 1
    <3>1. Cardinality({n \in 1 .. N + 1 : refunds'[x0].results[n] = "SUCCEEDED"}) <= 1
      <4>1. N + 1 \in Nat /\ N + 1 >= 1 /\ (N + 1) - 1 = N
        BY <1>3
      <4>2. \A n \in 1 .. (N + 1) - 1 : refunds'[x0].results[n] = "FAILED"
        BY <1>7, <4>1
      <4> QED
        BY <4>1, <4>2, ReturnedOnce
    <3> QED
      BY <1>5, <3>1 DEF Returned
  <2> QED
    BY <1>4, <2>1, <2>2 DEF Follows
<1>12. IsResolved(x0)'
  BY <1>2, <1>4 DEF IsResolved
<1>13. Returns(x0)'
  BY <1>8, <1>10, <1>11, <1>12 DEF Returns
<1>14. ASSUME NEW o \in observed'
       PROVE  Observed(o)'
  <2>1. o.exception \in Exception /\ Observed(o)
    BY <1>1, <1>2, <1>14 DEF TypeOK, Observation
  <2>2. CASE o.exception = x0
    <3>1. o.attempt \in 1 .. N /\ r[o.attempt] # "OPEN"
      BY <2>1, <2>2 DEF Observed, N, r
    <3> QED
      BY <1>3, <1>5, <1>6, <2>2, <3>1 DEF Observed
  <2>3. CASE o.exception # x0
    BY <1>4, <2>1, <2>3 DEF Observed, Latest
  <2> QED
    BY <2>2, <2>3
<1> QED
  BY <1>1, <1>2, <1>4, <1>9, <1>13, <1>14, OtherReturns

LEMMA DecisionReturns ==
  ASSUME IntakeInv, [Next]_vars, NEW x0 \in exceptions, NEW n0 \in 1 .. MaxAttempts,
         NEW result \in {"SUCCEEDED", "FAILED"}, ChannelRefunds(x0, n0, result)
  PROVE  AttemptsInOrder' /\ RetriesAreCounted' /\ RefundsFollowChannel' /\ ObservationsHaveResults'
<1> DEFINE r == refunds[x0].results
           N == Latest(x0)
           q == [refunds[x0] EXCEPT !.results = [r EXCEPT ![n0] = result]]
<1>1. /\ TypeOK /\ TypeOK' /\ \A x \in Exception : Returns(x)
      /\ \A o \in observed : Observed(o)
      /\ x0 \in Exception /\ refunds[x0] \in Refund
  BY BooksStep, ReturnsParts DEF IntakeInv, TypeOK, ChannelRefunds
<1>2. /\ exceptions' = exceptions /\ resolved' = resolved /\ observed' = observed
      /\ commands' = commands /\ refunds[x0] # Nil
      /\ n0 \in 1 .. N /\ r[n0] = "OPEN"
      /\ refunds' = [refunds EXCEPT ![x0].results[n0] = result]
  BY DEF ChannelRefunds, books
<1>3. r \in Seq({"OPEN", "SUCCEEDED", "FAILED"}) /\ N = Len(r) /\ N \in Nat /\ N >= 1
  BY <1>1, <1>2 DEF Refund, Latest, Returns, Attempted
<1>4. [r EXCEPT ![n0] = result] \in Seq({"OPEN", "SUCCEEDED", "FAILED"})
  BY <1>2, <1>3
<1>5. q \in Refund /\ refunds' = [refunds EXCEPT ![x0] = q]
  BY <1>1, <1>2, <1>4 DEF TypeOK, Refund
<1>6. /\ \A x \in Exception \ {x0} : refunds'[x] = refunds[x]
      /\ refunds'[x0] = q /\ q # Nil
      /\ q.status = refunds[x0].status /\ q.paid = refunds[x0].paid
      /\ q.results = [r EXCEPT ![n0] = result]
  BY <1>1, <1>5, RowsAssumption DEF TypeOK, Refund
<1>7. \A n \in 1 .. N - 1 : r[n] = "FAILED"
  BY <1>1, <1>2 DEF Returns, Attempted
<1>8. n0 = N
  <2> HIDE DEF r, N
  <2>1. n0 \in 1 .. N /\ r[n0] = "OPEN" /\ N \in Nat
    BY <1>2, <1>3
  <2>2. n0 \notin 1 .. N - 1
    BY <1>7, <2>1
  <2> QED
    BY <2>1, <2>2
<1>9. /\ Latest(x0)' = N /\ q.results[N] = result
      /\ \A n \in 1 .. N - 1 : q.results[n] = "FAILED"
  <2>1. Len(q.results) = N
    BY <1>2, <1>3, <1>6
  <2>2. q.results[N] = result /\ \A n \in 1 .. N - 1 : q.results[n] = r[n]
    BY <1>3, <1>6, <1>8
  <2> QED
    BY <1>6, <1>7, <2>1, <2>2 DEF Latest
<1>10. /\ refunds[x0].status = "SUCCEEDED" => refunds[x0].paid \in 1 .. N /\ r[refunds[x0].paid] = "SUCCEEDED"
       /\ refunds[x0].status # "FAILED"
  <2>1. Attempted(x0) /\ Follows(x0)
    BY <1>1 DEF Returns
  <2> QED
    BY <1>2, <1>8, <2>1 DEF Attempted, Follows
<1>11. \A x \in Exception : RetryKeys(x)' = RetryKeys(x)
  BY <1>2 DEF RetryKeys
<1> HIDE DEF q, N
<1>12. Attempted(x0)'
  BY <1>2, <1>3, <1>6, <1>9, <1>10 DEF Attempted
<1>13. Counted(x0)' /\ IsResolved(x0)'
  BY <1>1, <1>2, <1>6, <1>11 DEF Returns, Counted, IsResolved
<1>14. Follows(x0)'
  <2>1. Returned(x0)' <= 1
    <3>1. Cardinality({n \in 1 .. N : q.results[n] = "SUCCEEDED"}) <= 1
      BY <1>3, <1>9, ReturnedOnce
    <3> QED
      BY <1>6, <1>9, <3>1 DEF Returned
  <2>2. q.status = "SUCCEEDED" => q.results[q.paid] = "SUCCEEDED"
    <3>1. SUFFICES ASSUME q.status = "SUCCEEDED"
                   PROVE  q.results[q.paid] = "SUCCEEDED"
      OBVIOUS
    <3>2. q.paid \in 1 .. N /\ r[q.paid] = "SUCCEEDED"
      BY <1>6, <1>10, <3>1
    <3>3. q.paid # n0
      BY <1>2, <3>2
    <3>4. DOMAIN r = 1 .. N
      BY <1>3
    <3> HIDE DEF r
    <3> QED
      BY <1>6, <3>2, <3>3, <3>4
  <2>3. Latest(x0)' = 1 + Cardinality(RetryKeys(x0)')
    BY <1>1, <1>2, <1>9, <1>11 DEF Returns, Follows, N
  <2> QED
    BY <1>6, <1>10, <2>1, <2>2, <2>3 DEF Follows
<1>15. Returns(x0)'
  BY <1>12, <1>13, <1>14 DEF Returns
<1>16. ASSUME NEW o \in observed'
       PROVE  Observed(o)'
  <2>1. o.exception \in Exception /\ Observed(o)
    BY <1>1, <1>2, <1>16 DEF TypeOK, Observation
  <2>2. CASE o.exception = x0
    <3>1. o.attempt \in 1 .. N /\ r[o.attempt] # "OPEN"
      BY <2>1, <2>2 DEF Observed, N
    <3>2. o.attempt # n0
      BY <1>2, <3>1
    <3>3. q.results[o.attempt] # "OPEN"
      <4>1. o.attempt \in 1 .. N - 1
        BY <1>3, <1>8, <3>1, <3>2
      <4> QED
        BY <1>9, <4>1
    <3> QED
      BY <1>6, <1>9, <2>2, <3>1, <3>3 DEF Observed
  <2>3. CASE o.exception # x0
    BY <1>6, <2>1, <2>3 DEF Observed, Latest
  <2> QED
    BY <2>2, <2>3
<1> QED
  BY <1>1, <1>2, <1>6, <1>11, <1>15, <1>16, OtherReturns

LEMMA ObserveReturns ==
  ASSUME IntakeInv, [Next]_vars, NEW x0 \in exceptions, NEW n0 \in 1 .. MaxAttempts, NEW id \in EventIds,
         ObserveRefund(x0, n0, id)
  PROVE  AttemptsInOrder' /\ RetriesAreCounted' /\ RefundsFollowChannel' /\ ObservationsHaveResults'
<1> DEFINE o0 == [exception |-> x0, attempt |-> n0, id |-> id]
<1>1. /\ TypeOK' /\ \A x \in Exception : Returns(x)
      /\ \A o \in observed : Observed(o)
  BY BooksStep, ReturnsParts
<1>2. /\ UNCHANGED <<exceptions, resolved, commands, refunds>>
      /\ observed' = observed \cup {o0}
      /\ Observed(o0)
  BY DEF ObserveRefund, Observed, books
<1>3. \A x \in Exception : Returns(x)'
  BY <1>1, <1>2, ReturnsStay DEF RetryKeys
<1>4. \A o \in observed' : Observed(o)'
  <2> HIDE DEF o0
  <2> QED
    BY <1>1, <1>2 DEF Observed, Latest
<1> QED
  BY <1>1, <1>3, <1>4, ReturnsWhole

LEMMA SettleReturns ==
  ASSUME IntakeInv, [Next]_vars, NEW o0 \in observed, SettleExceptionRefund(o0)
  PROVE  AttemptsInOrder' /\ RetriesAreCounted' /\ RefundsFollowChannel' /\ ObservationsHaveResults'
<1> DEFINE x0 == o0.exception
           n0 == o0.attempt
           r == refunds[x0].results
           N == Latest(x0)
<1>1. /\ TypeOK /\ TypeOK' /\ \A x \in Exception : Returns(x)
      /\ \A o \in observed : Observed(o)
      /\ x0 \in Exception
  BY BooksStep, ReturnsParts DEF IntakeInv, TypeOK, Observation
<1>2. /\ exceptions' = exceptions /\ observed' = observed /\ commands' = commands
      /\ refunds[x0] # Nil /\ n0 \in 1 .. N
  BY <1>1 DEF SettleExceptionRefund, books, Observed
<1>3. \/ /\ r[n0] = "SUCCEEDED" /\ resolved' = resolved \cup {x0}
         /\ refunds' = [refunds EXCEPT ![x0].status = "SUCCEEDED", ![x0].paid = n0]
      \/ /\ resolved' = resolved /\ refunds' = refunds
      \/ /\ r[n0] = "FAILED" /\ resolved' = resolved
         /\ refunds[x0].status # "SUCCEEDED" /\ ~(n0 < N)
         /\ refunds' = [refunds EXCEPT ![x0].status = "FAILED"]
  BY DEF SettleExceptionRefund, Superseded
<1>4. refunds[x0] \in Refund /\ r \in Seq({"OPEN", "SUCCEEDED", "FAILED"}) /\ N = Len(r) /\ N \in Nat
  BY <1>1, <1>2 DEF TypeOK, Refund, Latest
<1>5. \A x \in Exception : RetryKeys(x)' = RetryKeys(x)
  BY <1>2 DEF RetryKeys
<1>6. Attempted(x0) /\ Counted(x0) /\ Follows(x0) /\ IsResolved(x0)
  BY <1>1 DEF Returns
\* The rows after a settlement that changes the status of the refund.
<1>7. ASSUME NEW q \in Refund, refunds' = [refunds EXCEPT ![x0] = q], q.results = r,
             q.status \in {"SUCCEEDED", "FAILED"},
             q.status = "SUCCEEDED" => r[n0] = "SUCCEEDED" /\ q.paid = n0 /\ resolved' = resolved \cup {x0},
             q.status = "FAILED" => r[N] = "FAILED" /\ x0 \notin resolved /\ resolved' = resolved
      PROVE  AttemptsInOrder' /\ RetriesAreCounted' /\ RefundsFollowChannel' /\ ObservationsHaveResults'
  <2> HIDE DEF x0, n0
  <2>1. /\ refunds'[x0] = q /\ q # Nil
        /\ \A x \in Exception \ {x0} : refunds'[x] = refunds[x]
    BY <1>1, <1>7, RowsAssumption DEF TypeOK
  <2>2. Latest(x0)' = N
    BY <1>7, <2>1 DEF Latest
  <2>3. Attempted(x0)'
    BY <1>2, <1>6, <1>7, <2>1, <2>2 DEF Attempted
  <2>4. Counted(x0)'
    BY <1>1, <1>5, <1>6, <2>1 DEF Counted
  <2>5. Returned(x0)' = Returned(x0)
    BY <1>7, <2>1, <2>2 DEF Returned
  <2>6. Follows(x0)'
    BY <1>1, <1>2, <1>5, <1>6, <1>7, <2>1, <2>2, <2>5 DEF Follows
  <2>7. IsResolved(x0)'
    BY <1>7, <2>1 DEF IsResolved
  <2>8. Returns(x0)'
    BY <2>3, <2>4, <2>6, <2>7 DEF Returns
  <2>9. ASSUME NEW o \in observed'
        PROVE  Observed(o)'
    <3>1. o.exception \in Exception /\ Observed(o)
      BY <1>1, <1>2, <2>9 DEF TypeOK, Observation
    <3>2. refunds'[o.exception] # Nil /\ refunds'[o.exception].results = refunds[o.exception].results
      BY <1>7, <2>1, <3>1 DEF Observed
    <3> QED
      BY <3>1, <3>2 DEF Observed, Latest
  <2>10. \A x \in Exception \ {x0} : x \in resolved' <=> x \in resolved
    BY <1>7
  <2> QED
    BY <1>1, <1>2, <1>5, <2>1, <2>8, <2>9, <2>10, OtherReturns
<1>8. CASE resolved' = resolved /\ refunds' = refunds
  <2>1. \A x \in Exception : Returns(x)'
    BY <1>1, <1>2, <1>5, <1>8, ReturnsStay
  <2>2. \A o \in observed' : Observed(o)'
    BY <1>1, <1>2, <1>8 DEF Observed, Latest
  <2> QED
    BY <1>1, <2>1, <2>2, ReturnsWhole
<1>9. CASE /\ r[n0] = "SUCCEEDED" /\ resolved' = resolved \cup {x0}
           /\ refunds' = [refunds EXCEPT ![x0].status = "SUCCEEDED", ![x0].paid = n0]
  <2> DEFINE q == [refunds[x0] EXCEPT !.status = "SUCCEEDED", !.paid = n0]
  <2>1. n0 \in Nat
    <3> HIDE DEF n0, N
    <3> QED
      BY <1>2, <1>4
  <2>2. q \in Refund /\ q.results = r /\ q.status = "SUCCEEDED" /\ q.paid = n0
    BY <1>4, <2>1 DEF Refund
  <2>3. refunds' = [refunds EXCEPT ![x0] = q]
    BY <1>1, <1>4, <1>9 DEF TypeOK, Refund
  <2> HIDE DEF q
  <2> QED
    BY <1>7, <1>9, <2>2, <2>3
<1>10. CASE /\ r[n0] = "FAILED" /\ resolved' = resolved
            /\ refunds[x0].status # "SUCCEEDED" /\ ~(n0 < N)
            /\ refunds' = [refunds EXCEPT ![x0].status = "FAILED"]
  <2> DEFINE q == [refunds[x0] EXCEPT !.status = "FAILED"]
  <2>1. /\ q \in Refund /\ q.results = r /\ q.status = "FAILED"
        /\ refunds' = [refunds EXCEPT ![x0] = q]
    BY <1>1, <1>4, <1>10 DEF TypeOK, Refund
  <2>2. r[N] = "FAILED"
    <3>1. n0 = N
      <4> HIDE DEF n0, N
      <4> QED
        BY <1>2, <1>4, <1>10
    <3> QED
      BY <1>10, <3>1
  <2>3. x0 \notin resolved
    BY <1>6, <1>10 DEF IsResolved
  <2> HIDE DEF q
  <2> QED
    BY <1>7, <1>10, <2>1, <2>2, <2>3
<1> QED
  BY <1>3, <1>8, <1>9, <1>10

LEMMA ReturnsStep ==
  ASSUME IntakeInv, [Next]_vars
  PROVE  AttemptsInOrder' /\ RetriesAreCounted' /\ RefundsFollowChannel' /\ ObservationsHaveResults'
<1> DEFINE Goal == AttemptsInOrder' /\ RetriesAreCounted' /\ RefundsFollowChannel' /\ ObservationsHaveResults'
<1>1. /\ TypeOK /\ TypeOK' /\ BooksGrow /\ \A x \in Exception : Returns(x)
      /\ \A o \in observed : Observed(o)
  BY BooksStep, ReturnsParts DEF IntakeInv
<1>2. ASSUME UNCHANGED <<resolved, refunds, observed>>,
             ~\E y \in exceptions, k \in Keys : RetryExceptionRefund(y, k)
      PROVE  Goal
  <2>1. \A x \in Exception : Returns(x)'
    BY <1>1, <1>2, ReturnsStay, RetryKeysMove DEF BooksGrow
  <2>2. \A o \in observed' : Observed(o)'
    BY <1>1, <1>2 DEF Observed, Latest
  <2> QED
    BY <1>1, <2>1, <2>2, ReturnsWhole
<1>3. CASE \E y \in exceptions, k \in Keys : RetryExceptionRefund(y, k)
  BY <1>3, RetryReturns
<1>4. ASSUME ~\E y \in exceptions, k \in Keys : RetryExceptionRefund(y, k),
             NEW x \in exceptions, NEW k \in Keys, RequestExceptionRefund(x, k)
      PROVE  Goal
  <2>1. CASE refunds[x] # Nil
    BY <1>2, <1>4, <2>1 DEF RequestExceptionRefund
  <2>2. CASE refunds[x] = Nil
    <3>1. \A y \in Exception : RetryKeys(y)' = RetryKeys(y)
      BY <1>4, RetryKeysMove
    <3>2. /\ exceptions' = exceptions /\ resolved' = resolved /\ observed' = observed
          /\ refunds' = [refunds EXCEPT ![x] =
                           [status |-> "REQUESTED", results |-> <<"OPEN">>, paid |-> 0]]
      BY <1>4, <2>2 DEF RequestExceptionRefund, books
    <3>3. x \in Exception
      BY <1>1 DEF TypeOK
    <3> QED
      BY <2>2, <3>1, <3>2, <3>3, RequestReturns
  <2> QED
    BY <2>1, <2>2
<1>5. CASE Pay \/ Reconcile \/ UNCHANGED vars
  <2>1. UNCHANGED <<resolved, refunds, observed>>
    BY <1>5 DEF Pay, Reconcile, vars, returns, CreateTopupQuote, QuoteLapses, BeginTopupPayment,
       BeginOrderPayment, ReleasePendingPayments, SettleSuccess, SettleFailure,
       IngestWecomCollection, PreflightManual, ChangePermission, PreflightTrusted, SettleReceipt,
       RefuseReceipt, ReviewReceipt, Crash
  <2> QED
    BY <1>2, <1>3, <2>1
<1>6. CASE GiveBack
  BY <1>3, <1>4, <1>6, DecisionReturns, ObserveReturns, SettleReturns DEF GiveBack
<1> QED
  BY <1>5, <1>6 DEF Next

(***************************************************************************)
(* The theorems.                                                           *)
(***************************************************************************)
LEMMA IntakeInit ==
  ASSUME Init
  PROVE  IntakeInv
<1>1. TypeOK
  BY DEF Init, TypeOK
<1>2. KindsFit /\ JobsHaveRows /\ EventsAreClaimed /\ ObservationsHaveResults
  <2>1. \A s \in Topups : status[s] = Nil
    BY DEF Init, Sources
  <2>2. KindsFit
    BY <2>1, IntakeAssumption DEF Init, KindsFit, Statuses
  <2> QED
    BY <2>2 DEF Init, JobsHaveRows, EventsAreClaimed, ObservationsHaveResults
<1>3. CashIsAccounted
  <2>1. \A t \in Txns, s \in Sources : claims[t] # s
    BY IntakeAssumption DEF Init
  <2>2. \A t \in Txns : ExceptionsOf(t) = {}
    BY DEF Init, ExceptionsOf
  <2>3. \A s \in Sources : Funded(s)
    BY IntakeAssumption DEF Init, Funded, Statuses
  <2>4. batches = {funding[s] : s \in Topups} \ {Nil}
    BY DEF Init, Sources
  <2> QED
    BY <1>1, <2>1, <2>2, <2>3, <2>4 DEF CashIsAccounted, Funded
<1>4. ReceiptsAgreeWithBooks
  BY DEF Init, ReceiptsAgreeWithBooks
<1>5. \A x \in Exception : refunds[x] = Nil
  BY DEF Init
<1>6. \A x \in Exception : RetryKeys(x) = {}
  <2>1. ASSUME NEW x \in Exception
        PROVE  RetryKeys(x) = {}
    <3> DEFINE retry == [type |-> "exception_refund.retry", of |-> x]
    <3>1. retry \in Request
      BY DEF Request
    <3>2. retry # Nil
      BY <3>1, RowsAssumption
    <3>3. \A k \in Keys : commands[k] = Nil
      BY DEF Init
    <3> HIDE DEF retry
    <3> QED
      BY <3>2, <3>3 DEF RetryKeys, retry
  <2> QED
    BY <2>1
<1>7. AttemptsInOrder /\ RetriesAreCounted
  BY <1>5, <1>6, FS_EmptySet DEF AttemptsInOrder, RetriesAreCounted
<1>8. RefundsFollowChannel
  BY DEF Init, RefundsFollowChannel
<1> QED
  BY <1>1, <1>2, <1>3, <1>4, <1>7, <1>8 DEF IntakeInv

LEMMA IntakeStep ==
  ASSUME IntakeInv, [Next]_vars
  PROVE  IntakeInv'
<1>1. TypeOK' /\ CashIsAccounted' /\ KindsFit'
  BY BooksStep
<1>2. JobsHaveRows' /\ EventsAreClaimed' /\ ReceiptsAgreeWithBooks'
  BY JobsStep, EventsStep, ReceiptsStep
<1>3. AttemptsInOrder' /\ RetriesAreCounted' /\ RefundsFollowChannel' /\ ObservationsHaveResults'
  BY ReturnsStep
<1> QED
  BY <1>1, <1>2, <1>3 DEF IntakeInv

\* The invariant of the intake of money is inductive.
THEOREM IntakeCorrect == Spec => []IntakeInv
<1>1. Init => IntakeInv
  BY IntakeInit
<1>2. IntakeInv /\ [Next]_vars => IntakeInv'
  BY IntakeStep
<1> QED
  BY <1>1, <1>2, PTL DEF Spec

\* Every transaction that was taken funds one payment or is one exception, for any
\* number of payments and transactions (settleVerifiedPayment, settleVerifiedTopup).
THEOREM CashStaysAccounted == Spec => []CashIsAccounted
<1>1. IntakeInv => CashIsAccounted
  BY DEF IntakeInv
<1> QED
  BY <1>1, IntakeCorrect, PTL

\* Linked receipts agree with the books whatever happens between the preflight and
\* the settlement of a link (applyReceipt).
THEOREM ReceiptsStayInAgreement == Spec => []ReceiptsAgreeWithBooks
<1>1. IntakeInv => ReceiptsAgreeWithBooks
  BY DEF IntakeInv
<1> QED
  BY <1>1, IntakeCorrect, PTL

\* Exceptional money is returned at most once over any number of retries and
\* reports (requestExceptionRefund, retryExceptionRefund, settleVerifiedExceptionRefund).
THEOREM ExceptionsAreReturnedOnce == Spec => []RefundsFollowChannel
<1>1. IntakeInv => RefundsFollowChannel
  BY DEF IntakeInv
<1> QED
  BY <1>1, IntakeCorrect, PTL

\* Who links a receipt may do so when the money is booked (beforeSettlement), and
\* no later step changes a linked receipt.
THEOREM OnlyAuthorisedLinks == Spec => LinksAreAuthorised
<1>1. IntakeInv /\ [Next]_vars =>
        [\A t \in Txns : receipts[t] # Nil =>
           IF receipts[t].op = Nil
           THEN receipts'[t].op # Nil => receipts'[t].by \in allowed \cup Feeds
           ELSE receipts'[t] = receipts[t]]_vars
  BY LinkStep
<1> QED
  BY <1>1, IntakeCorrect, PTL DEF Spec, LinksAreAuthorised
=============================================================================
