---------------------------- MODULE PaymentChannel ----------------------------
(***************************************************************************)
(* Reconciliation of payments and refunds with their channel:              *)
(*   packages/db/src/tennis/payment-channel.ts, channel-intents.ts, and    *)
(*   the simulated channel of mock-payments.ts and mock-channel-store.ts.  *)
(*                                                                         *)
(* An operation is what PMS asks of the channel for one payment, or for    *)
(* one attempt (generation) at one refund.  Reconciling an operation is a  *)
(* chain of separate database statements, transactions and channel calls,  *)
(* run at once by the 15 s worker, by requests of people and by            *)
(* notifications of the channel.  Each invocation is a worker here and     *)
(* each statement, transaction or call of it is one action, so that all    *)
(* their interleavings, lost answers, errors and crashes are behaviours.   *)
(*                                                                         *)
(* A lease of 30 s may lapse whenever it is held: nothing bounds how long  *)
(* an invocation takes.  The lease token is the name of the worker, which  *)
(* runs one invocation at a time.                                          *)
(***************************************************************************)
EXTENDS Integers, FiniteSets

CONSTANTS
  OrderPayments,  \* payment attempts of orders (ORDER)
  Topups,         \* payments of wallet top-ups (TOPUP)
  Refunds,        \* refunds and exception refunds (REFUND, EXCEPTION_REFUND)
  ExceptionRefunds, \* those of captures that funded nothing (EXCEPTION_REFUND)
  OldSources,     \* made before PMS kept operations, which they get on demand
  RefusedBefore,  \* refunds among them that have a verified failure from then
  MaxGeneration,  \* bound: attempts at one refund
  EventIds,       \* numbers the channel gives to reports of one outcome
  Workers,        \* concurrent invocations
  MaxFaults,      \* bound: lost answers, errors and crashes of a behaviour
  Nil             \* SQL NULL, a row that does not exist, an idle worker

VARIABLES
  source,   \* status of each payment and refund in the books
  overdue,  \* payments whose expiresAt has passed
  ops,      \* tennis.channel_operations
  ledger,   \* the channel's records: whether it was asked, and what it decided
  stored,   \* tennis.channel_observations
  applied,  \* those with applied_at
  settled,  \* payment_events, topup_events, refund_events
  jobs,     \* what each worker is doing
  faults    \* how many faults happened

vars == <<source, overdue, ops, ledger, stored, applied, settled, jobs, faults>>

Payments == OrderPayments \cup Topups
Sources  == Payments \cup Refunds

Operation == [source: Payments, generation: {1}]
             \cup [source: Refunds, generation: 1 .. MaxGeneration]

Event == [op: Operation, status: {"SUCCEEDED", "FAILED"}, id: EventIds]

\* A row: its state, and its lease with whether lease_until is still to come.
OpRow == [state: {"READY", "IN_FLIGHT", "UNKNOWN", "PENDING", "SUCCEEDED", "FAILED"},
          token: Workers \cup {Nil}, running: BOOLEAN]

Steps == {"replay", "check", "create", "query", "recheck", "save", "record",
          "apply", "settle", "mark", "giveup"}

\* An invocation: on whose behalf, whether it holds a claim of its operation,
\* whether it saw it READY, the observations it still replays, the event or the
\* answer it deals with.
Job == [step: Steps, op: Operation, by: {"server", "person", "channel"},
        claimed: BOOLEAN, first: BOOLEAN, todo: SUBSET Event,
        event: Event \cup {Nil}, answer: {"NONE", "PENDING", "UNKNOWN"}]

ASSUME SourcesAssumption ==
  /\ OrderPayments \cap Topups = {}
  /\ Payments \cap Refunds = {}
  /\ ExceptionRefunds \subseteq Refunds
  /\ OldSources \subseteq Sources \ ExceptionRefunds
  /\ RefusedBefore \subseteq OldSources \cap Refunds

ASSUME NilAssumption ==
  /\ Nil \notin Workers
  /\ Nil \notin Event
  /\ Nil \notin Job
  /\ Nil \notin OpRow

ASSUME BoundsAssumption == MaxGeneration \in Nat \ {0} /\ MaxFaults \in Nat
-----------------------------------------------------------------------------
IsRefund(o) == o.source \in Refunds
Newer(o)    == {n \in Operation : /\ n.source = o.source
                                  /\ n.generation > o.generation
                                  /\ ops[n] # Nil}
Latest(o)   == ops[o] # Nil /\ Newer(o) = {}
Leased(o)   == ops[o].token # Nil /\ ops[o].running

\* A row as it is inserted, and the first row of a source that has none yet.
Fresh       == [state |-> "READY", token |-> Nil, running |-> FALSE]
Missing(o)  == o.generation = 1 /\ ops[o] = Nil
Row(o)      == IF ops[o] = Nil THEN Fresh ELSE ops[o]

\* isPayable: may the channel still be asked to move money for o?
Payable(o) ==
  IF IsRefund(o) THEN source[o.source] = "REQUESTED" /\ Newer(o) = {}
                 ELSE source[o.source] = "PENDING" /\ o.source \notin overdue

\* The channel's record r of an operation: what it was asked, what it decided,
\* and the outcome it reports when asked: a payment that failed may still succeed.
Record == SUBSET {"ASKED", "FAILED", "SUCCEEDED"}
Open(r) == r \cap {"FAILED", "SUCCEEDED"} = {}
Outcome(r) == IF "SUCCEEDED" \in r THEN "SUCCEEDED" ELSE "FAILED"

Running(w) == jobs[w] # Nil
AtStep(w, s) == Running(w) /\ jobs[w].step = s
GoTo(w, s) == jobs' = [jobs EXCEPT ![w].step = s]
Finish(w)  == jobs' = [jobs EXCEPT ![w] = Nil]
Handle(w, e) == jobs' = [jobs EXCEPT ![w].step = "record", ![w].event = e]
Answer(w, a) == jobs' = [jobs EXCEPT ![w].step = "save", ![w].answer = a]

\* The books are touched by settlements only, the channel's ledger by calls.
KeepBooks  == UNCHANGED <<source, overdue, settled>>
KeepLedger == UNCHANGED ledger
KeepRows   == UNCHANGED <<ops, stored, applied>>
-----------------------------------------------------------------------------
Init ==
  /\ source = [s \in Sources |-> IF s \in RefusedBefore THEN "FAILED"
                                 ELSE IF s \in Refunds THEN "REQUESTED" ELSE "PENDING"]
  /\ overdue = {}
  /\ ops = [o \in Operation |->
              IF o.generation = 1 /\ o.source \notin OldSources THEN Fresh ELSE Nil]
  /\ ledger = [o \in Operation |-> {}]
  /\ stored = {}
  /\ applied = {}
  /\ settled = {}
  /\ jobs = [w \in Workers |-> Nil]
  /\ faults = 0

(***************************************************************************)
(* What happens around the operations.                                     *)
(***************************************************************************)
\* expiresAt of a payment passes: the order's hold, or ten minutes of a top-up.
ExpiryPasses(s) ==
  /\ s \in Payments \ overdue
  /\ overdue' = overdue \cup {s}
  /\ UNCHANGED <<source, settled, jobs, faults>> /\ KeepRows /\ KeepLedger

\* An unpaid order expires or is cancelled with its payment (CourtBooking).
CloseOrderPayment(s) ==
  /\ s \in OrderPayments /\ source[s] = "PENDING"
  /\ source' = [source EXCEPT ![s] = "CLOSED"]
  /\ UNCHANGED <<overdue, settled, jobs, faults>> /\ KeepRows /\ KeepLedger

LeaseLapses(o) ==
  /\ ops[o] # Nil /\ Leased(o)
  /\ ops' = [ops EXCEPT ![o].running = FALSE]
  /\ UNCHANGED <<stored, applied, jobs, faults>> /\ KeepBooks /\ KeepLedger

\* The channel decides on what it was asked: a customer pays or gives up, a
\* refund goes through or not.
Undecided(o) ==
  Open(ledger[o]) \/ (~IsRefund(o) /\ "SUCCEEDED" \notin ledger[o])

ChannelDecides(o, status) ==
  /\ "ASKED" \in ledger[o]
  /\ Undecided(o)
  /\ ledger' = [ledger EXCEPT ![o] = @ \cup {status}]
  /\ UNCHANGED <<jobs, faults>> /\ KeepBooks /\ KeepRows

\* enqueueRefundChannel and ensureLegacyPaymentChannel: a person who asks about an
\* old payment or refund, or simulates its outcome, first has its operation made, in
\* a transaction of its own.
Enqueue(o) ==
  /\ o.source \in OldSources /\ Missing(o)
  /\ ops' = [ops EXCEPT ![o] = Fresh]
  /\ UNCHANGED <<stored, applied, jobs, faults>> /\ KeepBooks /\ KeepLedger

\* An operation that was never sent, of a refund with a settled failure: one from
\* before there were operations, or one of any attempt.
LegacyFailure(o) ==
  /\ o.source \notin ExceptionRefunds
  /\ Row(o).state = "READY"
  /\ \/ o.source \in RefusedBefore
     \/ \E e \in settled : e.op.source = o.source /\ e.status = "FAILED"

\* retryFailedRefund with retryRefundChannel: an employee tries again what was
\* refused, under a new refund number.  The operation of an old refund is made in the
\* same transaction, and a legacy failure is written to it.
Fault_RetryableWithoutStatus(o) ==
  (source[o.source] = "FAILED" /\ Row(o).state = "FAILED") \/ LegacyFailure(o)
Retryable(o) ==
  source[o.source] = "FAILED" /\ (Row(o).state = "FAILED" \/ LegacyFailure(o))

RetryRefund(o) ==
  LET next == [o EXCEPT !.generation = @ + 1] IN
  /\ IsRefund(o) /\ o.generation < MaxGeneration
  /\ Latest(o) \/ (o.source \in OldSources /\ Missing(o))
  /\ Retryable(o)
  /\ ops' = [ops EXCEPT ![o] = [Row(o) EXCEPT !.state = "FAILED"], ![next] = Fresh]
  /\ source' = [source EXCEPT ![o.source] = "REQUESTED"]
  /\ UNCHANGED <<overdue, ledger, stored, applied, settled, jobs, faults>>
-----------------------------------------------------------------------------
(***************************************************************************)
(* An invocation begins.                                                   *)
(***************************************************************************)
Unapplied(o) == {e \in stored \ applied : e.op = o}

\* processDueChannelOperations picks what is not finished and not leased, or
\* has an observation that was not applied; next_check_at passes in the end.
Fault_DueWithoutReplay(o) ==
  ops[o] # Nil /\ ops[o].state \notin {"SUCCEEDED", "FAILED"} /\ ~Leased(o)
Fault_DueWithoutLapse(o) ==
  /\ ops[o] # Nil
  /\ \/ ops[o].state \notin {"SUCCEEDED", "FAILED"} /\ ops[o].token = Nil
     \/ Unapplied(o) # {}
Due(o) ==
  /\ ops[o] # Nil
  /\ \/ ops[o].state \notin {"SUCCEEDED", "FAILED"} /\ ~Leased(o)
     \/ Unapplied(o) # {}

Begin(w, o, by) ==
  /\ ~Running(w)
  /\ jobs' = [jobs EXCEPT ![w] =
                [step |-> "replay", op |-> o, by |-> by, claimed |-> FALSE,
                 first |-> FALSE, todo |-> Unapplied(o), event |-> Nil,
                 answer |-> "NONE"]]
  /\ UNCHANGED faults /\ KeepBooks /\ KeepRows /\ KeepLedger

ProcessDue(w, o) == Due(o) /\ Begin(w, o, "server")

\* reconcilePaymentChannel: a person asks about the latest operation.
ReconcilePaymentChannel(w, o) ==
  Latest(o) /\ ops[o].state # "SUCCEEDED" /\ Begin(w, o, "person")

\* acceptPaymentNotification: the channel reports an outcome, once or more, and
\* in any order.
Reported(w, e) ==
  jobs' = [jobs EXCEPT ![w] =
             [step |-> "record", op |-> e.op, by |-> "channel", claimed |-> FALSE,
              first |-> FALSE, todo |-> {}, event |-> e, answer |-> "NONE"]]

AcceptPaymentNotification(w, e) ==
  /\ ~Running(w)
  /\ e.status \in ledger[e.op]
  /\ Reported(w, e)
  /\ UNCHANGED faults /\ KeepBooks /\ KeepRows /\ KeepLedger

\* simulatePaymentChannel: the operation is created at the simulated channel,
\* payable or not, and decided there.
SimulatePaymentChannel(w, o, status, id) ==
  LET new == ledger[o] \cup {"ASKED"} \cup IF Undecided(o) THEN {status} ELSE {} IN
  /\ ~Running(w)
  /\ Latest(o)
  /\ ledger' = [ledger EXCEPT ![o] = new]
  /\ Reported(w, [op |-> o, id |-> id, status |-> Outcome(new)])
  /\ UNCHANGED faults /\ KeepBooks /\ KeepRows
-----------------------------------------------------------------------------
(***************************************************************************)
(* applyStoredObservation and recordObservation.                           *)
(***************************************************************************)
\* Observations an earlier invocation stored and did not finish come first.
ReplayNext(w, e) ==
  /\ AtStep(w, "replay") /\ e \in jobs[w].todo
  /\ jobs' = [jobs EXCEPT ![w].step = "apply", ![w].event = e, ![w].todo = @ \ {e}]
  /\ UNCHANGED faults /\ KeepBooks /\ KeepRows /\ KeepLedger

\* recordObservation stores the event before anything relies on it.
RecordObservation(w) ==
  /\ AtStep(w, "record")
  /\ stored' = stored \cup {jobs[w].event}
  /\ GoTo(w, "apply")
  /\ UNCHANGED <<ops, applied, faults>> /\ KeepBooks /\ KeepLedger

\* An observation that was applied, and the failure of an attempt that was
\* retried since, only have their operation marked.
ReadObservation(w) ==
  LET e == jobs[w].event IN
  /\ AtStep(w, "apply")
  /\ GoTo(w, IF \/ e \in applied
                \/ IsRefund(e.op) /\ e.status = "FAILED" /\ Newer(e.op) # {}
             THEN "mark" ELSE "settle")
  /\ UNCHANGED faults /\ KeepBooks /\ KeepRows /\ KeepLedger

\* The status that event e leaves its source in.  settleVerifiedPayment takes a
\* capture for the order only while the payment waits; settleVerifiedTopup
\* credits it whenever it comes; settleVerifiedRefund ignores a failure of an
\* attempt that was retried.
PaymentStatusAfter(e) ==
  LET s == e.op.source
      waits == source[s] = "PENDING" /\ s \notin overdue
  IN
  CASE e.status = "SUCCEEDED" /\ source[s] = "SUCCEEDED" -> "SUCCEEDED"
    [] e.status = "SUCCEEDED" /\ waits -> "SUCCEEDED"
    [] e.status = "SUCCEEDED" /\ source[s] # "SUCCEEDED" /\ ~waits -> "REFUND_REQUIRED"
    [] e.status = "FAILED" /\ waits -> "FAILED"
    [] e.status = "FAILED" /\ source[s] = "PENDING" /\ ~waits -> "CLOSED"
    [] OTHER -> source[s]
Fault_StatusAfter(e) ==
  LET s == e.op.source IN
  CASE s \in OrderPayments -> PaymentStatusAfter(e)
    [] s \notin OrderPayments -> e.status
StatusAfter(e) ==
  LET s == e.op.source IN
  CASE s \in OrderPayments -> PaymentStatusAfter(e)
    [] s \notin OrderPayments /\ e.status = "SUCCEEDED" -> "SUCCEEDED"
    [] s \notin OrderPayments /\ e.status = "FAILED" /\ source[s] # "SUCCEEDED"
         /\ (IsRefund(e.op) => Newer(e.op) = {}) -> "FAILED"
    [] OTHER -> source[s]

\* One transaction of the books; an event that was settled before changes nothing.
Settle(w) ==
  LET e == jobs[w].event IN
  /\ AtStep(w, "settle")
  /\ settled' = settled \cup {e}
  /\ source' = IF e \in settled THEN source
               ELSE [source EXCEPT ![e.op.source] = StatusAfter(e)]
  /\ GoTo(w, "mark")
  /\ UNCHANGED <<overdue, faults>> /\ KeepRows /\ KeepLedger

\* The state of the operation of event e once it is applied: success stays.
Fault_MarkedState(e) == e.status
MarkedState(e) ==
  IF ops[e.op].state = "SUCCEEDED" \/ e.status = "SUCCEEDED" THEN "SUCCEEDED"
  ELSE "FAILED"

\* The operation and its observation are marked in one transaction, whoever
\* holds the lease.  A replay goes on to the next observation.
Mark(w) ==
  LET e == jobs[w].event IN
  /\ AtStep(w, "mark")
  /\ ops' = [ops EXCEPT ![e.op] =
               [state |-> MarkedState(e), token |-> Nil, running |-> FALSE]]
  /\ applied' = applied \cup {e}
  /\ IF jobs[w].by # "channel" /\ ~jobs[w].claimed
     THEN jobs' = [jobs EXCEPT ![w].step = "replay", ![w].event = Nil]
     ELSE Finish(w)
  /\ UNCHANGED <<stored, faults>> /\ KeepBooks /\ KeepLedger
-----------------------------------------------------------------------------
(***************************************************************************)
(* reconcileChannelOperation.                                              *)
(***************************************************************************)
\* The claiming transaction: nothing to do for a success or under a lease.
Claimable(o) == ops[o].state # "SUCCEEDED" /\ ~Leased(o)

Claim(w) ==
  LET o == jobs[w].op IN
  /\ AtStep(w, "replay") /\ jobs[w].todo = {}
  /\ IF Claimable(o)
     THEN /\ ops' = [ops EXCEPT ![o] =
                       [state |-> "IN_FLIGHT", token |-> w, running |-> TRUE]]
          /\ jobs' = [jobs EXCEPT ![w].step = "check", ![w].claimed = TRUE,
                                  ![w].first = ops[o].state = "READY"]
     ELSE UNCHANGED ops /\ Finish(w)
  /\ UNCHANGED <<stored, applied, faults>> /\ KeepBooks /\ KeepLedger

\* Only an operation that was never sent is created at once; every other is
\* asked about first.
Check(w) ==
  /\ AtStep(w, "check")
  /\ GoTo(w, IF jobs[w].first /\ Payable(jobs[w].op) THEN "create" ELSE "query")
  /\ UNCHANGED faults /\ KeepBooks /\ KeepRows /\ KeepLedger

\* What the worker does with the channel's record r of its operation.
Hear(w, r) ==
  LET o == jobs[w].op IN
  IF Open(r) THEN Answer(w, "PENDING")
  ELSE \E id \in EventIds : Handle(w, [op |-> o, id |-> id, status |-> Outcome(r)])

\* createPayment and createRefund: the channel keeps one record for one number.
Create(w) ==
  LET o == jobs[w].op IN
  /\ AtStep(w, "create")
  /\ ledger' = [ledger EXCEPT ![o] = @ \cup {"ASKED"}]
  /\ Hear(w, ledger[o])
  /\ UNCHANGED faults /\ KeepBooks /\ KeepRows

\* queryPayment and queryRefund.
Query(w) ==
  LET o == jobs[w].op IN
  /\ AtStep(w, "query")
  /\ IF ledger[o] = {} THEN GoTo(w, "recheck") ELSE Hear(w, ledger[o])
  /\ UNCHANGED faults /\ KeepBooks /\ KeepRows /\ KeepLedger

\* The channel knows of no such operation: create it while it is payable.
Recheck(w) ==
  /\ AtStep(w, "recheck")
  /\ IF Payable(jobs[w].op) THEN GoTo(w, "create") ELSE Answer(w, "UNKNOWN")
  /\ UNCHANGED faults /\ KeepBooks /\ KeepRows /\ KeepLedger

\* The answer is lost, with or without the channel having seen the request.
AnswerLost(w) ==
  LET o == jobs[w].op IN
  /\ AtStep(w, "create") \/ AtStep(w, "query")
  /\ faults < MaxFaults /\ faults' = faults + 1
  /\ \/ KeepLedger
     \/ /\ AtStep(w, "create") /\ ledger[o] = {}
        /\ ledger' = [ledger EXCEPT ![o] = {"ASKED"}]
  /\ Answer(w, "UNKNOWN")
  /\ KeepBooks /\ KeepRows

\* An answer that decides nothing is kept only under the worker's own token.
Fault_Holds(w, o) == TRUE
Holds(w, o) == ops[o].token = w /\ ops[o].state # "SUCCEEDED"

Release(w, o, state) ==
  ops' = IF Holds(w, o)
         THEN [ops EXCEPT ![o] = [state |-> state, token |-> Nil, running |-> FALSE]]
         ELSE ops

Save(w) ==
  /\ AtStep(w, "save")
  /\ Release(w, jobs[w].op, jobs[w].answer)
  /\ Finish(w)
  /\ UNCHANGED <<stored, applied, faults>> /\ KeepBooks /\ KeepLedger

\* A statement fails.  After the claim the catch block gives the lease back;
\* then the worker of processDueChannelOperations has a catch block of its own.
StatementFails(w) ==
  /\ Running(w) /\ jobs[w].step # "giveup"
  /\ faults < MaxFaults /\ faults' = faults + 1
  /\ IF jobs[w].claimed THEN Release(w, jobs[w].op, "UNKNOWN") ELSE UNCHANGED ops
  /\ IF jobs[w].by = "server" THEN GoTo(w, "giveup") ELSE Finish(w)
  /\ UNCHANGED <<stored, applied>> /\ KeepBooks /\ KeepLedger

\* The catch block of processDueChannelOperations asks for no token.
Fault_GivenUpState(o) == IF ops[o].state = "SUCCEEDED" THEN "SUCCEEDED" ELSE "FAILED"
GivenUpState(o) == IF ops[o].state = "SUCCEEDED" THEN "SUCCEEDED" ELSE "UNKNOWN"

GiveUp(w) ==
  LET o == jobs[w].op IN
  /\ AtStep(w, "giveup")
  /\ ops' = [ops EXCEPT ![o] = [state |-> GivenUpState(o), token |-> Nil, running |-> FALSE]]
  /\ Finish(w)
  /\ UNCHANGED <<stored, applied, faults>> /\ KeepBooks /\ KeepLedger

\* The process of the worker ends; what the database holds stays.
Crash(w) ==
  /\ Running(w)
  /\ faults < MaxFaults /\ faults' = faults + 1
  /\ Finish(w)
  /\ KeepBooks /\ KeepRows /\ KeepLedger
-----------------------------------------------------------------------------
\* Steps an invocation takes by itself once it began.
Continue(w) ==
  \/ \E e \in Event : ReplayNext(w, e)
  \/ Claim(w) \/ Check(w) \/ Create(w) \/ Query(w) \/ Recheck(w) \/ Save(w)
  \/ RecordObservation(w) \/ ReadObservation(w) \/ Settle(w) \/ Mark(w)
  \/ GiveUp(w)

Disturb(w) == AnswerLost(w) \/ StatementFails(w) \/ Crash(w)

Start(w) ==
  \/ \E o \in Operation : ProcessDue(w, o) \/ ReconcilePaymentChannel(w, o)
  \/ \E e \in Event : AcceptPaymentNotification(w, e)
  \/ \E o \in Operation, status \in {"SUCCEEDED", "FAILED"}, id \in EventIds :
       SimulatePaymentChannel(w, o, status, id)

Surroundings ==
  \/ \E s \in Payments : ExpiryPasses(s) \/ CloseOrderPayment(s)
  \/ \E o \in Operation : LeaseLapses(o) \/ Enqueue(o) \/ RetryRefund(o)
  \/ \E o \in Operation, status \in {"SUCCEEDED", "FAILED"} : ChannelDecides(o, status)

Next == Surroundings \/ \E w \in Workers : Start(w) \/ Continue(w) \/ Disturb(w)

Spec == Init /\ [][Next]_vars

\* The 15 s worker goes through everything that is due, one by one, again and
\* again; an invocation goes on by itself; leases lapse.  Nobody else has to act.
Fairness ==
  /\ \A w \in Workers : WF_vars(Continue(w))
  /\ \A o \in Operation : WF_vars(LeaseLapses(o))
  /\ \A o \in Operation : SF_vars(\E w \in Workers : ProcessDue(w, o))

FairSpec == Spec /\ Fairness
-----------------------------------------------------------------------------
(***************************************************************************)
(* Properties.                                                             *)
(***************************************************************************)
\* Every row is well typed, applied observations are stored, a lease that runs
\* has a holder, and generations have no gap.
TypeOK ==
  /\ source \in [Sources -> {"PENDING", "REQUESTED", "SUCCEEDED", "FAILED",
                              "CLOSED", "REFUND_REQUIRED"}]
  /\ overdue \subseteq Payments
  /\ ops \in [Operation -> OpRow \cup {Nil}]
  /\ ledger \in [Operation -> Record]
  /\ stored \subseteq Event /\ applied \subseteq stored /\ settled \subseteq stored
  /\ jobs \in [Workers -> Job \cup {Nil}]
  /\ faults \in 0 .. MaxFaults
  /\ \A o \in Operation : ops[o] # Nil /\ ops[o].running => ops[o].token # Nil
  /\ \A n, o \in Operation : ops[n] # Nil /\ n.source = o.source
                              /\ o.generation < n.generation => ops[o] # Nil

Reports(o, status) == status \in ledger[o]

\* The attempt was refused: the channel says so, or did before PMS kept operations.
RefusedAsOld(o) == o.source \in RefusedBefore /\ o.generation = 1
Refused(o) == Reports(o, "FAILED") \/ RefusedAsOld(o)
Captured(s) == source[s] \in {"SUCCEEDED", "REFUND_REQUIRED"}

\* payment-channel.md: SUCCEEDED and FAILED come from results the channel gave,
\* a success only after the books have it.  No timeout, crash or lost answer
\* decides.
FinalStatesAreVerified ==
  /\ TypeOK
  /\ \A o \in Operation : ops[o] # Nil =>
    /\ ops[o].state = "SUCCEEDED" => Reports(o, "SUCCEEDED") /\ Captured(o.source)
    /\ ops[o].state = "FAILED" => Refused(o)

\* payment-channel.md: money moves in the books only when the channel moved it,
\* and a payment or refund fails only when the channel refused it: a refund when
\* its latest attempt was refused, never by the failure of an earlier one.
BooksFollowChannel ==
  \A s \in Sources :
    /\ Captured(s) => \E o \in Operation : o.source = s /\ Reports(o, "SUCCEEDED")
    /\ source[s] = "FAILED" =>
         \A o \in Operation : o.source = s /\ Latest(o) => Refused(o)

\* payment-channel.md: a refund is asked for under a new number only after the
\* channel refused the old one for good, so it pays out at most once however often it
\* is retried and whoever still works on an old attempt.  The first attempt at a refund
\* that had failed before there were operations is left out: of it the retry does not
\* know what the channel did since (RetriedNumbersAreDead).
RefundedOnce ==
  \A n, o \in Operation :
    /\ n.source = o.source /\ o.generation < n.generation /\ ops[n] # Nil
    /\ ~RefusedAsOld(o)
    => ledger[o] = {"ASKED", "FAILED"}

\* payment-channel.md of every refund, old ones too: a number that has a successor was
\* not paid and never will be.
RetriedNumbersAreDead ==
  \A n, o \in Operation :
    n.source = o.source /\ o.generation < n.generation /\ ops[n] # Nil
      => "SUCCEEDED" \notin ledger[o]

\* payment-channel.md: a later failure, a late answer or an error never takes
\* back a success, of an operation or in the books.
SuccessIsFinal ==
  [][/\ \A o \in Operation : ops[o] # Nil /\ ops[o].state = "SUCCEEDED"
                                => ops'[o].state = "SUCCEEDED"
     /\ \A s \in Sources : Captured(s) => source'[s] = source[s]]_vars

\* reconcileChannelOperation: an invocation whose lease lapsed and was taken over
\* does not decide with its old answer: a row under the lease of one invocation
\* changes by that invocation, by a verified outcome, or by the catch block of
\* the server.
LeaseIsRespected ==
  [][\A o \in Operation, w \in Workers :
       /\ ops[o] # Nil /\ ops[o].token = w
       /\ ops'[o].token # w
       => \/ ~ops[o].running
          \/ ops'[o].state \in {"SUCCEEDED", "FAILED"}
          \/ Running(w) /\ jobs[w].op = o /\ jobs'[w] # jobs[w]
          \/ \E x \in Workers : AtStep(x, "giveup") /\ jobs[x].op = o]_vars

\* payment-channel.md: an expired payment is not started at the channel any more
\* ("已过期付款不再发起渠道单"), simulations aside.
ExpiredIsNotStarted ==
  [][\A w \in Workers : AtStep(w, "create") =>
       LET o == jobs[w].op IN
       ledger[o] = {} /\ ledger'[o] # {} => o.source \notin overdue]_vars

\* A stored observation is applied in the end, whatever crashed in between.
ObservationsAreApplied == \A e \in Event : e \in stored ~> e \in applied

\* A success the channel alone knows about reaches the books, because the worker asks
\* until it hears it, unless the operation was marked FAILED before it could: a payment
\* that failed may still succeed, and the worker asks about no FAILED operation.
SuccessReachesBooks ==
  \A o \in Operation :
    Reports(o, "SUCCEEDED") ~>
      Captured(o.source) \/ (ops[o] # Nil /\ ops[o].state = "FAILED")

\* payment-channel.md: late captures reach PMS too, those of payments that had failed
\* ("付款保留模拟迟到实收的能力") like any other.
LateSuccessReachesBooks ==
  \A o \in Operation : Reports(o, "SUCCEEDED") ~> Captured(o.source)
=============================================================================
