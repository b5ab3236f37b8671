------------------------ MODULE PaymentChannel_proofs ------------------------
(***************************************************************************)
(* Proofs about PaymentChannel: final states are results of the channel,   *)
(* the books follow the channel, a refund is paid once, a success is never *)
(* taken back, and an invocation respects a lease that was taken over.     *)
(* They hold for any number of payments, refunds, attempts, invocations    *)
(* and faults.                                                             *)
(*                                                                         *)
(* The inductive invariant is ChannelInv.  What it says of an observation  *)
(* stays true because the channel's records, the rows, the stored          *)
(* observations and the successes of the books only grow (Growth).         *)
(***************************************************************************)
EXTENDS PaymentChannel, TLAPS

\* What the channel said of a known operation.
Verified(e) == ops[e.op] # Nil /\ e.status \in ledger[e.op]

\* The books have the success that e reports.
Told(e) == e.status = "SUCCEEDED" => Captured(e.op.source)

\* The channel decides on what it was asked, and for a refund once.
LedgerFits ==
  \A o \in Operation :
    /\ ledger[o] # {} => ops[o] # Nil /\ "ASKED" \in ledger[o]
    /\ IsRefund(o) => ~("FAILED" \in ledger[o] /\ "SUCCEEDED" \in ledger[o])

\* Only the late payment of an order has to be given back, and what has no operation
\* yet failed only if it had before there were operations.
SourcesFit ==
  /\ \A s \in Sources : source[s] = "REFUND_REQUIRED" => s \in OrderPayments
  /\ \A o \in Operation : Missing(o) /\ source[o.source] = "FAILED" => RefusedAsOld(o)

ObservationsFit ==
  /\ \A e \in stored : Verified(e)
  /\ \A e \in settled \cup applied : Told(e)

\* What an invocation holds in its hands.
JobFits(w) ==
  Running(w) =>
    /\ ops[jobs[w].op] # Nil
    /\ jobs[w].todo \subseteq stored
    /\ jobs[w].step \in {"record", "apply", "settle", "mark"} =>
         jobs[w].event \in Event /\ Verified(jobs[w].event)
    /\ jobs[w].step \in {"apply", "settle", "mark"} => jobs[w].event \in stored
    /\ jobs[w].step = "mark" => Told(jobs[w].event)
    /\ jobs[w].step = "save" => jobs[w].answer \in {"PENDING", "UNKNOWN"}

JobsFit == \A w \in Workers : JobFits(w)

FinalStates ==
  \A o \in Operation : ops[o] # Nil =>
    /\ ops[o].state = "SUCCEEDED" => Reports(o, "SUCCEEDED") /\ Captured(o.source)
    /\ ops[o].state = "FAILED" => Refused(o)

ChannelInv ==
  /\ TypeOK /\ LedgerFits /\ SourcesFit /\ ObservationsFit /\ JobsFit
  /\ FinalStates /\ BooksFollowChannel /\ RefundedOnce

Growth ==
  /\ \A o \in Operation : ledger[o] \subseteq ledger'[o]
  /\ \A o \in Operation : ops[o] # Nil => ops'[o] # Nil
  /\ \A s \in Sources : Captured(s) => source'[s] = source[s]
  /\ stored \subseteq stored'

(***************************************************************************)
(* Rows and invocations.                                                   *)
(***************************************************************************)
LEMMA Operations ==
  /\ \A o \in Operation : o.source \in Sources /\ o.generation \in Nat
  /\ \A o \in Operation : ~IsRefund(o) => o.generation = 1
  /\ \A n, o \in Operation : n.source = o.source /\ n.generation = o.generation => n = o
  /\ \A e \in Event : e.op \in Operation /\ e.status \in {"SUCCEEDED", "FAILED"}
BY BoundsAssumption, SourcesAssumption DEF Operation, Event, Sources, IsRefund

\* One row is written.
LEMMA RowWritten ==
  ASSUME TypeOK, NEW o0 \in Operation, ops[o0] # Nil,
         NEW r \in OpRow, r.running => r.token # Nil,
         ops' = [ops EXCEPT ![o0] = r]
  PROVE  /\ ops' \in [Operation -> OpRow \cup {Nil}]
         /\ \A o \in Operation : ops'[o] # Nil /\ ops'[o].running => ops'[o].token # Nil
         /\ \A o \in Operation : ops'[o] # Nil <=> ops[o] # Nil
         /\ ops'[o0] = r
         /\ \A o \in Operation \ {o0} : ops'[o] = ops[o]
BY NilAssumption DEF TypeOK

LEMMA JobMoves ==
  ASSUME TypeOK, NEW w0 \in Workers, Running(w0)
  PROVE  /\ jobs[w0] \in Job
         /\ \A s \in Steps : GoTo(w0, s) =>
              /\ jobs' \in [Workers -> Job \cup {Nil}]
              /\ jobs'[w0].step = s /\ jobs'[w0].op = jobs[w0].op
              /\ jobs'[w0].todo = jobs[w0].todo /\ jobs'[w0].event = jobs[w0].event
              /\ \A w \in Workers \ {w0} : jobs'[w] = jobs[w]
         /\ \A e \in Event : Handle(w0, e) =>
              /\ jobs' \in [Workers -> Job \cup {Nil}]
              /\ jobs'[w0].step = "record" /\ jobs'[w0].op = jobs[w0].op
              /\ jobs'[w0].todo = jobs[w0].todo /\ jobs'[w0].event = e
              /\ \A w \in Workers \ {w0} : jobs'[w] = jobs[w]
         /\ \A a \in {"PENDING", "UNKNOWN"} : Answer(w0, a) =>
              /\ jobs' \in [Workers -> Job \cup {Nil}]
              /\ jobs'[w0].step = "save" /\ jobs'[w0].op = jobs[w0].op /\ jobs'[w0].answer = a
              /\ jobs'[w0].todo = jobs[w0].todo
              /\ \A w \in Workers \ {w0} : jobs'[w] = jobs[w]
<1>1. jobs[w0] \in Job /\ jobs \in [Workers -> Job \cup {Nil}]
  BY DEF TypeOK, Running
<1>2. ASSUME NEW s \in Steps, GoTo(w0, s)
      PROVE  /\ jobs' \in [Workers -> Job \cup {Nil}]
             /\ jobs'[w0].step = s /\ jobs'[w0].op = jobs[w0].op
             /\ jobs'[w0].todo = jobs[w0].todo /\ jobs'[w0].event = jobs[w0].event
             /\ \A w \in Workers \ {w0} : jobs'[w] = jobs[w]
  BY <1>1, <1>2 DEF GoTo, Job
<1>3. ASSUME NEW e \in Event, Handle(w0, e)
      PROVE  /\ jobs' \in [Workers -> Job \cup {Nil}]
             /\ jobs'[w0].step = "record" /\ jobs'[w0].op = jobs[w0].op
             /\ jobs'[w0].todo = jobs[w0].todo /\ jobs'[w0].event = e
             /\ \A w \in Workers \ {w0} : jobs'[w] = jobs[w]
  <2> DEFINE j == [jobs[w0] EXCEPT !.step = "record", !.event = e]
  <2>1. j \in Job /\ j.step = "record" /\ j.op = jobs[w0].op /\ j.todo = jobs[w0].todo /\ j.event = e
    BY <1>1 DEF Job, Steps
  <2>2. jobs' = [jobs EXCEPT ![w0] = j]
    BY <1>1, <1>3 DEF Handle, Job
  <2> HIDE DEF j
  <2> QED
    BY <1>1, <2>1, <2>2
<1>4. ASSUME NEW a \in {"PENDING", "UNKNOWN"}, Answer(w0, a)
      PROVE  /\ jobs' \in [Workers -> Job \cup {Nil}]
             /\ jobs'[w0].step = "save" /\ jobs'[w0].op = jobs[w0].op /\ jobs'[w0].answer = a
             /\ jobs'[w0].todo = jobs[w0].todo
             /\ \A w \in Workers \ {w0} : jobs'[w] = jobs[w]
  <2> DEFINE j == [jobs[w0] EXCEPT !.step = "save", !.answer = a]
  <2>1. j \in Job /\ j.step = "save" /\ j.op = jobs[w0].op /\ j.todo = jobs[w0].todo /\ j.answer = a
    BY <1>1 DEF Job, Steps
  <2>2. jobs' = [jobs EXCEPT ![w0] = j]
    BY <1>1, <1>4 DEF Answer, Job
  <2> HIDE DEF j
  <2> QED
    BY <1>1, <2>1, <2>2
<1> QED
  BY <1>1, <1>2, <1>3, <1>4

LEMMA JobEnds ==
  ASSUME TypeOK, NEW w0 \in Workers, Finish(w0)
  PROVE  /\ jobs' \in [Workers -> Job \cup {Nil}]
         /\ JobFits(w0)'
         /\ \A w \in Workers \ {w0} : jobs'[w] = jobs[w]
BY DEF TypeOK, Finish, JobFits, Running

\* What an invocation holds stays true while it does nothing.
LEMMA JobStays ==
  ASSUME ChannelInv, Growth, NEW w \in Workers, jobs'[w] = jobs[w]
  PROVE  JobFits(w)'
<1> SUFFICES ASSUME Running(w)
             PROVE  JobFits(w)'
  BY DEF JobFits, Running
<1>1. JobFits(w) /\ jobs[w] \in Job
  BY DEF ChannelInv, JobsFit, TypeOK, Running
<1>2. jobs[w].op \in Operation
  BY <1>1 DEF Job
<1>3. \A e \in Event : (Verified(e) => Verified(e)') /\ (Told(e) => Told(e)')
  BY Operations DEF Growth, Verified, Told, Captured
<1> QED
  BY <1>1, <1>2, <1>3 DEF JobFits, Growth, Running

LEMMA JobsKept ==
  ASSUME ChannelInv, Growth, NEW w0 \in Workers, JobFits(w0)',
         \A w \in Workers \ {w0} : jobs'[w] = jobs[w]
  PROVE  JobsFit'
BY JobStays DEF JobsFit

LEMMA JobsUnchanged ==
  ASSUME ChannelInv, Growth, UNCHANGED jobs
  PROVE  JobsFit'
BY JobStays DEF JobsFit

(***************************************************************************)
(* Kinds of steps.                                                         *)
(***************************************************************************)
\* Only invocations move.
LEMMA JobsMoveKeeps ==
  ASSUME ChannelInv, UNCHANGED <<source, overdue, ops, ledger, stored, applied, settled>>,
         NEW w0 \in Workers, JobFits(w0)', \A w \in Workers \ {w0} : jobs'[w] = jobs[w],
         jobs' \in [Workers -> Job \cup {Nil}], faults' \in 0 .. MaxFaults
  PROVE  ChannelInv'
<1>1. Growth
  BY DEF Growth
<1>2. JobsFit'
  BY <1>1, JobsKept
<1>3. TypeOK'
  BY DEF ChannelInv, TypeOK
<1>4. LedgerFits' /\ SourcesFit' /\ ObservationsFit'
  BY DEF ChannelInv, LedgerFits, SourcesFit, ObservationsFit, Verified, Told, Captured,
       Missing, RefusedAsOld
<1>5. FinalStates' /\ BooksFollowChannel' /\ RefundedOnce'
  BY DEF ChannelInv, FinalStates, Reports, Refused, Captured, BooksFollowChannel,
       RefundedOnce, Latest, Newer, RefusedAsOld
<1> QED
  BY <1>2, <1>3, <1>4, <1>5 DEF ChannelInv

\* A row is written that decides nothing new.
LEMMA RowMoveKeeps ==
  ASSUME ChannelInv, UNCHANGED <<source, overdue, ledger, stored, applied, settled>>,
         jobs' \in [Workers -> Job \cup {Nil}], faults' \in 0 .. MaxFaults,
         Growth => JobsFit',
         NEW o0 \in Operation, ops[o0] # Nil,
         NEW r \in OpRow, r.running => r.token # Nil, ops' = [ops EXCEPT ![o0] = r],
         r.state \in {"SUCCEEDED", "FAILED"} => r.state = ops[o0].state
  PROVE  ChannelInv'
<1>0. TypeOK
  BY DEF ChannelInv
<1>1. /\ ops' \in [Operation -> OpRow \cup {Nil}]
      /\ \A o \in Operation : ops'[o] # Nil /\ ops'[o].running => ops'[o].token # Nil
      /\ \A o \in Operation : ops'[o] # Nil <=> ops[o] # Nil
      /\ ops'[o0] = r
      /\ \A o \in Operation \ {o0} : ops'[o] = ops[o]
  BY <1>0, RowWritten
<1>2. Growth
  BY <1>1 DEF Growth
<1>3. TypeOK'
  BY <1>0, <1>1 DEF TypeOK
<1>4. LedgerFits' /\ SourcesFit' /\ RefundedOnce'
  BY <1>1 DEF ChannelInv, LedgerFits, SourcesFit, RefundedOnce, Missing, RefusedAsOld
<1>5. ObservationsFit'
  BY <1>0, <1>1, Operations DEF ChannelInv, ObservationsFit, Verified, Told, Captured, TypeOK
<1>6. FinalStates'
  BY <1>1 DEF ChannelInv, FinalStates, Reports, Refused, Captured, RefusedAsOld
<1>7. BooksFollowChannel'
  <2>1. \A o \in Operation : Latest(o)' <=> Latest(o)
    BY <1>1 DEF Latest, Newer
  <2> QED
    BY <2>1 DEF ChannelInv, BooksFollowChannel, Captured, Reports, Refused, RefusedAsOld
<1> QED
  BY <1>2, <1>3, <1>4, <1>5, <1>6, <1>7 DEF ChannelInv

\* The channel's record of one operation grows.
LEMMA LedgerMoveKeeps ==
  ASSUME ChannelInv, UNCHANGED <<source, overdue, ops, stored, applied, settled>>,
         jobs' \in [Workers -> Job \cup {Nil}], faults' \in 0 .. MaxFaults,
         Growth => JobsFit',
         NEW o0 \in Operation, ops[o0] # Nil, NEW r \in Record, ledger' = [ledger EXCEPT ![o0] = r],
         ledger[o0] \subseteq r, "ASKED" \in r,
         IsRefund(o0) => ~("FAILED" \in r /\ "SUCCEEDED" \in r)
  PROVE  ChannelInv'
<1>0. TypeOK
  BY DEF ChannelInv
<1>1. /\ ledger' \in [Operation -> Record] /\ ledger'[o0] = r
      /\ \A o \in Operation \ {o0} : ledger'[o] = ledger[o]
  BY <1>0 DEF TypeOK
<1>2. \A o \in Operation : ledger[o] \subseteq ledger'[o]
  BY <1>1
<1>3. Growth
  BY <1>2 DEF Growth
<1>4. TypeOK'
  BY <1>0, <1>1 DEF TypeOK
<1>5. LedgerFits'
  BY <1>1 DEF ChannelInv, LedgerFits
<1>6. SourcesFit'
  BY DEF ChannelInv, SourcesFit, Missing, RefusedAsOld
<1>7. ObservationsFit'
  BY <1>0, <1>2, Operations DEF ChannelInv, ObservationsFit, Verified, Told, Captured, TypeOK
<1>8. FinalStates'
  BY <1>2 DEF ChannelInv, FinalStates, Reports, Refused, Captured, RefusedAsOld
<1>9. BooksFollowChannel'
  <2>1. \A o \in Operation : Latest(o)' <=> Latest(o)
    BY DEF Latest, Newer
  <2> QED
    BY <1>2, <2>1 DEF ChannelInv, BooksFollowChannel, Captured, Reports, Refused, RefusedAsOld
<1>10. RefundedOnce'
  <2>1. ASSUME NEW n \in Operation, NEW o \in Operation,
               n.source = o.source, o.generation < n.generation, ops[n] # Nil, ~RefusedAsOld(o)
        PROVE  ledger'[o] = {"ASKED", "FAILED"}
    <3>1. ledger[o] = {"ASKED", "FAILED"}
      BY <2>1 DEF ChannelInv, RefundedOnce
    <3>2. IsRefund(o)
      BY <2>1, BoundsAssumption, SourcesAssumption DEF Operation, IsRefund
    <3>3. CASE o = o0
      <4>1. "SUCCEEDED" \notin r /\ r \subseteq {"ASKED", "FAILED", "SUCCEEDED"}
        BY <3>1, <3>2, <3>3 DEF Record
      <4> QED
        BY <1>1, <3>1, <3>3, <4>1
    <3>4. CASE o # o0
      BY <1>1, <3>1, <3>4
    <3> QED
      BY <3>3, <3>4
  <2> QED
    BY <2>1 DEF RefundedOnce, RefusedAsOld
<1> QED
  BY <1>3, <1>4, <1>5, <1>6, <1>7, <1>8, <1>9, <1>10 DEF ChannelInv

(***************************************************************************)
(* The actions around the operations.                                      *)
(***************************************************************************)
LEMMA ExpiryPassesKeeps ==
  ASSUME ChannelInv, NEW s0 \in Payments, ExpiryPasses(s0)
  PROVE  ChannelInv'
<1>1. /\ UNCHANGED <<source, ops, ledger, stored, applied, settled, jobs, faults>>
      /\ overdue' \subseteq Payments
  BY DEF ExpiryPasses, KeepRows, KeepLedger, ChannelInv, TypeOK
<1>2. Growth
  BY <1>1 DEF Growth
<1>3. JobsFit'
  BY <1>1, <1>2, JobsUnchanged
<1>4. TypeOK'
  BY <1>1 DEF ChannelInv, TypeOK
<1> QED
  BY <1>1, <1>3, <1>4 DEF ChannelInv, LedgerFits, SourcesFit, ObservationsFit, Verified, Told, Captured,
       FinalStates, Reports, BooksFollowChannel, RefundedOnce, Latest, Newer, Missing, RefusedAsOld, Refused

\* A status of the books changes that was no success.
LEMMA SourceMoves ==
  ASSUME ChannelInv, NEW s0 \in Sources, ~Captured(s0),
         NEW st \in {"PENDING", "REQUESTED", "SUCCEEDED", "FAILED", "CLOSED", "REFUND_REQUIRED"},
         source' = [source EXCEPT ![s0] = st]
  PROVE  /\ source' \in [Sources -> {"PENDING", "REQUESTED", "SUCCEEDED", "FAILED",
                                     "CLOSED", "REFUND_REQUIRED"}]
         /\ source'[s0] = st /\ \A s \in Sources \ {s0} : source'[s] = source[s]
         /\ \A s \in Sources : Captured(s) => source'[s] = source[s] /\ Captured(s)'
<1>1. source \in [Sources -> {"PENDING", "REQUESTED", "SUCCEEDED", "FAILED",
                              "CLOSED", "REFUND_REQUIRED"}]
  BY DEF ChannelInv, TypeOK
<1>2. source'[s0] = st /\ \A s \in Sources \ {s0} : source'[s] = source[s]
  BY <1>1
<1> QED
  BY <1>1, <1>2 DEF Captured

LEMMA CloseKeeps ==
  ASSUME ChannelInv, NEW s0 \in Payments, CloseOrderPayment(s0)
  PROVE  ChannelInv'
<1>1. /\ UNCHANGED <<overdue, ops, ledger, stored, applied, settled, jobs, faults>>
      /\ source' = [source EXCEPT ![s0] = "CLOSED"] /\ ~Captured(s0) /\ s0 \in Sources
  BY DEF CloseOrderPayment, KeepRows, KeepLedger, Captured, Sources
<1>2. /\ source' \in [Sources -> {"PENDING", "REQUESTED", "SUCCEEDED", "FAILED",
                                  "CLOSED", "REFUND_REQUIRED"}]
      /\ source'[s0] = "CLOSED" /\ \A s \in Sources \ {s0} : source'[s] = source[s]
      /\ \A s \in Sources : Captured(s) => source'[s] = source[s] /\ Captured(s)'
  BY <1>1, SourceMoves
<1>3. Growth
  BY <1>1, <1>2 DEF Growth
<1>4. JobsFit'
  BY <1>1, <1>3, JobsUnchanged
<1>5. TypeOK'
  BY <1>1, <1>2 DEF ChannelInv, TypeOK
<1>6. LedgerFits' /\ SourcesFit' /\ RefundedOnce'
  BY <1>1, <1>2 DEF ChannelInv, LedgerFits, SourcesFit, RefundedOnce, Missing, RefusedAsOld
<1>7. ObservationsFit'
  BY <1>1, <1>2, Operations DEF ChannelInv, ObservationsFit, Verified, Told, TypeOK
<1>8. FinalStates'
  BY <1>1, <1>2, Operations DEF ChannelInv, FinalStates, Reports, Refused, RefusedAsOld
<1>9. BooksFollowChannel'
  <2>1. \A o \in Operation : (Latest(o)' <=> Latest(o)) /\ \A st \in {"SUCCEEDED", "FAILED"} :
          Reports(o, st)' <=> Reports(o, st)
    BY <1>1 DEF Latest, Newer, Reports
  <2>2. \A s \in Sources : (Captured(s)' => Captured(s)) /\ (source'[s] = "FAILED" => source[s] = "FAILED")
    BY <1>2 DEF Captured
  <2> QED
    BY <2>1, <2>2 DEF ChannelInv, BooksFollowChannel, Refused, RefusedAsOld, Reports
<1> QED
  BY <1>4, <1>5, <1>6, <1>7, <1>8, <1>9 DEF ChannelInv

LEMMA LapseKeeps ==
  ASSUME ChannelInv, NEW o0 \in Operation, LeaseLapses(o0)
  PROVE  ChannelInv'
<1> DEFINE r == [ops[o0] EXCEPT !.running = FALSE]
<1>1. /\ UNCHANGED <<source, overdue, ledger, stored, applied, settled, jobs, faults>>
      /\ ops[o0] # Nil /\ ops' = [ops EXCEPT ![o0].running = FALSE]
  BY DEF LeaseLapses, KeepBooks, KeepLedger
<1>2. ops[o0] \in OpRow /\ TypeOK
  BY <1>1 DEF ChannelInv, TypeOK
<1>3. r \in OpRow /\ ~r.running /\ r.state = ops[o0].state
  BY <1>2 DEF OpRow
<1>4. ops' = [ops EXCEPT ![o0] = r]
  BY <1>1, <1>2 DEF TypeOK, OpRow
<1>5. Growth => JobsFit'
  BY <1>1, JobsUnchanged
<1>6. jobs' \in [Workers -> Job \cup {Nil}] /\ faults' \in 0 .. MaxFaults
  BY <1>1, <1>2 DEF TypeOK
<1> HIDE DEF r
<1> QED
  BY <1>1, <1>3, <1>4, <1>5, <1>6, RowMoveKeeps

\* What the channel may decide leaves a refund with one outcome.
LEMMA Decided ==
  ASSUME ChannelInv, NEW o0 \in Operation, Undecided(o0), NEW status \in {"SUCCEEDED", "FAILED"}
  PROVE  IsRefund(o0) => ~("FAILED" \in ledger[o0] \cup {"ASKED", status} /\
                           "SUCCEEDED" \in ledger[o0] \cup {"ASKED", status})
BY DEF Undecided, Open

LEMMA DecideKeeps ==
  ASSUME ChannelInv, NEW o0 \in Operation, NEW status \in {"SUCCEEDED", "FAILED"}, ChannelDecides(o0, status)
  PROVE  ChannelInv'
<1> DEFINE r == ledger[o0] \cup {status}
<1>1. /\ UNCHANGED <<source, overdue, ops, stored, applied, settled, jobs, faults>>
      /\ ledger' = [ledger EXCEPT ![o0] = r]
      /\ "ASKED" \in ledger[o0] /\ Undecided(o0)
  BY DEF ChannelDecides, KeepBooks, KeepRows
<1>2. TypeOK /\ ledger[o0] \in Record /\ ops[o0] # Nil
  BY <1>1 DEF ChannelInv, TypeOK, LedgerFits
<1>3. r \in Record /\ ledger[o0] \subseteq r /\ "ASKED" \in r
  BY <1>1, <1>2 DEF Record
<1>4. IsRefund(o0) => ~("FAILED" \in r /\ "SUCCEEDED" \in r)
  BY <1>1, Decided
<1>5. Growth => JobsFit'
  BY <1>1, JobsUnchanged
<1>6. jobs' \in [Workers -> Job \cup {Nil}] /\ faults' \in 0 .. MaxFaults
  BY <1>1, <1>2 DEF TypeOK
<1> HIDE DEF r
<1> QED
  BY <1>1, <1>2, <1>3, <1>4, <1>5, <1>6, LedgerMoveKeeps

\* The operation of an old payment or refund is made on demand.
LEMMA EnqueueKeeps ==
  ASSUME ChannelInv, NEW o0 \in Operation, Enqueue(o0)
  PROVE  ChannelInv'
<1>1. /\ UNCHANGED <<source, overdue, ledger, stored, applied, settled, jobs, faults>>
      /\ Missing(o0) /\ ops' = [ops EXCEPT ![o0] = Fresh] /\ TypeOK
  BY DEF Enqueue, KeepBooks, KeepLedger, ChannelInv
<1>2. Fresh \in OpRow /\ Fresh # Nil /\ ~Fresh.running /\ Fresh.state = "READY"
  <2>1. Fresh \in OpRow /\ ~Fresh.running /\ Fresh.state = "READY"
    BY DEF OpRow, Fresh
  <2> QED
    BY <2>1, NilAssumption
<1>3. ops'[o0] = Fresh /\ \A o \in Operation \ {o0} : ops'[o] = ops[o]
  BY <1>1 DEF TypeOK
<1>4. Growth
  BY <1>1, <1>3 DEF Growth, Missing
<1>5. JobsFit'
  BY <1>1, <1>4, JobsUnchanged
<1>6. \A n \in Operation : n.source = o0.source => ops[n] = Nil
  <2>1. \A n \in Operation : n.generation = 1 \/ o0.generation < n.generation
    BY <1>1, BoundsAssumption DEF Missing, Operation
  <2> QED
    BY <1>1, <2>1, Operations DEF Missing, TypeOK
<1>7. TypeOK'
  <2>1. ops' \in [Operation -> OpRow \cup {Nil}]
    BY <1>1, <1>2 DEF TypeOK
  <2>2. \A o \in Operation : ops'[o] # Nil /\ ops'[o].running => ops'[o].token # Nil
    BY <1>1, <1>2, <1>3 DEF TypeOK
  <2>3. ASSUME NEW n \in Operation, NEW o \in Operation, ops'[n] # Nil,
               n.source = o.source, o.generation < n.generation
        PROVE  ops'[o] # Nil
    <3>1. n # o0
      BY <1>1, <2>3, BoundsAssumption DEF Missing, Operation
    <3>2. ops[o] # Nil
      BY <1>1, <1>3, <2>3, <3>1 DEF TypeOK
    <3> QED
      BY <1>4, <3>2 DEF Growth
  <2> QED
    BY <1>1, <2>1, <2>2, <2>3 DEF TypeOK
<1>8. LedgerFits' /\ SourcesFit'
  BY <1>1, <1>3, <1>4 DEF ChannelInv, LedgerFits, SourcesFit, Growth, Missing, RefusedAsOld
<1>9. RefundedOnce'
  <2>1. ASSUME NEW n \in Operation, NEW o \in Operation, ops'[n] # Nil,
               n.source = o.source, o.generation < n.generation
        PROVE  ops[n] # Nil
    <3>1. n # o0
      BY <1>1, <2>1, BoundsAssumption DEF Missing, Operation
    <3> QED
      BY <1>3, <2>1, <3>1
  <2> QED
    BY <1>1, <2>1 DEF ChannelInv, RefundedOnce, RefusedAsOld
<1>10. ObservationsFit'
  BY <1>1, <1>4, Operations DEF ChannelInv, ObservationsFit, Verified, Told, Captured, TypeOK, Growth
<1>11. FinalStates'
  BY <1>1, <1>2, <1>3 DEF ChannelInv, FinalStates, Reports, Refused, RefusedAsOld, Captured
<1>12. BooksFollowChannel'
  <2>1. ASSUME NEW o \in Operation, o # o0, Latest(o)'
        PROVE  Latest(o)
    BY <1>3, <1>4, <2>1 DEF Latest, Newer, Growth
  <2>2. source[o0.source] = "FAILED" => Refused(o0)
    BY <1>1 DEF ChannelInv, SourcesFit, Refused
  <2>3. ASSUME NEW s \in Sources, source[s] = "FAILED", NEW o \in Operation, o.source = s, Latest(o)'
        PROVE  Refused(o)
    BY <2>1, <2>2, <2>3 DEF ChannelInv, BooksFollowChannel
  <2> QED
    BY <1>1, <2>3 DEF ChannelInv, BooksFollowChannel, Refused, RefusedAsOld, Reports, Captured
<1> QED
  BY <1>5, <1>7, <1>8, <1>9, <1>10, <1>11, <1>12 DEF ChannelInv

\* A new attempt begins after the channel refused the old one.
LEMMA RetryKeeps ==
  ASSUME ChannelInv, NEW o0 \in Operation, RetryRefund(o0)
  PROVE  ChannelInv'
<1> DEFINE n0 == [o0 EXCEPT !.generation = @ + 1]
           r  == Fresh
           q  == [Row(o0) EXCEPT !.state = "FAILED"]
<1>1. /\ UNCHANGED <<overdue, ledger, stored, applied, settled, jobs, faults>>
      /\ IsRefund(o0) /\ o0.generation < MaxGeneration /\ (Latest(o0) \/ Missing(o0))
      /\ source[o0.source] = "FAILED"
      /\ ops' = [ops EXCEPT ![o0] = q, ![n0] = r]
      /\ source' = [source EXCEPT ![o0.source] = "REQUESTED"]
  BY DEF RetryRefund, Retryable
<1>2. /\ n0 \in Operation /\ n0.source = o0.source /\ n0.generation = o0.generation + 1
      /\ o0.generation \in Nat /\ o0.source \in Sources /\ n0 # o0
  <2>1. /\ n0 \in Operation /\ n0.source = o0.source /\ n0.generation = o0.generation + 1
        /\ o0.generation \in Nat /\ o0.source \in Sources
    BY <1>1, Operations, BoundsAssumption, SourcesAssumption DEF Operation, IsRefund
  <2> HIDE DEF n0
  <2> QED
    BY <2>1
<1>3. /\ r \in OpRow /\ r # Nil /\ ~r.running /\ r.state = "READY"
      /\ q \in OpRow /\ q # Nil /\ (q.running => q.token # Nil) /\ q.state = "FAILED"
  <2>1. r \in OpRow /\ ~r.running /\ r.state = "READY"
    BY DEF OpRow, Fresh
  <2>2. Row(o0) \in OpRow /\ (Row(o0).running => Row(o0).token # Nil)
    BY <2>1 DEF ChannelInv, TypeOK, Row
  <2>3. q \in OpRow /\ (q.running => q.token # Nil) /\ q.state = "FAILED"
    BY <2>2 DEF OpRow
  <2> QED
    BY <2>1, <2>3, NilAssumption
<1> HIDE DEF n0, r, q
<1>4. Newer(o0) = {} /\ ops[n0] = Nil
  <2>1. CASE Latest(o0)
    BY <1>1, <1>2, <2>1 DEF Newer, Latest
  <2>2. CASE Missing(o0)
    <3>1. \A n \in Operation : n.source = o0.source /\ o0.generation < n.generation => ops[n] = Nil
      BY <2>2 DEF ChannelInv, TypeOK, Missing
    <3> QED
      BY <1>2, <3>1 DEF Newer
  <2> QED
    BY <1>1, <2>1, <2>2
<1>5. /\ TypeOK /\ ops'[n0] = r /\ ops'[o0] = q
      /\ \A o \in Operation \ {o0, n0} : ops'[o] = ops[o]
  BY <1>1, <1>2 DEF ChannelInv, TypeOK
<1>50. Refused(o0)
  BY <1>1 DEF ChannelInv, BooksFollowChannel, SourcesFit, Refused, Latest, Operation, Sources, IsRefund
<1>6. ~Captured(o0.source)
  BY <1>1 DEF Captured
<1>7. /\ source' \in [Sources -> {"PENDING", "REQUESTED", "SUCCEEDED", "FAILED",
                                  "CLOSED", "REFUND_REQUIRED"}]
      /\ source'[o0.source] = "REQUESTED"
      /\ \A s \in Sources \ {o0.source} : source'[s] = source[s]
      /\ \A s \in Sources : Captured(s) => source'[s] = source[s] /\ Captured(s)'
  <2>1. PICK s0 \in Sources : s0 = o0.source
    BY <1>2
  <2> QED
    BY <1>1, <1>6, <2>1, SourceMoves
<1>8. Growth
  BY <1>1, <1>3, <1>5, <1>7 DEF Growth
<1>9. JobsFit'
  BY <1>1, <1>8, JobsUnchanged
<1>10. \A n, o \in Operation : ops'[n] # Nil /\ n.source = o.source /\ o.generation < n.generation =>
         ops'[o] # Nil /\ (n = n0 => o = o0 \/ o.generation < o0.generation)
  <2>1. ASSUME NEW n \in Operation, NEW o \in Operation, ops'[n] # Nil,
               n.source = o.source, o.generation < n.generation
        PROVE  ops'[o] # Nil /\ (n = n0 => o = o0 \/ o.generation < o0.generation)
    <3>1. CASE n # n0
      <4>1. CASE ops[n] # Nil
        <5>1. ops[o] # Nil
          BY <1>5, <2>1, <4>1 DEF TypeOK
        <5> QED
          BY <1>8, <3>1, <5>1 DEF Growth
      <4>2. CASE ops[n] = Nil
        <5>1. n = o0 /\ Missing(o0)
          BY <1>1, <1>5, <2>1, <3>1, <4>2 DEF Latest
        <5> QED
          BY <2>1, <5>1, Operations, BoundsAssumption DEF Missing, Operation
      <4> QED
        BY <4>1, <4>2
    <3>2. CASE n = n0
      <4>1. o = o0 \/ o.generation < o0.generation
        BY <1>2, <2>1, <3>2, Operations
      <4>2. CASE o = o0
        BY <1>3, <1>5, <4>1, <4>2
      <4>3. CASE o.generation < o0.generation
        <5>1. Latest(o0)
          BY <1>1, <2>1, <4>3, BoundsAssumption DEF Missing, Operation
        <5>2. ops[o] # Nil
          BY <1>2, <1>5, <2>1, <3>2, <4>3, <5>1 DEF TypeOK, Latest
        <5> QED
          BY <1>8, <4>1, <5>2 DEF Growth
      <4> QED
        BY <4>1, <4>2, <4>3
    <3> QED
      BY <3>1, <3>2
  <2> QED
    BY <2>1
<1>11. TypeOK'
  <2>1. ops' \in [Operation -> OpRow \cup {Nil}]
    BY <1>1, <1>2, <1>3, <1>5 DEF TypeOK
  <2>2. \A o \in Operation : ops'[o] # Nil /\ ops'[o].running => ops'[o].token # Nil
    BY <1>3, <1>5 DEF TypeOK
  <2> QED
    BY <1>1, <1>5, <1>7, <1>10, <2>1, <2>2 DEF TypeOK
<1>12. ~RefusedAsOld(o0) => ledger[o0] = {"ASKED", "FAILED"}
  <2> SUFFICES ASSUME ~RefusedAsOld(o0)
               PROVE  ledger[o0] = {"ASKED", "FAILED"}
    OBVIOUS
  <2>1. "FAILED" \in ledger[o0] /\ "ASKED" \in ledger[o0] /\ "SUCCEEDED" \notin ledger[o0]
    <3>1. "FAILED" \in ledger[o0] /\ LedgerFits
      BY <1>50 DEF ChannelInv, Reports, Refused
    <3> QED
      BY <1>1, <3>1 DEF LedgerFits
  <2>2. ledger[o0] \subseteq {"ASKED", "FAILED", "SUCCEEDED"}
    BY <1>5 DEF TypeOK, Record
  <2> QED
    BY <2>1, <2>2
<1>13. RefundedOnce'
  <2>1. ASSUME NEW n \in Operation, NEW o \in Operation,
               n.source = o.source, o.generation < n.generation, ops'[n] # Nil, ~RefusedAsOld(o)
        PROVE  ledger[o] = {"ASKED", "FAILED"}
    <3>1. CASE ops[n] # Nil
      BY <2>1, <3>1 DEF ChannelInv, RefundedOnce
    <3>2. CASE o = o0
      BY <1>12, <2>1, <3>2
    <3>3. CASE ops[n] = Nil /\ o # o0
      <4>1. n = o0 \/ n = n0
        BY <1>5, <2>1, <3>3
      <4>2. o.generation < o0.generation /\ o.source = o0.source
        BY <1>2, <1>10, <2>1, <3>3, <4>1
      <4>3. ops[o0] # Nil
        BY <1>1, <4>2, BoundsAssumption DEF Missing, Latest, Operation
      <4> QED
        BY <2>1, <4>2, <4>3 DEF ChannelInv, RefundedOnce
    <3> QED
      BY <3>1, <3>2, <3>3
  <2> QED
    BY <1>1, <2>1 DEF RefundedOnce, RefusedAsOld
<1>14. LedgerFits' /\ SourcesFit'
  <2>1. LedgerFits'
    BY <1>1, <1>8 DEF ChannelInv, LedgerFits, Growth
  <2>2. \A s \in Sources : source'[s] = "REFUND_REQUIRED" => s \in OrderPayments
    BY <1>7 DEF ChannelInv, SourcesFit
  <2>3. ASSUME NEW o \in Operation, Missing(o)', source'[o.source] = "FAILED"
        PROVE  RefusedAsOld(o)
    <3>1. Missing(o)
      BY <1>8, <2>3 DEF Missing, Growth
    <3>2. source[o.source] = "FAILED"
      BY <1>7, <2>3, Operations
    <3> QED
      BY <3>1, <3>2 DEF ChannelInv, SourcesFit
  <2> QED
    BY <2>1, <2>2, <2>3 DEF SourcesFit, RefusedAsOld
<1>15. ObservationsFit'
  <2>1. \A e \in Event : (Verified(e) => Verified(e)') /\ (Told(e) => Told(e)')
    BY <1>1, <1>7, <1>8, Operations DEF Verified, Told, Growth
  <2> QED
    BY <1>1, <1>5, <2>1 DEF ChannelInv, ObservationsFit, TypeOK
<1>16. FinalStates'
  <2>1. ASSUME NEW o \in Operation, ops'[o] # Nil
        PROVE  /\ ops'[o].state = "SUCCEEDED" => Reports(o, "SUCCEEDED") /\ Captured(o.source)'
               /\ ops'[o].state = "FAILED" => Refused(o)
    <3>1. CASE o = n0
      BY <1>3, <1>5, <3>1
    <3>2. CASE o = o0
      BY <1>3, <1>5, <1>50, <3>2
    <3>3. CASE o # o0 /\ o # n0
      BY <1>5, <1>7, <2>1, <3>3, Operations DEF ChannelInv, FinalStates
    <3> QED
      BY <3>1, <3>2, <3>3
  <2> QED
    BY <1>1, <2>1 DEF FinalStates, Refused, RefusedAsOld, Reports
<1>17. BooksFollowChannel'
  <2>1. \A s \in Sources : Captured(s)' => Captured(s)
    BY <1>7 DEF Captured
  <2>2. ASSUME NEW s \in Sources, source'[s] = "FAILED", NEW o \in Operation, o.source = s, Latest(o)'
        PROVE  Refused(o)
    <3>1. s # o0.source /\ source[s] = "FAILED" /\ o # n0 /\ o # o0
      BY <1>2, <1>7, <2>2
    <3>2. \A n \in Operation : n.source = s => ops'[n] = ops[n]
      BY <1>2, <1>5, <3>1
    <3>3. Latest(o)
      BY <2>2, <3>2 DEF Latest, Newer
    <3> QED
      BY <2>2, <3>1, <3>3 DEF ChannelInv, BooksFollowChannel, Refused, RefusedAsOld, Reports
  <2> QED
    BY <1>1, <2>1, <2>2 DEF ChannelInv, BooksFollowChannel, Reports, Refused, RefusedAsOld
<1> QED
  BY <1>9, <1>11, <1>13, <1>14, <1>15, <1>16, <1>17 DEF ChannelInv

LEMMA SurroundingsKeep ==
  ASSUME ChannelInv, Surroundings
  PROVE  ChannelInv'
BY ExpiryPassesKeeps, CloseKeeps, LapseKeeps, EnqueueKeeps, RetryKeeps, DecideKeeps DEF Surroundings

(***************************************************************************)
(* An invocation begins.                                                   *)
(***************************************************************************)
\* Worker w0 gets job j, and is the only one that moves.
LEMMA JobGiven ==
  ASSUME TypeOK, NEW w0 \in Workers, NEW j \in Job, jobs' = [jobs EXCEPT ![w0] = j]
  PROVE  /\ jobs' \in [Workers -> Job \cup {Nil}]
         /\ jobs'[w0] = j /\ \A w \in Workers \ {w0} : jobs'[w] = jobs[w]
BY DEF TypeOK

LEMMA BeginKeeps ==
  ASSUME ChannelInv, NEW w0 \in Workers, NEW o0 \in Operation, ops[o0] # Nil,
         NEW by \in {"server", "person", "channel"}, Begin(w0, o0, by)
  PROVE  ChannelInv'
<1> DEFINE j == [step |-> "replay", op |-> o0, by |-> by, claimed |-> FALSE,
                 first |-> FALSE, todo |-> Unapplied(o0), event |-> Nil, answer |-> "NONE"]
<1>1. /\ UNCHANGED <<source, overdue, ops, ledger, stored, applied, settled, faults>>
      /\ jobs' = [jobs EXCEPT ![w0] = j]
  BY DEF Begin, KeepBooks, KeepRows, KeepLedger
<1>2. TypeOK /\ Unapplied(o0) \subseteq stored /\ stored \subseteq Event
  BY DEF ChannelInv, TypeOK, Unapplied
<1>3. j \in Job /\ j.op = o0 /\ j.todo = Unapplied(o0) /\ j.step = "replay"
  BY <1>2 DEF Job, Steps
<1> HIDE DEF j
<1>4. /\ jobs' \in [Workers -> Job \cup {Nil}]
      /\ jobs'[w0] = j /\ \A w \in Workers \ {w0} : jobs'[w] = jobs[w]
  BY <1>1, <1>2, <1>3, JobGiven
<1>5. JobFits(w0)'
  BY <1>1, <1>2, <1>3, <1>4 DEF JobFits
<1> QED
  BY <1>1, <1>2, <1>4, <1>5, JobsMoveKeeps DEF TypeOK

\* An invocation on behalf of the channel has a report of it.
LEMMA ReportedMoves ==
  ASSUME TypeOK, NEW w0 \in Workers, NEW e \in Event, Reported(w0, e)
  PROVE  /\ jobs' \in [Workers -> Job \cup {Nil}]
         /\ jobs'[w0].step = "record" /\ jobs'[w0].op = e.op
         /\ jobs'[w0].todo = {} /\ jobs'[w0].event = e
         /\ \A w \in Workers \ {w0} : jobs'[w] = jobs[w]
<1> DEFINE j == [step |-> "record", op |-> e.op, by |-> "channel", claimed |-> FALSE,
                 first |-> FALSE, todo |-> {}, event |-> e, answer |-> "NONE"]
<1>1. j \in Job /\ j.step = "record" /\ j.op = e.op /\ j.todo = {} /\ j.event = e
  BY Operations DEF Job, Steps
<1>2. jobs' = [jobs EXCEPT ![w0] = j]
  BY DEF Reported
<1> HIDE DEF j
<1> QED
  BY <1>1, <1>2, JobGiven

LEMMA AcceptKeeps ==
  ASSUME ChannelInv, NEW w0 \in Workers, NEW e \in Event, AcceptPaymentNotification(w0, e)
  PROVE  ChannelInv'
<1>1. /\ UNCHANGED <<source, overdue, ops, ledger, stored, applied, settled, faults>>
      /\ Reported(w0, e) /\ e.status \in ledger[e.op] /\ TypeOK
  BY DEF AcceptPaymentNotification, KeepBooks, KeepRows, KeepLedger, ChannelInv
<1>2. /\ jobs' \in [Workers -> Job \cup {Nil}]
      /\ jobs'[w0].step = "record" /\ jobs'[w0].op = e.op
      /\ jobs'[w0].todo = {} /\ jobs'[w0].event = e
      /\ \A w \in Workers \ {w0} : jobs'[w] = jobs[w]
  BY <1>1, ReportedMoves
<1>3. Verified(e) /\ Verified(e)'
  BY <1>1, Operations DEF ChannelInv, LedgerFits, Verified
<1>4. JobFits(w0)'
  BY <1>1, <1>2, <1>3 DEF JobFits, Verified
<1> QED
  BY <1>1, <1>2, <1>4, JobsMoveKeeps DEF TypeOK

LEMMA SimulateKeeps ==
  ASSUME ChannelInv, NEW w0 \in Workers, NEW o0 \in Operation, NEW status \in {"SUCCEEDED", "FAILED"},
         NEW id \in EventIds, SimulatePaymentChannel(w0, o0, status, id)
  PROVE  ChannelInv'
<1> DEFINE r == ledger[o0] \cup {"ASKED"} \cup IF Undecided(o0) THEN {status} ELSE {}
           e == [op |-> o0, id |-> id, status |-> Outcome(r)]
<1>1. /\ UNCHANGED <<source, overdue, ops, stored, applied, settled, faults>>
      /\ ledger' = [ledger EXCEPT ![o0] = r] /\ Reported(w0, e) /\ ops[o0] # Nil
  BY DEF SimulatePaymentChannel, KeepBooks, KeepRows, Latest
<1>2. TypeOK /\ ledger[o0] \in Record
  BY DEF ChannelInv, TypeOK
<1>3. r \in Record /\ ledger[o0] \subseteq r /\ "ASKED" \in r
  BY <1>2 DEF Record
<1>4. IsRefund(o0) => ~("FAILED" \in r /\ "SUCCEEDED" \in r)
  <2>1. CASE Undecided(o0)
    BY <2>1, Decided
  <2>2. CASE ~Undecided(o0)
    BY <2>2 DEF ChannelInv, LedgerFits
  <2> QED
    BY <2>1, <2>2
<1>5. Outcome(r) \in r
  BY DEF Outcome, Undecided, Open
<1>6. e \in Event /\ e.op = o0 /\ e.status \in r
  BY <1>5 DEF Event, Outcome
<1> HIDE DEF r, e
<1>7. /\ jobs' \in [Workers -> Job \cup {Nil}]
      /\ jobs'[w0].step = "record" /\ jobs'[w0].op = o0
      /\ jobs'[w0].todo = {} /\ jobs'[w0].event = e
      /\ \A w \in Workers \ {w0} : jobs'[w] = jobs[w]
  BY <1>1, <1>2, <1>6, ReportedMoves
<1>8. ledger'[o0] = r
  BY <1>1, <1>2 DEF TypeOK
<1>9. JobFits(w0)'
  BY <1>1, <1>6, <1>7, <1>8 DEF JobFits, Verified
<1>10. Growth => JobsFit'
  BY <1>7, <1>9, JobsKept
<1>11. faults' \in 0 .. MaxFaults
  BY <1>1, <1>2 DEF TypeOK
<1> QED
  BY <1>1, <1>3, <1>4, <1>7, <1>10, <1>11, LedgerMoveKeeps

LEMMA StartKeeps ==
  ASSUME ChannelInv, NEW w0 \in Workers, Start(w0)
  PROVE  ChannelInv'
BY BeginKeeps, AcceptKeeps, SimulateKeeps DEF Start, ProcessDue, Due, ReconcilePaymentChannel, Latest

(***************************************************************************)
(* An invocation goes on.                                                  *)
(***************************************************************************)
LEMMA ReplayKeeps ==
  ASSUME ChannelInv, NEW w0 \in Workers, NEW e \in Event, ReplayNext(w0, e)
  PROVE  ChannelInv'
<1> DEFINE j == [jobs[w0] EXCEPT !.step = "apply", !.event = e, !.todo = @ \ {e}]
<1>1. /\ UNCHANGED <<source, overdue, ops, ledger, stored, applied, settled, faults>>
      /\ Running(w0) /\ jobs[w0] \in Job /\ TypeOK /\ e \in jobs[w0].todo /\ JobFits(w0)
      /\ jobs' = [jobs EXCEPT ![w0].step = "apply", ![w0].event = e, ![w0].todo = @ \ {e}]
  BY DEF ReplayNext, AtStep, Running, KeepBooks, KeepRows, KeepLedger, ChannelInv, TypeOK, JobsFit
<1>2. /\ j \in Job /\ j.step = "apply" /\ j.op = jobs[w0].op /\ j.event = e
      /\ j.todo = jobs[w0].todo \ {e}
  BY <1>1 DEF Job, Steps
<1>3. jobs' = [jobs EXCEPT ![w0] = j]
  BY <1>1 DEF TypeOK, Job
<1> HIDE DEF j
<1>4. /\ jobs' \in [Workers -> Job \cup {Nil}]
      /\ jobs'[w0] = j /\ \A w \in Workers \ {w0} : jobs'[w] = jobs[w]
  BY <1>1, <1>2, <1>3, JobGiven
<1>5. e \in stored /\ Verified(e)
  BY <1>1 DEF JobFits, ChannelInv, ObservationsFit
<1>6. JobFits(w0)'
  BY <1>1, <1>2, <1>4, <1>5 DEF JobFits, Verified
<1> QED
  BY <1>1, <1>4, <1>6, JobsMoveKeeps DEF TypeOK

LEMMA ClaimKeeps ==
  ASSUME ChannelInv, NEW w0 \in Workers, Claim(w0)
  PROVE  ChannelInv'
<1>0. PICK o0 \in Operation : o0 = jobs[w0].op
  BY DEF Claim, AtStep, Running, ChannelInv, TypeOK, Job
<1>1. /\ UNCHANGED <<source, overdue, ledger, stored, applied, settled, faults>>
      /\ Running(w0) /\ jobs[w0] \in Job /\ TypeOK /\ JobFits(w0) /\ ops[o0] # Nil
      /\ faults' \in 0 .. MaxFaults
  BY <1>0 DEF Claim, AtStep, Running, KeepBooks, KeepLedger, ChannelInv, TypeOK, JobsFit, JobFits
<1>2. CASE UNCHANGED ops /\ Finish(w0)
  BY <1>1, <1>2, JobEnds, JobsMoveKeeps
<1>3. CASE /\ ops' = [ops EXCEPT ![o0] = [state |-> "IN_FLIGHT", token |-> w0, running |-> TRUE]]
           /\ jobs' = [jobs EXCEPT ![w0].step = "check", ![w0].claimed = TRUE,
                                   ![w0].first = ops[o0].state = "READY"]
  <2> DEFINE r == [state |-> "IN_FLIGHT", token |-> w0, running |-> TRUE]
             j == [jobs[w0] EXCEPT !.step = "check", !.claimed = TRUE, !.first = ops[o0].state = "READY"]
  <2>1. r \in OpRow /\ r.token # Nil /\ r.state = "IN_FLIGHT"
    BY NilAssumption DEF OpRow
  <2>2. j \in Job /\ j.step = "check" /\ j.op = jobs[w0].op /\ j.todo = jobs[w0].todo
    BY <1>1 DEF Job, Steps
  <2>3. jobs' = [jobs EXCEPT ![w0] = j]
    BY <1>1, <1>3 DEF TypeOK, Job
  <2>4. ops' = [ops EXCEPT ![o0] = r]
    BY <1>3
  <2> HIDE DEF r, j
  <2>5. /\ jobs' \in [Workers -> Job \cup {Nil}]
        /\ jobs'[w0] = j /\ \A w \in Workers \ {w0} : jobs'[w] = jobs[w]
    BY <1>1, <2>2, <2>3, JobGiven
  <2>6. ASSUME Growth
        PROVE  JobsFit'
    <3>1. JobFits(w0)'
      BY <1>0, <1>1, <2>2, <2>5, <2>6 DEF JobFits, Growth
    <3> QED
      BY <2>5, <2>6, <3>1, JobsKept
  <2> QED
    BY <1>1, <2>1, <2>4, <2>5, <2>6, RowMoveKeeps
<1> QED
  BY <1>0, <1>2, <1>3 DEF Claim

\* A worker that moves on within what it knows.
LEMMA GoToKeeps ==
  ASSUME ChannelInv, NEW w0 \in Workers, Running(w0), NEW s \in Steps, GoTo(w0, s),
         s \notin {"record", "apply", "settle", "mark", "save"},
         UNCHANGED <<source, overdue, ops, ledger, stored, applied, settled, faults>>
  PROVE  ChannelInv'
<1>1. TypeOK /\ JobFits(w0) /\ faults' \in 0 .. MaxFaults
  BY DEF ChannelInv, JobsFit, TypeOK
<1>2. /\ jobs' \in [Workers -> Job \cup {Nil}]
      /\ jobs'[w0].step = s /\ jobs'[w0].op = jobs[w0].op /\ jobs'[w0].todo = jobs[w0].todo
      /\ \A w \in Workers \ {w0} : jobs'[w] = jobs[w]
  BY <1>1, JobMoves
<1>3. JobFits(w0)'
  BY <1>1, <1>2 DEF JobFits
<1> QED
  BY <1>1, <1>2, <1>3, JobsMoveKeeps

\* A worker that heard an outcome, or nothing that decides, holds what the record says.
LEMMA HearFits ==
  ASSUME ChannelInv, NEW w0 \in Workers, Running(w0), NEW o0 \in Operation, o0 = jobs[w0].op, NEW r,
         Hear(w0, r), r \subseteq ledger'[o0], Growth
  PROVE  /\ jobs' \in [Workers -> Job \cup {Nil}]
         /\ JobFits(w0)' /\ \A w \in Workers \ {w0} : jobs'[w] = jobs[w]
<1>1. TypeOK /\ JobFits(w0) /\ jobs[w0] \in Job
  BY DEF ChannelInv, JobsFit, TypeOK, Running
<1>2. CASE Open(r) /\ Answer(w0, "PENDING")
  <2>1. /\ jobs' \in [Workers -> Job \cup {Nil}]
        /\ jobs'[w0].step = "save" /\ jobs'[w0].op = jobs[w0].op /\ jobs'[w0].todo = jobs[w0].todo
        /\ jobs'[w0].answer = "PENDING"
        /\ \A w \in Workers \ {w0} : jobs'[w] = jobs[w]
    BY <1>1, <1>2, JobMoves
  <2>2. JobFits(w0)'
    BY <1>1, <2>1 DEF JobFits, Growth
  <2> QED
    BY <2>1, <2>2
<1>3. ASSUME ~Open(r), NEW id \in EventIds, Handle(w0, [op |-> o0, id |-> id, status |-> Outcome(r)])
      PROVE  /\ jobs' \in [Workers -> Job \cup {Nil}]
             /\ JobFits(w0)' /\ \A w \in Workers \ {w0} : jobs'[w] = jobs[w]
  <2> DEFINE e == [op |-> o0, id |-> id, status |-> Outcome(r)]
  <2>1. Outcome(r) \in r /\ Outcome(r) \in {"SUCCEEDED", "FAILED"}
    BY <1>3 DEF Open, Outcome
  <2>2. e \in Event /\ e.op = o0 /\ e.status \in ledger'[o0]
    BY <2>1 DEF Event
  <2>3. Handle(w0, e)
    BY <1>3
  <2> HIDE DEF e
  <2>4. /\ jobs' \in [Workers -> Job \cup {Nil}]
        /\ jobs'[w0].step = "record" /\ jobs'[w0].op = jobs[w0].op
        /\ jobs'[w0].todo = jobs[w0].todo /\ jobs'[w0].event = e
        /\ \A w \in Workers \ {w0} : jobs'[w] = jobs[w]
    BY <1>1, <2>2, <2>3, JobMoves
  <2>5. ops'[o0] # Nil
    BY <1>1 DEF JobFits, Growth
  <2>6. JobFits(w0)'
    BY <1>1, <2>2, <2>4, <2>5 DEF JobFits, Growth, Verified
  <2> QED
    BY <2>4, <2>6
<1> QED
  BY <1>2, <1>3 DEF Hear

LEMMA CheckKeeps ==
  ASSUME ChannelInv, NEW w0 \in Workers, Check(w0)
  PROVE  ChannelInv'
<1>1. /\ UNCHANGED <<source, overdue, ops, ledger, stored, applied, settled, faults>> /\ Running(w0)
      /\ GoTo(w0, "create") \/ GoTo(w0, "query")
  BY DEF Check, AtStep, KeepBooks, KeepRows, KeepLedger
<1> QED
  BY <1>1, GoToKeeps DEF Steps

\* A worker stores an answer that decides nothing and moves on to save it.
LEMMA AnswerFits ==
  ASSUME ChannelInv, NEW w0 \in Workers, Running(w0), NEW a \in {"PENDING", "UNKNOWN"}, Answer(w0, a), Growth
  PROVE  /\ jobs' \in [Workers -> Job \cup {Nil}]
         /\ JobFits(w0)' /\ \A w \in Workers \ {w0} : jobs'[w] = jobs[w]
<1>1. TypeOK /\ JobFits(w0) /\ jobs[w0].op \in Operation
  BY DEF ChannelInv, JobsFit, TypeOK, Running, Job
<1>2. /\ jobs' \in [Workers -> Job \cup {Nil}]
      /\ jobs'[w0].step = "save" /\ jobs'[w0].op = jobs[w0].op /\ jobs'[w0].todo = jobs[w0].todo
      /\ jobs'[w0].answer = a
      /\ \A w \in Workers \ {w0} : jobs'[w] = jobs[w]
  BY <1>1, JobMoves
<1> QED
  BY <1>1, <1>2 DEF JobFits, Growth

LEMMA CreateKeeps ==
  ASSUME ChannelInv, NEW w0 \in Workers, Create(w0)
  PROVE  ChannelInv'
<1>0. PICK o0 \in Operation : o0 = jobs[w0].op
  BY DEF Create, AtStep, Running, ChannelInv, TypeOK, Job
<1> DEFINE r == ledger[o0] \cup {"ASKED"}
<1>1. /\ UNCHANGED <<source, overdue, ops, stored, applied, settled, faults>>
      /\ Running(w0) /\ ops[o0] # Nil /\ TypeOK /\ ledger[o0] \in Record /\ faults' \in 0 .. MaxFaults
      /\ ledger' = [ledger EXCEPT ![o0] = r] /\ Hear(w0, ledger[o0])
  BY <1>0 DEF Create, AtStep, Running, KeepBooks, KeepRows, ChannelInv, TypeOK, JobsFit, JobFits
<1>2. r \in Record /\ ledger[o0] \subseteq r /\ "ASKED" \in r /\ ledger'[o0] = r
  BY <1>1 DEF Record, TypeOK
<1>3. IsRefund(o0) => ~("FAILED" \in r /\ "SUCCEEDED" \in r)
  BY DEF ChannelInv, LedgerFits
<1>4. Growth
  BY <1>1 DEF Growth, TypeOK
<1>5. /\ jobs' \in [Workers -> Job \cup {Nil}]
      /\ JobFits(w0)' /\ \A w \in Workers \ {w0} : jobs'[w] = jobs[w]
  BY <1>0, <1>1, <1>2, <1>4, HearFits
<1>6. JobsFit'
  BY <1>4, <1>5, JobsKept
<1> HIDE DEF r
<1> QED
  BY <1>1, <1>2, <1>3, <1>5, <1>6, LedgerMoveKeeps

LEMMA QueryKeeps ==
  ASSUME ChannelInv, NEW w0 \in Workers, Query(w0)
  PROVE  ChannelInv'
<1>0. PICK o0 \in Operation : o0 = jobs[w0].op
  BY DEF Query, AtStep, Running, ChannelInv, TypeOK, Job
<1>1. /\ UNCHANGED <<source, overdue, ops, ledger, stored, applied, settled, faults>>
      /\ Running(w0) /\ TypeOK /\ faults' \in 0 .. MaxFaults
      /\ GoTo(w0, "recheck") \/ Hear(w0, ledger[o0])
  BY <1>0 DEF Query, AtStep, KeepBooks, KeepRows, KeepLedger, ChannelInv, TypeOK
<1>2. CASE GoTo(w0, "recheck")
  BY <1>1, <1>2, GoToKeeps DEF Steps
<1>3. CASE Hear(w0, ledger[o0])
  <2>1. Growth
    BY <1>1 DEF Growth
  <2>2. /\ jobs' \in [Workers -> Job \cup {Nil}]
        /\ JobFits(w0)' /\ \A w \in Workers \ {w0} : jobs'[w] = jobs[w]
    BY <1>0, <1>1, <1>3, <2>1, HearFits
  <2> QED
    BY <1>1, <2>2, JobsMoveKeeps
<1> QED
  BY <1>1, <1>2, <1>3

LEMMA RecheckKeeps ==
  ASSUME ChannelInv, NEW w0 \in Workers, Recheck(w0)
  PROVE  ChannelInv'
<1>1. /\ UNCHANGED <<source, overdue, ops, ledger, stored, applied, settled, faults>>
      /\ Running(w0) /\ faults' \in 0 .. MaxFaults
      /\ GoTo(w0, "create") \/ Answer(w0, "UNKNOWN")
  BY DEF Recheck, AtStep, KeepBooks, KeepRows, KeepLedger, ChannelInv, TypeOK
<1>2. CASE GoTo(w0, "create")
  BY <1>1, <1>2, GoToKeeps DEF Steps
<1>3. CASE Answer(w0, "UNKNOWN")
  <2>1. Growth
    BY <1>1 DEF Growth
  <2>2. /\ jobs' \in [Workers -> Job \cup {Nil}]
        /\ JobFits(w0)' /\ \A w \in Workers \ {w0} : jobs'[w] = jobs[w]
    BY <1>1, <1>3, <2>1, AnswerFits
  <2> QED
    BY <1>1, <2>2, JobsMoveKeeps
<1> QED
  BY <1>1, <1>2, <1>3

LEMMA AnswerLostKeeps ==
  ASSUME ChannelInv, NEW w0 \in Workers, AnswerLost(w0)
  PROVE  ChannelInv'
<1>0. PICK o0 \in Operation : o0 = jobs[w0].op
  BY DEF AnswerLost, AtStep, Running, ChannelInv, TypeOK, Job
<1>1. /\ UNCHANGED <<source, overdue, ops, stored, applied, settled>>
      /\ Running(w0) /\ TypeOK /\ Answer(w0, "UNKNOWN") /\ ops[o0] # Nil
      /\ \/ UNCHANGED ledger
         \/ ledger[o0] = {} /\ ledger' = [ledger EXCEPT ![o0] = {"ASKED"}]
  BY <1>0 DEF AnswerLost, AtStep, Running, KeepBooks, KeepRows, KeepLedger, ChannelInv, JobsFit, JobFits
<1>2. faults' \in 0 .. MaxFaults
  <2>1. faults < MaxFaults /\ faults' = faults + 1 /\ faults \in 0 .. MaxFaults /\ MaxFaults \in Nat
    BY BoundsAssumption DEF AnswerLost, ChannelInv, TypeOK
  <2> QED
    BY <2>1
<1>3. Growth
  BY <1>1 DEF Growth, TypeOK
<1>4. /\ jobs' \in [Workers -> Job \cup {Nil}]
      /\ JobFits(w0)' /\ \A w \in Workers \ {w0} : jobs'[w] = jobs[w]
  BY <1>1, <1>3, AnswerFits
<1>5. CASE UNCHANGED ledger
  BY <1>1, <1>2, <1>4, <1>5, JobsMoveKeeps
<1>6. CASE ledger[o0] = {} /\ ledger' = [ledger EXCEPT ![o0] = {"ASKED"}]
  <2>1. {"ASKED"} \in Record /\ ledger[o0] \subseteq {"ASKED"} /\ "ASKED" \in {"ASKED"}
    BY <1>6 DEF Record
  <2>2. IsRefund(o0) => ~("FAILED" \in {"ASKED"} /\ "SUCCEEDED" \in {"ASKED"})
    OBVIOUS
  <2>3. JobsFit'
    BY <1>3, <1>4, JobsKept
  <2> QED
    BY <1>1, <1>2, <1>4, <1>6, <2>1, <2>2, <2>3, LedgerMoveKeeps
<1> QED
  BY <1>1, <1>5, <1>6

\* An invocation writes the row of its operation, or finds that it must not.
LEMMA ReleaseKeeps ==
  ASSUME ChannelInv, NEW w0 \in Workers, NEW o0 \in Operation, ops[o0] # Nil,
         NEW st \in {"PENDING", "UNKNOWN"},
         Release(w0, o0, st) \/ UNCHANGED ops,
         UNCHANGED <<source, overdue, ledger, stored, applied, settled>>, faults' \in 0 .. MaxFaults,
         jobs' \in [Workers -> Job \cup {Nil}], Growth => JobFits(w0)',
         \A w \in Workers \ {w0} : jobs'[w] = jobs[w]
  PROVE  ChannelInv'
<1>1. CASE UNCHANGED ops
  <2>1. Growth
    BY <1>1 DEF Growth
  <2> QED
    BY <1>1, <2>1, JobsMoveKeeps
<1>2. CASE ops' = [ops EXCEPT ![o0] = [state |-> st, token |-> Nil, running |-> FALSE]]
  <2> DEFINE r == [state |-> st, token |-> Nil, running |-> FALSE]
  <2>1. r \in OpRow /\ ~r.running /\ r.state = st
    BY DEF OpRow
  <2>2. ops' = [ops EXCEPT ![o0] = r]
    BY <1>2
  <2>3. Growth => JobsFit'
    BY JobsKept
  <2> HIDE DEF r
  <2> QED
    BY <2>1, <2>2, <2>3, RowMoveKeeps
<1> QED
  BY <1>1, <1>2 DEF Release

LEMMA SaveKeeps ==
  ASSUME ChannelInv, NEW w0 \in Workers, Save(w0)
  PROVE  ChannelInv'
<1>0. PICK o0 \in Operation : o0 = jobs[w0].op
  BY DEF Save, AtStep, Running, ChannelInv, TypeOK, Job
<1>1. PICK st \in {"PENDING", "UNKNOWN"} : st = jobs[w0].answer
  BY DEF Save, AtStep, ChannelInv, JobsFit, JobFits
<1>2. /\ UNCHANGED <<source, overdue, ledger, stored, applied, settled>>
      /\ TypeOK /\ ops[o0] # Nil /\ Release(w0, o0, st) /\ Finish(w0) /\ faults' \in 0 .. MaxFaults
  BY <1>0, <1>1 DEF Save, AtStep, KeepBooks, KeepLedger, ChannelInv, JobsFit, JobFits, TypeOK
<1>3. /\ jobs' \in [Workers -> Job \cup {Nil}] /\ JobFits(w0)'
      /\ \A w \in Workers \ {w0} : jobs'[w] = jobs[w]
  BY <1>2, JobEnds
<1> QED
  BY <1>2, <1>3, ReleaseKeeps

LEMMA StatementFailsKeeps ==
  ASSUME ChannelInv, NEW w0 \in Workers, StatementFails(w0)
  PROVE  ChannelInv'
<1>0. PICK o0 \in Operation : o0 = jobs[w0].op
  BY DEF StatementFails, Running, ChannelInv, TypeOK, Job
<1>1. /\ UNCHANGED <<source, overdue, ledger, stored, applied, settled>>
      /\ Running(w0) /\ TypeOK /\ ops[o0] # Nil /\ JobFits(w0)
      /\ Release(w0, o0, "UNKNOWN") \/ UNCHANGED ops
      /\ GoTo(w0, "giveup") \/ Finish(w0)
  BY <1>0 DEF StatementFails, KeepBooks, KeepLedger, ChannelInv, JobsFit, JobFits
<1>2. faults' \in 0 .. MaxFaults
  <2>1. faults < MaxFaults /\ faults' = faults + 1 /\ faults \in 0 .. MaxFaults /\ MaxFaults \in Nat
    BY BoundsAssumption DEF StatementFails, ChannelInv, TypeOK
  <2> QED
    BY <2>1
<1>3. CASE Finish(w0)
  <2>1. /\ jobs' \in [Workers -> Job \cup {Nil}] /\ JobFits(w0)'
        /\ \A w \in Workers \ {w0} : jobs'[w] = jobs[w]
    BY <1>1, <1>3, JobEnds
  <2> QED
    BY <1>1, <1>2, <2>1, ReleaseKeeps
<1>4. CASE GoTo(w0, "giveup")
  <2>1. /\ jobs' \in [Workers -> Job \cup {Nil}]
        /\ jobs'[w0].step = "giveup" /\ jobs'[w0].op = jobs[w0].op /\ jobs'[w0].todo = jobs[w0].todo
        /\ \A w \in Workers \ {w0} : jobs'[w] = jobs[w]
    BY <1>1, <1>4, JobMoves DEF Steps
  <2>2. Growth => JobFits(w0)'
    BY <1>0, <1>1, <2>1 DEF JobFits, Growth
  <2> QED
    BY <1>1, <1>2, <2>1, <2>2, ReleaseKeeps
<1> QED
  BY <1>1, <1>3, <1>4

LEMMA GiveUpKeeps ==
  ASSUME ChannelInv, NEW w0 \in Workers, GiveUp(w0)
  PROVE  ChannelInv'
<1>0. PICK o0 \in Operation : o0 = jobs[w0].op
  BY DEF GiveUp, AtStep, Running, ChannelInv, TypeOK, Job
<1> DEFINE r == [state |-> GivenUpState(o0), token |-> Nil, running |-> FALSE]
<1>1. /\ UNCHANGED <<source, overdue, ledger, stored, applied, settled>>
      /\ TypeOK /\ ops[o0] # Nil /\ Finish(w0) /\ faults' \in 0 .. MaxFaults
      /\ ops' = [ops EXCEPT ![o0] = r]
  BY <1>0 DEF GiveUp, AtStep, KeepBooks, KeepLedger, ChannelInv, JobsFit, JobFits, TypeOK
<1>2. /\ jobs' \in [Workers -> Job \cup {Nil}] /\ JobFits(w0)'
      /\ \A w \in Workers \ {w0} : jobs'[w] = jobs[w]
  BY <1>1, JobEnds
<1>3. /\ r \in OpRow /\ ~r.running
      /\ r.state \in {"SUCCEEDED", "FAILED"} => r.state = ops[o0].state
  BY DEF OpRow, GivenUpState
<1>4. Growth => JobsFit'
  BY <1>2, JobsKept
<1> HIDE DEF r
<1> QED
  BY <1>1, <1>2, <1>3, <1>4, RowMoveKeeps

LEMMA CrashKeeps ==
  ASSUME ChannelInv, NEW w0 \in Workers, Crash(w0)
  PROVE  ChannelInv'
<1>1. /\ UNCHANGED <<source, overdue, ops, ledger, stored, applied, settled>>
      /\ TypeOK /\ Finish(w0)
  BY DEF Crash, KeepBooks, KeepRows, KeepLedger, ChannelInv
<1>2. faults' \in 0 .. MaxFaults
  <2>1. faults < MaxFaults /\ faults' = faults + 1 /\ faults \in 0 .. MaxFaults /\ MaxFaults \in Nat
    BY BoundsAssumption DEF Crash, ChannelInv, TypeOK
  <2> QED
    BY <2>1
<1> QED
  BY <1>1, <1>2, JobEnds, JobsMoveKeeps

(***************************************************************************)
(* Observations.                                                           *)
(***************************************************************************)
LEMMA RecordKeeps ==
  ASSUME ChannelInv, NEW w0 \in Workers, RecordObservation(w0)
  PROVE  ChannelInv'
<1>0. PICK e0 \in Event : e0 = jobs[w0].event
  BY DEF RecordObservation, AtStep, ChannelInv, JobsFit, JobFits
<1>1. /\ UNCHANGED <<source, overdue, ops, ledger, applied, settled, faults>>
      /\ Running(w0) /\ TypeOK /\ JobFits(w0) /\ Verified(e0)
      /\ stored' = stored \cup {e0} /\ GoTo(w0, "apply")
  BY <1>0 DEF RecordObservation, AtStep, KeepBooks, KeepLedger, ChannelInv, JobsFit, JobFits
<1>2. /\ jobs' \in [Workers -> Job \cup {Nil}]
      /\ jobs'[w0].step = "apply" /\ jobs'[w0].op = jobs[w0].op
      /\ jobs'[w0].todo = jobs[w0].todo /\ jobs'[w0].event = jobs[w0].event
      /\ \A w \in Workers \ {w0} : jobs'[w] = jobs[w]
  BY <1>1, JobMoves DEF Steps
<1>3. Growth
  BY <1>1 DEF Growth
<1>4. JobFits(w0)'
  BY <1>0, <1>1, <1>2 DEF JobFits, Verified
<1>5. JobsFit'
  BY <1>2, <1>3, <1>4, JobsKept
<1>6. TypeOK'
  BY <1>1, <1>2 DEF TypeOK
<1>7. ObservationsFit'
  BY <1>1 DEF ChannelInv, ObservationsFit, Verified, Told, Captured
<1> QED
  BY <1>1, <1>5, <1>6, <1>7 DEF ChannelInv, LedgerFits, SourcesFit, FinalStates, Reports, Captured,
       BooksFollowChannel, RefundedOnce, Latest, Newer, Missing, RefusedAsOld, Refused

LEMMA ReadKeeps ==
  ASSUME ChannelInv, NEW w0 \in Workers, ReadObservation(w0)
  PROVE  ChannelInv'
<1>0. PICK e0 \in Event : e0 = jobs[w0].event
  BY DEF ReadObservation, AtStep, ChannelInv, JobsFit, JobFits
<1>1. /\ UNCHANGED <<source, overdue, ops, ledger, stored, applied, settled, faults>>
      /\ Running(w0) /\ TypeOK /\ JobFits(w0) /\ jobs[w0].step = "apply" /\ faults' \in 0 .. MaxFaults
      /\ \/ GoTo(w0, "settle")
         \/ GoTo(w0, "mark") /\ (e0 \in applied \/ e0.status = "FAILED")
  BY <1>0 DEF ReadObservation, AtStep, KeepBooks, KeepRows, KeepLedger, ChannelInv, JobsFit, TypeOK
<1>2. PICK s0 \in {"settle", "mark"} : GoTo(w0, s0) /\ (s0 = "mark" => e0 \in applied \/ e0.status = "FAILED")
  BY <1>1
<1>3. /\ jobs' \in [Workers -> Job \cup {Nil}]
      /\ jobs'[w0].step = s0 /\ jobs'[w0].op = jobs[w0].op
      /\ jobs'[w0].todo = jobs[w0].todo /\ jobs'[w0].event = e0
      /\ \A w \in Workers \ {w0} : jobs'[w] = jobs[w]
  BY <1>0, <1>1, <1>2, JobMoves DEF Steps
<1>4. s0 = "mark" => Told(e0)
  BY <1>2 DEF ChannelInv, ObservationsFit, Told
<1>5. JobFits(w0)'
  BY <1>0, <1>1, <1>3, <1>4 DEF JobFits, Verified, Told, Captured
<1> QED
  BY <1>1, <1>3, <1>5, JobsMoveKeeps

\* What a transaction of the books makes of an event it has not seen.
LEMMA Settled ==
  ASSUME ChannelInv, NEW e0 \in Event, Verified(e0)
  PROVE  LET s0 == e0.op.source IN
         /\ StatusAfter(e0) \in {"PENDING", "REQUESTED", "SUCCEEDED", "FAILED", "CLOSED", "REFUND_REQUIRED"}
         /\ Captured(s0) => StatusAfter(e0) = source[s0]
         /\ e0.status = "SUCCEEDED" => StatusAfter(e0) \in {"SUCCEEDED", "REFUND_REQUIRED"}
         /\ e0.status = "FAILED" /\ StatusAfter(e0) # source[s0] => StatusAfter(e0) \in {"FAILED", "CLOSED"}
         /\ StatusAfter(e0) = "REFUND_REQUIRED" => s0 \in OrderPayments
         /\ StatusAfter(e0) = "FAILED" /\ source[s0] # "FAILED" =>
              e0.status = "FAILED" /\ (IsRefund(e0.op) => Newer(e0.op) = {})
<1> DEFINE s0 == e0.op.source
<1>1. /\ e0.op \in Operation /\ s0 \in Sources /\ e0.status \in {"SUCCEEDED", "FAILED"}
      /\ source[s0] \in {"PENDING", "REQUESTED", "SUCCEEDED", "FAILED", "CLOSED", "REFUND_REQUIRED"}
      /\ source[s0] = "REFUND_REQUIRED" => s0 \in OrderPayments
  BY Operations DEF ChannelInv, TypeOK, SourcesFit, Missing, RefusedAsOld
<1>2. CASE s0 \in OrderPayments
  <2>1. StatusAfter(e0) = PaymentStatusAfter(e0)
    BY <1>2 DEF StatusAfter
  <2>2. ~IsRefund(e0.op)
    BY <1>2, SourcesAssumption DEF IsRefund, Payments
  <2> DEFINE waits == source[s0] = "PENDING" /\ s0 \notin overdue
  <2>3. CASE e0.status = "SUCCEEDED"
    <3>1. /\ source[s0] = "SUCCEEDED" \/ waits => PaymentStatusAfter(e0) = "SUCCEEDED"
          /\ source[s0] # "SUCCEEDED" /\ ~waits => PaymentStatusAfter(e0) = "REFUND_REQUIRED"
      BY <2>3 DEF PaymentStatusAfter
    <3> QED
      BY <1>1, <1>2, <2>1, <2>3, <3>1 DEF Captured
  <2>4. CASE e0.status = "FAILED"
    <3>1. /\ source[s0] = "PENDING" => PaymentStatusAfter(e0) \in {"FAILED", "CLOSED"}
          /\ source[s0] # "PENDING" => PaymentStatusAfter(e0) = source[s0]
      BY <2>4 DEF PaymentStatusAfter
    <3> QED
      BY <1>1, <1>2, <2>1, <2>2, <2>4, <3>1 DEF Captured
  <2> QED
    BY <1>1, <2>3, <2>4
<1>3. CASE s0 \notin OrderPayments
  <2>1. /\ e0.status = "SUCCEEDED" => StatusAfter(e0) = "SUCCEEDED"
        /\ e0.status = "FAILED" /\ source[s0] # "SUCCEEDED" /\ (IsRefund(e0.op) => Newer(e0.op) = {}) =>
             StatusAfter(e0) = "FAILED"
        /\ e0.status = "FAILED" /\ ~(source[s0] # "SUCCEEDED" /\ (IsRefund(e0.op) => Newer(e0.op) = {})) =>
             StatusAfter(e0) = source[s0]
    BY <1>1, <1>3 DEF StatusAfter
  <2> QED
    BY <1>1, <1>3, <2>1 DEF Captured
<1> QED
  BY <1>2, <1>3

LEMMA SettleKeeps ==
  ASSUME ChannelInv, NEW w0 \in Workers, Settle(w0)
  PROVE  ChannelInv'
<1>0. PICK e0 \in Event : e0 = jobs[w0].event
  BY DEF Settle, AtStep, ChannelInv, JobsFit, JobFits
<1>00. PICK s0 \in Sources : s0 = e0.op.source
  BY Operations
<1>1. /\ UNCHANGED <<overdue, ops, ledger, stored, applied, faults>>
      /\ Running(w0) /\ TypeOK /\ JobFits(w0) /\ e0 \in stored /\ Verified(e0)
      /\ settled' = settled \cup {e0} /\ GoTo(w0, "mark")
      /\ source' = IF e0 \in settled THEN source ELSE [source EXCEPT ![s0] = StatusAfter(e0)]
  BY <1>0, <1>00 DEF Settle, AtStep, KeepRows, KeepLedger, ChannelInv, JobsFit, JobFits
<1> DEFINE after == source'[s0]
<1>2. /\ source' \in [Sources -> {"PENDING", "REQUESTED", "SUCCEEDED", "FAILED",
                                  "CLOSED", "REFUND_REQUIRED"}]
      /\ \A s \in Sources \ {s0} : source'[s] = source[s]
      /\ after = source[s0] \/ (after = StatusAfter(e0) /\ e0 \notin settled)
      /\ e0 \notin settled => after = StatusAfter(e0)
  BY <1>00, <1>1, Settled DEF TypeOK
<1>3. Captured(s0) => after = source[s0]
  BY <1>00, <1>1, <1>2, Settled
<1>4. Told(e0)'
  <2>1. CASE e0 \in settled
    <3>1. Told(e0)
      BY <2>1 DEF ChannelInv, ObservationsFit
    <3> QED
      BY <1>00, <1>1, <2>1, <3>1 DEF Told, Captured
  <2>2. CASE e0 \notin settled
    BY <1>00, <1>1, <1>2, <2>2, Settled DEF Told, Captured
  <2> QED
    BY <2>1, <2>2
<1>5. \A s \in Sources : Captured(s) => source'[s] = source[s] /\ Captured(s)'
  BY <1>2, <1>3 DEF Captured
<1>6. Growth
  BY <1>1, <1>5 DEF Growth
<1>7. /\ jobs' \in [Workers -> Job \cup {Nil}]
      /\ jobs'[w0].step = "mark" /\ jobs'[w0].op = jobs[w0].op
      /\ jobs'[w0].todo = jobs[w0].todo /\ jobs'[w0].event = e0
      /\ \A w \in Workers \ {w0} : jobs'[w] = jobs[w]
  BY <1>0, <1>1, JobMoves DEF Steps
<1>8. JobFits(w0)'
  BY <1>1, <1>4, <1>7 DEF JobFits, Verified, Told
<1>9. JobsFit'
  BY <1>6, <1>7, <1>8, JobsKept
<1>10. TypeOK'
  BY <1>1, <1>2, <1>7 DEF TypeOK
<1>11. SourcesFit'
  <2>1. \A s \in Sources : source'[s] = "REFUND_REQUIRED" => s \in OrderPayments
    BY <1>00, <1>1, <1>2, Settled DEF ChannelInv, SourcesFit
  <2>2. ASSUME NEW o \in Operation, Missing(o), source'[o.source] = "FAILED"
        PROVE  RefusedAsOld(o)
    <3>1. CASE o.source = s0
      <4>1. e0.op \in Operation /\ ops[e0.op] # Nil /\ (e0.op.generation = 1 \/ 1 < e0.op.generation)
        BY <1>1, Operations, BoundsAssumption DEF Verified, Operation
      <4>2. ops[o] # Nil
        BY <1>00, <1>1, <2>2, <3>1, <4>1, Operations DEF Missing, TypeOK
      <4> QED
        BY <2>2, <4>2 DEF Missing
    <3>2. CASE o.source # s0
      BY <1>2, <2>2, <3>2, Operations DEF ChannelInv, SourcesFit
    <3> QED
      BY <3>1, <3>2
  <2> QED
    BY <1>1, <2>1, <2>2 DEF SourcesFit, Missing, RefusedAsOld
<1>12. ObservationsFit'
  <2>1. \A e \in stored : Verified(e)'
    BY <1>1 DEF ChannelInv, ObservationsFit, Verified
  <2>2. \A e \in settled \cup applied : Told(e)'
    BY <1>1, <1>5, Operations DEF ChannelInv, ObservationsFit, Told, TypeOK
  <2> QED
    BY <1>1, <1>4, <2>1, <2>2 DEF ObservationsFit
<1>13. LedgerFits' /\ RefundedOnce'
  BY <1>1 DEF ChannelInv, LedgerFits, RefundedOnce
<1>14. FinalStates'
  BY <1>1, <1>5, Operations DEF ChannelInv, FinalStates, Reports, Refused, RefusedAsOld
<1>15. BooksFollowChannel'
  <2>1. \A o \in Operation : Latest(o)' <=> Latest(o)
    BY <1>1 DEF Latest, Newer
  <2>2. ASSUME Captured(s0)', ~Captured(s0)
        PROVE  \E o \in Operation : o.source = s0 /\ Reports(o, "SUCCEEDED")
    <3>1. after = StatusAfter(e0) /\ after # source[s0] /\ after \in {"SUCCEEDED", "REFUND_REQUIRED"}
      BY <1>2, <2>2 DEF Captured
    <3>2. e0.status = "SUCCEEDED"
      BY <1>00, <1>1, <3>1, Settled, Operations
    <3> QED
      BY <1>00, <1>1, <3>2, Operations DEF Verified, Reports
  <2>3. ASSUME after = "FAILED", source[s0] # "FAILED", NEW o \in Operation, o.source = s0, Latest(o)
        PROVE  Reports(o, "FAILED")
    <3>1. e0.status = "FAILED" /\ (IsRefund(e0.op) => Newer(e0.op) = {})
      BY <1>00, <1>1, <1>2, <2>3, Settled
    <3>2. o = e0.op
      <4>1. CASE ~IsRefund(o)
        <5>1. ~IsRefund(e0.op) /\ e0.op \in Operation
          BY <1>00, <2>3, <4>1, Operations DEF IsRefund
        <5> QED
          BY <1>00, <2>3, <4>1, <5>1, Operations
      <4>2. CASE IsRefund(o)
        <5>1. IsRefund(e0.op) /\ e0.op \in Operation /\ ops[e0.op] # Nil
          BY <1>00, <1>1, <2>3, <4>2, Operations DEF IsRefund, Verified
        <5>2. ~(o.generation < e0.op.generation) /\ ~(e0.op.generation < o.generation)
          BY <1>00, <2>3, <3>1, <5>1 DEF Latest, Newer
        <5> QED
          BY <1>00, <2>3, <5>1, <5>2, Operations
      <4> QED
        BY <4>1, <4>2
    <3> QED
      BY <1>1, <3>1, <3>2 DEF Verified, Reports
  <2>4. \A o \in Operation : \A st \in {"SUCCEEDED", "FAILED"} : Reports(o, st)' <=> Reports(o, st)
    BY <1>1 DEF Reports
  <2>5. ASSUME NEW s \in Sources
        PROVE  /\ Captured(s)' => \E o \in Operation : o.source = s /\ Reports(o, "SUCCEEDED")
               /\ source'[s] = "FAILED" =>
                    \A o \in Operation : o.source = s /\ Latest(o) => Refused(o)
    <3>1. CASE source'[s] = source[s]
      BY <3>1 DEF ChannelInv, BooksFollowChannel, Captured
    <3>2. CASE source'[s] # source[s]
      <4>1. s = s0 /\ ~Captured(s0)
        BY <1>2, <1>5, <3>2
      <4> QED
        BY <2>2, <2>3, <3>2, <4>1 DEF Refused
    <3> QED
      BY <3>1, <3>2
  <2> QED
    BY <2>1, <2>4, <2>5 DEF BooksFollowChannel, Refused, RefusedAsOld, Reports
<1> QED
  BY <1>9, <1>10, <1>11, <1>12, <1>13, <1>14, <1>15 DEF ChannelInv

LEMMA MarkKeeps ==
  ASSUME ChannelInv, NEW w0 \in Workers, Mark(w0)
  PROVE  ChannelInv'
<1>0. PICK e0 \in Event : e0 = jobs[w0].event
  BY DEF Mark, AtStep, ChannelInv, JobsFit, JobFits
<1>00. PICK o0 \in Operation : o0 = e0.op
  BY Operations
<1> DEFINE r == [state |-> MarkedState(e0), token |-> Nil, running |-> FALSE]
<1>1. /\ UNCHANGED <<source, overdue, ledger, stored, settled, faults>>
      /\ Running(w0) /\ TypeOK /\ JobFits(w0) /\ jobs[w0] \in Job
      /\ e0 \in stored /\ Verified(e0) /\ Told(e0) /\ ops[o0] # Nil
      /\ applied' = applied \cup {e0} /\ ops' = [ops EXCEPT ![o0] = r]
      /\ Finish(w0) \/ jobs' = [jobs EXCEPT ![w0].step = "replay", ![w0].event = Nil]
  BY <1>0, <1>00 DEF Mark, AtStep, Running, KeepBooks, KeepLedger, ChannelInv, JobsFit, JobFits, TypeOK, Verified
<1>2. /\ r \in OpRow /\ ~r.running /\ r.state \in {"SUCCEEDED", "FAILED"}
      /\ r.state = "SUCCEEDED" => ops[o0].state = "SUCCEEDED" \/ e0.status = "SUCCEEDED"
      /\ r.state = "FAILED" => e0.status = "FAILED"
  BY <1>00, Operations DEF OpRow, MarkedState
<1> HIDE DEF r
<1>3. /\ ops' \in [Operation -> OpRow \cup {Nil}]
      /\ \A o \in Operation : ops'[o] # Nil /\ ops'[o].running => ops'[o].token # Nil
      /\ \A o \in Operation : ops'[o] # Nil <=> ops[o] # Nil
      /\ ops'[o0] = r
      /\ \A o \in Operation \ {o0} : ops'[o] = ops[o]
  BY <1>1, <1>2, RowWritten
<1>4. Growth
  BY <1>1, <1>3 DEF Growth
<1>5. jobs' \in [Workers -> Job \cup {Nil}] /\ JobFits(w0)' /\ \A w \in Workers \ {w0} : jobs'[w] = jobs[w]
  <2>1. CASE Finish(w0)
    BY <1>1, <2>1, JobEnds
  <2>2. CASE jobs' = [jobs EXCEPT ![w0].step = "replay", ![w0].event = Nil]
    <3> DEFINE j == [jobs[w0] EXCEPT !.step = "replay", !.event = Nil]
    <3>1. j \in Job /\ j.step = "replay" /\ j.op = jobs[w0].op /\ j.todo = jobs[w0].todo
      BY <1>1 DEF Job, Steps
    <3>2. jobs' = [jobs EXCEPT ![w0] = j]
      BY <1>1, <2>2 DEF TypeOK, Job
    <3> HIDE DEF j
    <3>3. /\ jobs' \in [Workers -> Job \cup {Nil}]
          /\ jobs'[w0] = j /\ \A w \in Workers \ {w0} : jobs'[w] = jobs[w]
      BY <1>1, <3>1, <3>2, JobGiven
    <3>4. jobs[w0].op \in Operation
      BY <1>1 DEF Job
    <3>5. JobFits(w0)'
      BY <1>1, <1>3, <3>1, <3>3, <3>4 DEF JobFits
    <3> QED
      BY <3>3, <3>5
  <2> QED
    BY <1>1, <2>1, <2>2
<1>6. JobsFit'
  BY <1>4, <1>5, JobsKept
<1>7. TypeOK'
  BY <1>1, <1>3, <1>5 DEF TypeOK
<1>8. LedgerFits' /\ SourcesFit' /\ RefundedOnce'
  BY <1>1, <1>3 DEF ChannelInv, LedgerFits, SourcesFit, RefundedOnce, Missing, RefusedAsOld
<1>9. ObservationsFit'
  <2>1. \A e \in stored : Verified(e)'
    BY <1>1, <1>3, Operations DEF ChannelInv, ObservationsFit, Verified, TypeOK
  <2>2. \A e \in settled \cup applied : Told(e)'
    BY <1>1 DEF ChannelInv, ObservationsFit, Told, Captured
  <2>3. Told(e0)'
    BY <1>1 DEF Told, Captured
  <2> QED
    BY <1>1, <2>1, <2>2, <2>3 DEF ObservationsFit
<1>10. FinalStates'
  <2>1. r.state = "SUCCEEDED" => Reports(o0, "SUCCEEDED") /\ Captured(o0.source)
    BY <1>00, <1>1, <1>2 DEF ChannelInv, FinalStates, Verified, Told, Reports, Refused, RefusedAsOld
  <2>2. r.state = "FAILED" => Reports(o0, "FAILED")
    BY <1>00, <1>1, <1>2 DEF Verified, Reports
  <2> QED
    BY <1>1, <1>3, <2>1, <2>2 DEF ChannelInv, FinalStates, Reports, Refused, Captured, RefusedAsOld
<1>11. BooksFollowChannel'
  <2>1. \A o \in Operation : Latest(o)' <=> Latest(o)
    BY <1>3 DEF Latest, Newer
  <2> QED
    BY <1>1, <2>1 DEF ChannelInv, BooksFollowChannel, Captured, Reports, Refused, RefusedAsOld
<1> QED
  BY <1>6, <1>7, <1>8, <1>9, <1>10, <1>11 DEF ChannelInv

LEMMA ContinueKeeps ==
  ASSUME ChannelInv, NEW w0 \in Workers, Continue(w0) \/ Disturb(w0)
  PROVE  ChannelInv'
BY ReplayKeeps, ClaimKeeps, CheckKeeps, CreateKeeps, QueryKeeps, RecheckKeeps, SaveKeeps, RecordKeeps,
   ReadKeeps, SettleKeeps, MarkKeeps, GiveUpKeeps, AnswerLostKeeps, StatementFailsKeeps, CrashKeeps
   DEF Continue, Disturb

(***************************************************************************)
(* The invariant.                                                          *)
(***************************************************************************)
LEMMA ChannelStep ==
  ASSUME ChannelInv, [Next]_vars
  PROVE  ChannelInv'
<1>1. CASE UNCHANGED vars
  BY <1>1 DEF vars, ChannelInv, TypeOK, LedgerFits, SourcesFit, ObservationsFit, Verified,
       Told, Captured, JobsFit, JobFits, Running, FinalStates, Reports, BooksFollowChannel, RefundedOnce, Latest, Newer, Missing, RefusedAsOld, Refused
<1> QED
  BY <1>1, SurroundingsKeep, StartKeeps, ContinueKeeps DEF Next

LEMMA ChannelInit ==
  ASSUME Init
  PROVE  ChannelInv
<1>1. Fresh \in OpRow /\ ~Fresh.running /\ Fresh.state = "READY"
  BY DEF OpRow, Fresh
<1>2. \A o \in Operation :
        /\ ops[o] = IF o.generation = 1 /\ o.source \notin OldSources THEN Fresh ELSE Nil
        /\ ledger[o] = {}
  BY DEF Init
<1>3. \A o \in Operation : ops[o] # Nil =>
        o.generation = 1 /\ ~ops[o].running /\ ops[o].state = "READY"
  BY <1>1, <1>2
<1>4. \A o \in Operation : o.generation \in Nat \ {0}
  BY BoundsAssumption DEF Operation
<1>5. \A n, o \in Operation : ~(ops[n] # Nil /\ o.generation < n.generation)
  BY <1>3, <1>4
<1>6. \A s \in Sources : /\ source[s] \in {"PENDING", "REQUESTED", "FAILED"}
                          /\ source[s] = "FAILED" => s \in RefusedBefore
  BY DEF Init
<1>7. TypeOK
  <2>1. ops \in [Operation -> OpRow \cup {Nil}]
    BY <1>1 DEF Init
  <2>2. ledger \in [Operation -> Record]
    BY DEF Init, Record
  <2>3. faults \in 0 .. MaxFaults
    BY BoundsAssumption DEF Init
  <2>4. source \in [Sources -> {"PENDING", "REQUESTED", "SUCCEEDED", "FAILED", "CLOSED", "REFUND_REQUIRED"}]
    BY DEF Init
  <2> QED
    BY <1>3, <1>5, <2>1, <2>2, <2>3, <2>4 DEF Init, TypeOK
<1>8. LedgerFits /\ SourcesFit
  <2>1. LedgerFits
    BY <1>2 DEF LedgerFits
  <2>2. \A s \in Sources : source[s] # "REFUND_REQUIRED"
    BY DEF Init
  <2>3. \A o \in Operation : Missing(o) /\ source[o.source] = "FAILED" => RefusedAsOld(o)
    BY <1>6, Operations DEF Missing, RefusedAsOld
  <2> QED
    BY <2>1, <2>2, <2>3 DEF SourcesFit
<1>9. ObservationsFit /\ JobsFit
  BY DEF Init, ObservationsFit, JobsFit, JobFits, Running
<1>10. FinalStates /\ RefundedOnce
  BY <1>3, <1>5 DEF FinalStates, RefundedOnce, Refused, RefusedAsOld, Reports
<1>11. BooksFollowChannel
  <2>1. ASSUME NEW o \in Operation, Latest(o), source[o.source] = "FAILED"
        PROVE  Refused(o)
    BY <1>3, <1>6, <2>1, Operations DEF Latest, Refused, RefusedAsOld
  <2> QED
    <3>1. \A s \in Sources : ~Captured(s)
      BY DEF Init, Captured
    <3> QED
      BY <2>1, <3>1 DEF BooksFollowChannel
<1> QED
  BY <1>7, <1>8, <1>9, <1>10, <1>11 DEF ChannelInv

\* The inductive invariant holds of every behaviour.
THEOREM ChannelIsCorrect == Spec => []ChannelInv
<1>1. Init => ChannelInv
  BY ChannelInit
<1>2. ChannelInv /\ [Next]_vars => ChannelInv'
  BY ChannelStep
<1> QED
  BY <1>1, <1>2, PTL DEF Spec

\* applyStoredObservation: an operation is final only by a result of the channel,
\* and succeeded only once the books have the money.
THEOREM FinalStatesComeFromTheChannel == Spec => []FinalStatesAreVerified
<1>1. ChannelInv => FinalStatesAreVerified
  BY DEF ChannelInv, FinalStatesAreVerified, FinalStates, Refused, RefusedAsOld, Reports
<1> QED
  BY <1>1, ChannelIsCorrect, PTL

\* settleVerifiedPayment, settleVerifiedTopup, settleVerifiedRefund: the books record
\* money that the channel moved, and failures of the latest attempt only.
THEOREM BooksAreTheChannels == Spec => []BooksFollowChannel
<1>1. ChannelInv => BooksFollowChannel
  BY DEF ChannelInv
<1> QED
  BY <1>1, ChannelIsCorrect, PTL

\* retryRefundChannel, its branch for legacy failures included: an attempt that has a
\* successor was refused for good, save the first attempt at a refund that had failed
\* before PMS kept operations.
THEOREM RefundsArePaidOnce == Spec => []RefundedOnce
<1>1. ChannelInv => RefundedOnce
  BY DEF ChannelInv
<1> QED
  BY <1>1, ChannelIsCorrect, PTL

(***************************************************************************)
(* What a step does to a row and to the books.                             *)
(***************************************************************************)
\* Worker w loses the lease of o in a way the code provides for.
MayLose(o, w) ==
  \/ ~ops[o].running
  \/ ops'[o].state \in {"SUCCEEDED", "FAILED"}
  \/ Running(w) /\ jobs[w].op = o /\ jobs'[w] # jobs[w]
  \/ \E x \in Workers : AtStep(x, "giveup") /\ jobs[x].op = o

RowKept(o) ==
  ops[o] # Nil =>
    /\ ops[o].state = "SUCCEEDED" => ops'[o].state = "SUCCEEDED"
    /\ \A w \in Workers : ops[o].token = w /\ ops'[o].token # w => MayLose(o, w)

LEMMA RowsStay ==
  ASSUME UNCHANGED ops
  PROVE  \A o \in Operation : RowKept(o)
BY DEF RowKept

LEMMA OneRow ==
  ASSUME ChannelInv, NEW o0 \in Operation, NEW r, ops' = [ops EXCEPT ![o0] = r],
         ops[o0] # Nil /\ ops[o0].state = "SUCCEEDED" => r.state = "SUCCEEDED",
         ops[o0] # Nil => \A w \in Workers : ops[o0].token = w /\ r.token # w => MayLose(o0, w)
  PROVE  \A o \in Operation : RowKept(o)
<1>1. ops'[o0] = r /\ \A o \in Operation \ {o0} : ops'[o] = ops[o]
  BY DEF ChannelInv, TypeOK
<1> QED
  BY <1>1 DEF RowKept

\* The worker itself gives the row back.
LEMMA ReleaseRow ==
  ASSUME ChannelInv, NEW w0 \in Workers, Running(w0), NEW o0 \in Operation, o0 = jobs[w0].op,
         NEW st, Release(w0, o0, st), jobs'[w0] # jobs[w0]
  PROVE  \A o \in Operation : RowKept(o)
<1>1. CASE UNCHANGED ops
  BY <1>1, RowsStay
<1>2. CASE Holds(w0, o0) /\ ops' = [ops EXCEPT ![o0] = [state |-> st, token |-> Nil, running |-> FALSE]]
  <2>1. ops[o0].state # "SUCCEEDED" /\ \A w \in Workers : ops[o0].token = w => MayLose(o0, w)
    BY <1>2 DEF Holds, MayLose
  <2> QED
    BY <1>2, <2>1, OneRow
<1> QED
  BY <1>1, <1>2 DEF Release

LEMMA RowStep ==
  ASSUME ChannelInv, [Next]_vars
  PROVE  \A o \in Operation : RowKept(o)
<1>0. /\ TypeOK
      /\ \A w \in Workers : Running(w) => jobs[w] \in Job /\ jobs[w].op \in Operation /\ ops[jobs[w].op] # Nil
      /\ \A w \in Workers : Finish(w) => jobs'[w] = Nil
  BY DEF ChannelInv, TypeOK, JobsFit, JobFits, Running, Job, Finish
<1>1. CASE UNCHANGED vars
  BY <1>1, RowsStay DEF vars
<1>2. CASE Surroundings
  <2>1. ASSUME NEW s \in Payments, ExpiryPasses(s) \/ CloseOrderPayment(s)
        PROVE  UNCHANGED ops
    BY <2>1 DEF ExpiryPasses, CloseOrderPayment, KeepRows
  <2>2. ASSUME NEW o0 \in Operation, LeaseLapses(o0)
        PROVE  \A o \in Operation : RowKept(o)
    <3> DEFINE r == [ops[o0] EXCEPT !.running = FALSE]
    <3>1. ops[o0] \in OpRow /\ ops' = [ops EXCEPT ![o0].running = FALSE]
      BY <1>0, <2>2 DEF TypeOK, LeaseLapses
    <3>2. r.state = ops[o0].state /\ r.token = ops[o0].token /\ ops' = [ops EXCEPT ![o0] = r]
      BY <1>0, <3>1 DEF OpRow, TypeOK
    <3> HIDE DEF r
    <3> QED
      BY <3>2, OneRow
  <2>3. ASSUME NEW o0 \in Operation, RetryRefund(o0)
        PROVE  \A o \in Operation : RowKept(o)
    <3> DEFINE n0 == [o0 EXCEPT !.generation = @ + 1]
               q  == [Row(o0) EXCEPT !.state = "FAILED"]
    <3>1. /\ IsRefund(o0) /\ o0.generation < MaxGeneration /\ (Latest(o0) \/ Missing(o0))
          /\ source[o0.source] = "FAILED"
          /\ ops' = [ops EXCEPT ![o0] = q, ![n0] = Fresh]
      BY <2>3 DEF RetryRefund, Retryable
    <3>2. n0 \in Operation /\ n0.source = o0.source /\ n0.generation = o0.generation + 1
          /\ o0.generation \in Nat /\ n0 # o0
      <4>1. /\ n0 \in Operation /\ n0.source = o0.source /\ n0.generation = o0.generation + 1
            /\ o0.generation \in Nat
        BY <3>1, Operations, BoundsAssumption, SourcesAssumption DEF Operation, IsRefund
      <4> HIDE DEF n0
      <4> QED
        BY <4>1
    <3>3. ops[o0] # Nil => ops[o0].state # "SUCCEEDED" /\ q.token = ops[o0].token
      <4>1. ops[o0] # Nil => ops[o0] \in OpRow /\ Row(o0) = ops[o0]
        BY <1>0 DEF TypeOK, Row
      <4>2. ops[o0] # Nil => ops[o0].state # "SUCCEEDED"
        BY <3>1 DEF ChannelInv, FinalStates, Captured
      <4> QED
        BY <4>1, <4>2 DEF OpRow
    <3> HIDE DEF n0, q
    <3>4. ops[n0] = Nil
      BY <1>0, <3>1, <3>2 DEF Latest, Newer, Missing, TypeOK
    <3>5. ops'[o0] = q /\ \A o \in Operation \ {o0, n0} : ops'[o] = ops[o]
      BY <1>0, <3>1, <3>2 DEF TypeOK
    <3> QED
      BY <3>3, <3>4, <3>5 DEF RowKept
  <2>5. ASSUME NEW o0 \in Operation, Enqueue(o0)
        PROVE  \A o \in Operation : RowKept(o)
    BY <2>5, OneRow DEF Enqueue, Missing
  <2>4. ASSUME NEW o0 \in Operation, NEW status \in {"SUCCEEDED", "FAILED"}, ChannelDecides(o0, status)
        PROVE  UNCHANGED ops
    BY <2>4 DEF ChannelDecides, KeepRows
  <2> QED
    BY <1>2, <2>1, <2>2, <2>3, <2>4, <2>5, RowsStay DEF Surroundings
<1>3. ASSUME NEW w0 \in Workers, Start(w0)
      PROVE  UNCHANGED ops
  BY <1>3 DEF Start, ProcessDue, ReconcilePaymentChannel, Begin, AcceptPaymentNotification,
     SimulatePaymentChannel, KeepRows
<1>4. ASSUME NEW w0 \in Workers, Claim(w0)
      PROVE  \A o \in Operation : RowKept(o)
  <2>1. PICK o0 \in Operation : o0 = jobs[w0].op /\ ops[o0] # Nil
    BY <1>0, <1>4 DEF Claim, AtStep
  <2>2. CASE UNCHANGED ops
    BY <2>2, RowsStay
  <2>3. CASE Claimable(o0) /\ ops' = [ops EXCEPT ![o0] = [state |-> "IN_FLIGHT", token |-> w0, running |-> TRUE]]
    <3>1. ops[o0].state # "SUCCEEDED" /\ \A w \in Workers : ops[o0].token = w => MayLose(o0, w)
      BY <2>3, NilAssumption DEF Claimable, Leased, MayLose
    <3> QED
      BY <2>3, <3>1, OneRow
  <2> QED
    BY <1>4, <2>1, <2>2, <2>3 DEF Claim
<1>5. ASSUME NEW w0 \in Workers,
             \/ \E e \in Event : ReplayNext(w0, e)
             \/ Check(w0) \/ Create(w0) \/ Query(w0) \/ Recheck(w0) \/ RecordObservation(w0)
             \/ ReadObservation(w0) \/ Settle(w0) \/ AnswerLost(w0) \/ Crash(w0)
      PROVE  UNCHANGED ops
  BY <1>5 DEF ReplayNext, Check, Create, Query, Recheck, RecordObservation, ReadObservation, Settle,
     AnswerLost, Crash, KeepRows
<1>6. ASSUME NEW w0 \in Workers, Save(w0)
      PROVE  \A o \in Operation : RowKept(o)
  <2>1. PICK o0 \in Operation : o0 = jobs[w0].op
    BY <1>0, <1>6 DEF Save, AtStep
  <2>2. Running(w0) /\ Release(w0, o0, jobs[w0].answer) /\ jobs'[w0] # jobs[w0]
    BY <1>0, <1>6, <2>1 DEF Save, AtStep, Running
  <2> QED
    BY <2>1, <2>2, ReleaseRow
<1>7. ASSUME NEW w0 \in Workers, StatementFails(w0)
      PROVE  \A o \in Operation : RowKept(o)
  <2>1. PICK o0 \in Operation : o0 = jobs[w0].op
    BY <1>0, <1>7 DEF StatementFails
  <2>2. Running(w0) /\ (Release(w0, o0, "UNKNOWN") \/ UNCHANGED ops)
    BY <1>7, <2>1 DEF StatementFails
  <2>3. jobs'[w0] # jobs[w0]
    <3>1. CASE Finish(w0)
      BY <1>0, <2>2, <3>1 DEF Running
    <3>2. CASE GoTo(w0, "giveup")
      <4>1. jobs'[w0].step = "giveup" /\ jobs[w0].step # "giveup"
        BY <1>0, <1>7, <2>2, <3>2, JobMoves DEF Steps, StatementFails
      <4> QED
        BY <4>1
    <3> QED
      BY <1>7, <3>1, <3>2 DEF StatementFails
  <2> QED
    BY <2>1, <2>2, <2>3, ReleaseRow, RowsStay
<1>8. ASSUME NEW w0 \in Workers, GiveUp(w0)
      PROVE  \A o \in Operation : RowKept(o)
  <2>1. PICK o0 \in Operation : o0 = jobs[w0].op
    BY <1>0, <1>8 DEF GiveUp, AtStep
  <2> DEFINE r == [state |-> GivenUpState(o0), token |-> Nil, running |-> FALSE]
  <2>2. ops' = [ops EXCEPT ![o0] = r]
    BY <1>8, <2>1 DEF GiveUp
  <2>3. ops[o0].state = "SUCCEEDED" => r.state = "SUCCEEDED"
    BY DEF GivenUpState
  <2>4. \A w \in Workers : MayLose(o0, w)
    BY <1>8, <2>1 DEF GiveUp, MayLose
  <2> HIDE DEF r
  <2> QED
    BY <2>2, <2>3, <2>4, OneRow
<1>9. ASSUME NEW w0 \in Workers, Mark(w0)
      PROVE  \A o \in Operation : RowKept(o)
  <2>1. PICK e0 \in Event : e0 = jobs[w0].event
    BY <1>9 DEF Mark, AtStep, ChannelInv, JobsFit, JobFits
  <2>2. PICK o0 \in Operation : o0 = e0.op
    BY Operations
  <2> DEFINE r == [state |-> MarkedState(e0), token |-> Nil, running |-> FALSE]
  <2>3. ops' = [ops EXCEPT ![o0] = r] /\ ops'[o0] = r
    BY <1>0, <1>9, <2>1, <2>2 DEF Mark, TypeOK
  <2>4. /\ ops[o0].state = "SUCCEEDED" => r.state = "SUCCEEDED"
        /\ r.state \in {"SUCCEEDED", "FAILED"}
    BY <2>2 DEF MarkedState
  <2> HIDE DEF r
  <2>5. \A w \in Workers : MayLose(o0, w)
    BY <2>3, <2>4 DEF MayLose
  <2> QED
    BY <2>3, <2>4, <2>5, OneRow
<1> QED
  BY <1>1, <1>2, <1>3, <1>4, <1>5, <1>6, <1>7, <1>8, <1>9, RowsStay DEF Next, Continue, Disturb

LEMMA SourceStep ==
  ASSUME ChannelInv, [Next]_vars, NEW s \in Sources, Captured(s)
  PROVE  source'[s] = source[s]
<1>0. source \in [Sources -> {"PENDING", "REQUESTED", "SUCCEEDED", "FAILED", "CLOSED", "REFUND_REQUIRED"}]
  BY DEF ChannelInv, TypeOK
<1>1. CASE UNCHANGED vars
  BY <1>1 DEF vars
<1>2. CASE Surroundings
  <2>1. ASSUME NEW p \in Payments, ExpiryPasses(p) \/ CloseOrderPayment(p)
        PROVE  source'[s] = source[s]
    BY <1>0, <2>1 DEF ExpiryPasses, CloseOrderPayment, Captured
  <2>2. ASSUME NEW o0 \in Operation, RetryRefund(o0)
        PROVE  source'[s] = source[s]
    BY <1>0, <2>2 DEF RetryRefund, Retryable, Captured
  <2>3. ASSUME NEW o0 \in Operation,
               LeaseLapses(o0) \/ Enqueue(o0) \/ \E status \in {"SUCCEEDED", "FAILED"} : ChannelDecides(o0, status)
        PROVE  source'[s] = source[s]
    BY <2>3 DEF LeaseLapses, Enqueue, ChannelDecides, KeepBooks
  <2> QED
    BY <1>2, <2>1, <2>2, <2>3 DEF Surroundings
<1>3. ASSUME NEW w0 \in Workers, Start(w0)
      PROVE  source'[s] = source[s]
  BY <1>3 DEF Start, ProcessDue, ReconcilePaymentChannel, Begin, AcceptPaymentNotification,
     SimulatePaymentChannel, KeepBooks
<1>4. ASSUME NEW w0 \in Workers, Settle(w0)
      PROVE  source'[s] = source[s]
  <2>1. PICK e0 \in Event : e0 = jobs[w0].event /\ Verified(e0)
    BY <1>4 DEF Settle, AtStep, ChannelInv, JobsFit, JobFits
  <2>2. source' = source \/ source' = [source EXCEPT ![e0.op.source] = StatusAfter(e0)]
    BY <1>4, <2>1 DEF Settle
  <2>3. s = e0.op.source => StatusAfter(e0) = source[s]
    BY <2>1, Settled
  <2> QED
    BY <1>0, <2>2, <2>3
<1>5. ASSUME NEW w0 \in Workers, Continue(w0) \/ Disturb(w0), ~Settle(w0)
      PROVE  source'[s] = source[s]
  BY <1>5 DEF Continue, Disturb, ReplayNext, Claim, Check, Create, Query, Recheck, Save, RecordObservation,
     ReadObservation, Mark, GiveUp, AnswerLost, StatementFails, Crash, KeepBooks
<1> QED
  BY <1>1, <1>2, <1>3, <1>4, <1>5 DEF Next

\* MarkedState, Holds, GivenUpState, StatusAfter: a success is never taken back, of an
\* operation or in the books.
THEOREM SuccessStays == Spec => SuccessIsFinal
<1>1. ASSUME ChannelInv, [Next]_vars
      PROVE  [/\ \A o \in Operation : ops[o] # Nil /\ ops[o].state = "SUCCEEDED"
                                         => ops'[o].state = "SUCCEEDED"
              /\ \A s \in Sources : Captured(s) => source'[s] = source[s]]_vars
  BY <1>1, RowStep, SourceStep DEF RowKept
<1> QED
  BY <1>1, ChannelIsCorrect, PTL DEF Spec, SuccessIsFinal

\* reconcileChannelOperation: the lease of an invocation is taken from it only after it
\* lapsed, by a result of the channel, by itself, or by the catch block of the server's
\* scan, which may belong to an invocation that does not hold the token.
THEOREM LeasesAreRespected == Spec => LeaseIsRespected
<1>1. ASSUME ChannelInv, [Next]_vars
      PROVE  [\A o \in Operation, w \in Workers :
                /\ ops[o] # Nil /\ ops[o].token = w
                /\ ops'[o].token # w
                => \/ ~ops[o].running
                   \/ ops'[o].state \in {"SUCCEEDED", "FAILED"}
                   \/ Running(w) /\ jobs[w].op = o /\ jobs'[w] # jobs[w]
                   \/ \E x \in Workers : AtStep(x, "giveup") /\ jobs[x].op = o]_vars
  BY <1>1, RowStep DEF RowKept, MayLose
<1> QED
  BY <1>1, ChannelIsCorrect, PTL DEF Spec, LeaseIsRespected
=============================================================================
