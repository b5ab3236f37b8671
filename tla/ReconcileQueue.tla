---------------------------- MODULE ReconcileQueue ----------------------------
(***************************************************************************)
(* Which channel operations the 15 s worker reaches                        *)
(* (processDueChannelOperations of packages/db/src/tennis/                 *)
(* payment-channel.ts): each scan takes the first Limit operations by id   *)
(* that are due, asks the channel about them one after the other, and puts *)
(* off by 30 s those it has no outcome of, by 5 minutes those that raise   *)
(* an error.  What happens to one operation is PaymentChannel.             *)
(*                                                                         *)
(* Time is counted in scans.  Operations are numbered in the order of      *)
(* their ids, which are random: they may come in any order.                *)
(***************************************************************************)
EXTENDS Integers, FiniteSets

CONSTANTS
  Ids,      \* operation ids, in their order
  Limit,    \* operations one scan takes (20)
  Broken,   \* operations that raise an error whenever they are reconciled
  Regular,  \* scans until an operation without outcome is due again (30 s)
  Backoff   \* scans until an operation that raised an error is due again (5 min)

VARIABLES
  open,  \* operations that are not finished
  paid,  \* operations whose outcome the channel knows
  wait   \* scans until next_check_at

vars == <<open, paid, wait>>

ASSUME QueueAssumption ==
  /\ Ids \subseteq Nat /\ IsFiniteSet(Ids) /\ Broken \subseteq Ids
  /\ Limit \in Nat \ {0} /\ Regular \subseteq Nat \ {0} /\ Backoff \in Nat \ {0}
  /\ Regular # {}

Init ==
  /\ open \in SUBSET Ids
  /\ paid = {}
  /\ wait = [o \in Ids |-> 0]

\* A payment or refund is begun and its operation enqueued.
Enqueue(o) ==
  /\ o \notin open \cup paid
  /\ open' = open \cup {o}
  /\ wait' = [wait EXCEPT ![o] = 0]
  /\ UNCHANGED paid

\* The customer pays or the channel refuses: there is an outcome to hear.
Decide(o) ==
  /\ o \in open \ paid
  /\ paid' = paid \cup {o}
  /\ UNCHANGED <<open, wait>>

Due == {o \in open : wait[o] = 0}

\* ORDER BY o.id LIMIT Limit.
Picked == {o \in Due : Cardinality({x \in Due : x < o}) < Limit}

\* An error of one operation does not keep the scan from the others.
Fault_Reached == {o \in Picked : \A x \in Picked \cap Broken : o < x}
Reached == Picked

\* How long an operation the scan reached is put off.
PutOff(o) == IF o \in Broken THEN {Backoff} ELSE Regular

Scan ==
  /\ \E delay \in [Reached -> Regular \cup {Backoff}] :
       /\ \A o \in Reached : delay[o] \in PutOff(o)
       /\ wait' = [o \in Ids |->
                     IF o \in Reached THEN delay[o] - 1
                     ELSE IF wait[o] = 0 THEN 0 ELSE wait[o] - 1]
  /\ open' = open \ {o \in Reached : o \in paid /\ o \notin Broken}
  /\ UNCHANGED paid

Next == Scan \/ \E o \in Ids : Enqueue(o) \/ Decide(o)

\* server.ts starts a scan every 15 seconds when the one before is over.
Spec == Init /\ [][Next]_vars /\ WF_vars(Scan)
-----------------------------------------------------------------------------
\* payment-channel.md: operations are asked about every 30 seconds and an error
\* of one does not block the others, so every outcome is heard.
OutcomesAreHeard == \A o \in Ids \ Broken : o \in paid \cap open ~> o \notin open
=============================================================================
