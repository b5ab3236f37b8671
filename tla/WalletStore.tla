----------------------------- MODULE WalletStore -----------------------------
(***************************************************************************)
(* The wallet of one customer: packages/db/src/tennis/wallet-store.ts,     *)
(* wallet.ts and packages/domain/src/tennis-wallet.ts.                     *)
(*                                                                         *)
(* Money comes in batches of principal and gift.  A payment takes it from  *)
(* the oldest batches first, of each in proportion to what it was credited *)
(* with; the portions are reserved, then consumed or released.  Every      *)
(* operation runs in a transaction under the tenant's advisory lock and    *)
(* the lock of the wallet's row, so each is one action.                    *)
(*                                                                         *)
(* A batch is named by what it was credited for, which is UNIQUE: a receipt *)
(* that comes again finds its batch and credits nothing.                   *)
(***************************************************************************)
EXTENDS TennisCents

CONSTANTS
  Batches,   \* wallet batches, numbered in the order of their ids
  Payments,  \* payment attempts of the customer
  Grants,    \* principal and gift a top-up may bring
  Amounts,   \* wallet amounts a payment may ask for
  MaxCents,  \* the largest amount of money: 2^53 - 1 in the code
  Nil        \* a row that does not exist

VARIABLES
  batches,      \* tennis.wallet_batches
  allocations   \* tennis.wallet_allocations of each payment

walletVars == <<batches, allocations>>

Portion == [principal: Nat, gift: Nat]

Batch == [granted: Portion, available: Portion, reserved: Portion,
          credited: Nat \ {0}]          \* credit_sequence

Allocation == [status: {"RESERVED", "CONSUMED", "RELEASED"},
               portions: [Batches -> Portion]]

ASSUME WalletAssumption ==
  /\ Batches \subseteq Nat /\ IsFiniteSet(Batches)
  /\ IsFiniteSet(Payments)
  /\ MaxCents \in Nat
  /\ Amounts \subseteq Nat
  /\ Grants \subseteq Portion

ASSUME WalletRowsAssumption == Nil \notin Batch /\ Nil \notin Allocation

Cents(x) == x.principal + x.gift
a ++ b == [principal |-> a.principal + b.principal, gift |-> a.gift + b.gift]
a -- b == [principal |-> a.principal - b.principal, gift |-> a.gift - b.gift]
Nothing  == [principal |-> 0, gift |-> 0]

Credited == {b \in Batches : batches[b] # Nil}
-----------------------------------------------------------------------------
(***************************************************************************)
(* How an amount is split.                                                 *)
(***************************************************************************)
\* The principal and gift of `take` cents of a batch: in proportion to what it
\* was credited with, as far as both parts reach.
Fault_PrincipalFirst(row, take) ==
  LET principal == Min({take, row.available.principal})
  IN [principal |-> principal, gift |-> take - principal]
Split(row, take) ==
  LET shares == AllocateCents(take, <<row.granted.principal, row.granted.gift>>)
      principal == Max({take - row.available.gift,
                        Min({shares[1], row.available.principal})})
  IN [principal |-> principal, gift |-> take - principal]

\* Batches credited before b are used up first.
Fault_Earlier(b) == {a \in Credited : a < b}
Earlier(b) == {a \in Credited : batches[a].credited < batches[b].credited}

Spendable(B) == SumOf([b \in B |-> Cents(batches[b].available)])

\* allocateWalletDebit: what each batch gives to a payment of `amount` cents.
AllocateWalletDebit(amount) ==
  [b \in Batches |->
     IF b \in Credited
     THEN LET left == Max({0, amount - Spendable(Earlier(b))})
          IN Split(batches[b], Min({left, Cents(batches[b].available)}))
     ELSE Nothing]
-----------------------------------------------------------------------------
(***************************************************************************)
(* The operations, as the rows they leave.                                 *)
(***************************************************************************)
\* creditWalletBatch: no more than MaxCents over the life of a wallet, so that
\* money that was spent always finds room to come back.
Fault_Creditable(grant) ==
  SumOf([b \in Credited |-> Cents(batches[b].available ++ batches[b].reserved)])
    + Cents(grant) <= MaxCents
Creditable(grant) ==
  SumOf([b \in Credited |-> Cents(batches[b].granted)]) + Cents(grant) <= MaxCents

CreditWalletBatch(b, grant) ==
  /\ b \notin Credited
  /\ Cents(grant) > 0
  /\ Creditable(grant)
  /\ batches' = [batches EXCEPT ![b] =
                   [granted |-> grant, available |-> grant, reserved |-> Nothing,
                    credited |-> Cardinality(Credited) + 1]]
  /\ UNCHANGED allocations

\* reserveWallet for payment p; without a rest to be paid elsewhere what was
\* reserved is consumed in the same transaction.
ReserveWallet(p, amount, atOnce) ==
  LET portions == AllocateWalletDebit(amount) IN
  /\ allocations[p] = Nil
  /\ amount > 0 /\ amount <= Spendable(Credited)
  /\ allocations' = [allocations EXCEPT ![p] =
                       [status |-> IF atOnce THEN "CONSUMED" ELSE "RESERVED",
                        portions |-> portions]]
  /\ batches' = [b \in Batches |->
                   IF b \notin Credited THEN Nil
                   ELSE [batches[b] EXCEPT
                           !.available = @ -- portions[b],
                           !.reserved = IF atOnce THEN @ ELSE @ ++ portions[b]]]

\* settleWalletReservation does something once: while the portions are reserved.
Settles(p) == allocations[p] # Nil /\ allocations[p].status = "RESERVED"

SettleWalletReservation(p, consume) ==
  /\ Settles(p)
  /\ allocations' = [allocations EXCEPT ![p].status =
                       IF consume THEN "CONSUMED" ELSE "RELEASED"]
  /\ batches' = [b \in Batches |->
                   IF b \notin Credited THEN Nil
                   ELSE LET x == allocations[p].portions[b] IN
                        [batches[b] EXCEPT
                           !.reserved = @ -- x,
                           !.available = IF consume THEN @ ELSE @ ++ x]]
-----------------------------------------------------------------------------
WalletInit ==
  /\ batches = [b \in Batches |-> Nil]
  /\ allocations = [p \in Payments |-> Nil]
-----------------------------------------------------------------------------
(***************************************************************************)
(* Properties.                                                             *)
(***************************************************************************)
\* The rows of the tables, with their checks: no part of a batch is negative.
WalletTypeOK ==
  /\ batches \in [Batches -> Batch \cup {Nil}]
  /\ allocations \in [Payments -> Allocation \cup {Nil}]

With(status) == {p \in Payments : allocations[p] # Nil /\ allocations[p].status = status}

\* The part of batch b that payments P took.
From(b, P, part) == SumOf([p \in P |-> allocations[p].portions[b][part]])

\* wallet-payments.md: batches are used in the order they were credited.  A new
\* reservation touches a batch only when it leaves nothing in the earlier ones.
OldestFirst ==
  [][\A p \in Payments : allocations[p] = Nil /\ allocations'[p] # Nil =>
       \A b \in Credited : Cents(allocations'[p].portions[b]) > 0 =>
         \A a \in Credited : batches[a].credited < batches[b].credited =>
           Cents(batches'[a].available) = 0]_walletVars

\* A payment takes from one batch what its share of principal and gift says, but
\* for one cent of rounding, unless that part of the batch is used up.
SharesAreFair ==
  [][\A p \in Payments : allocations[p] = Nil /\ allocations'[p] # Nil =>
       \A b \in Credited :
         LET x     == allocations'[p].portions[b]
             exact == Cents(x) * batches[b].granted.principal
             whole == Cents(batches[b].granted)
         IN /\ x.principal * whole >= exact + whole => batches'[b].available.gift = 0
            /\ x.principal * whole <= exact - whole => batches'[b].available.principal = 0]_walletVars

\* The wallet as its customer sees it.
Held(p) == IF p \in With("RESERVED") THEN SumOf([b \in Batches |-> Cents(allocations[p].portions[b])]) ELSE 0
Spent(p) == IF p \in With("CONSUMED") THEN SumOf([b \in Batches |-> Cents(allocations[p].portions[b])]) ELSE 0
=============================================================================
