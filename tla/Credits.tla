------------------------------ MODULE Credits ------------------------------
(***************************************************************************)
(* AbstractCreditService of createus_common.billing.services.credits: one  *)
(* subject's credit balance and its history.                               *)
(*                                                                         *)
(* grant and deduct are transactions that read the balance, change the     *)
(* copy, save it and write a history entry.  get_balance_instance is the   *)
(* project's; it need not lock the row, and then transactions overlap: a   *)
(* second one may read the balance before the first commits.  The save     *)
(* locks the row until the commit, so that save, entry and commit are one  *)
(* step.  Descriptions, sources and expiry dates are left out.             *)
(***************************************************************************)
EXTENDS Integers, Sequences

CONSTANTS
  Threads,      \* web workers
  References,   \* what entries are linked to: an order, a use
  Amounts       \* credits moved by one call

VARIABLES
  balance,      \* AbstractUsageCreditBalance.balance
  history,      \* AbstractUsageCreditHistory, in the order of the commits
  tx,           \* the transaction of each worker
  overlapped    \* ghost: have two transactions been open at once?

credits == <<balance, history, tx, overlapped>>

CreditTransactionTypes == {"GRANT", "DEDUCT", "REFUND", "EXPIRE"}

Entries == [type: CreditTransactionTypes, amount: Int, after: Int,
            reference: References]

\* copy is balance_obj.balance.
Transactions == [type: CreditTransactionTypes \cup {"none"}, amount: Amounts,
                 reference: References, copy: Nat]
NoTransaction == [type |-> "none", amount |-> CHOOSE a \in Amounts : TRUE,
                  reference |-> CHOOSE r \in References : TRUE, copy |-> 0]

CreditsTypeOK ==
  /\ balance \in Nat
  /\ history \in Seq(Entries)
  /\ \A i \in DOMAIN history : history[i].after >= 0
  /\ tx \in [Threads -> Transactions]
  /\ overlapped \in BOOLEAN

CreditsInit ==
  /\ balance = 0
  /\ history = << >>
  /\ tx = [t \in Threads |-> NoTransaction]
  /\ overlapped = FALSE

----------------------------------------------------------------------------
(* Transactions *)

Idle(t) == tx[t].type = "none"

\* get_balance_instance.
Read(t, type, amount, reference) ==
  /\ Idle(t)
  /\ tx' = [tx EXCEPT ![t] = [type |-> type, amount |-> amount,
                              reference |-> reference, copy |-> balance]]
  /\ overlapped' = (overlapped \/ \E u \in Threads : ~Idle(u))
  /\ UNCHANGED <<balance, history>>

End(t) == tx' = [tx EXCEPT ![t] = NoTransaction]

\* Mutant: a deduction is recorded with the sign of a grant.
EntryUnsigned(t, change) ==
  [type |-> tx[t].type, amount |-> tx[t].amount, after |-> tx[t].copy + change,
   reference |-> tx[t].reference]

\* create_history_entry.
Entry(t, change) ==
  [type |-> tx[t].type, amount |-> change, after |-> tx[t].copy + change,
   reference |-> tx[t].reference]

Commit(t, change) ==
  /\ balance' = tx[t].copy + change
  /\ history' = Append(history, Entry(t, change))
  /\ End(t)
  /\ UNCHANGED overlapped

grant(t) ==
  /\ tx[t].type = "GRANT"
  /\ Commit(t, tx[t].amount)

\* Mutant: the balance is not compared with the amount.
deductUnchecked(t) ==
  /\ tx[t].type = "DEDUCT"
  /\ Commit(t, -tx[t].amount)

deduct(t) ==
  /\ tx[t].type = "DEDUCT"
  /\ tx[t].copy >= tx[t].amount
  /\ Commit(t, -tx[t].amount)

\* InsufficientCreditsException.
deductRefused(t) ==
  /\ tx[t].type = "DEDUCT"
  /\ tx[t].copy < tx[t].amount
  /\ End(t)
  /\ UNCHANGED <<balance, history, overlapped>>

\* Mutant: without transaction.atomic, an exception after the save leaves the
\* new balance without its entry.
RollbackSaved(t) ==
  /\ ~Idle(t)
  /\ balance' = IF tx[t].type = "GRANT" THEN tx[t].copy + tx[t].amount
                                        ELSE tx[t].copy - tx[t].amount
  /\ End(t)
  /\ UNCHANGED <<history, overlapped>>

\* An exception rolls the transaction back.
Rollback(t) ==
  /\ ~Idle(t)
  /\ End(t)
  /\ UNCHANGED <<balance, history, overlapped>>

\* CreditRequiredMixin.initial: what a view is admitted on.
Admitted == balance > 0

----------------------------------------------------------------------------
(* Properties *)

\* However transactions overlap, the last entry shows the balance there is
\* (grant, deduct: balance_after).
LastEntryShowsBalance ==
  history # << >> => history[Len(history)].after = balance

\* The balance that the first n entries add up to.
SumTo[n \in 0 .. Len(history)] ==
  IF n = 0 THEN 0 ELSE SumTo[n - 1] + history[n].amount

\* Unless two transactions overlapped, the entries account for the balance:
\* no change is missing, none is recorded that did not happen (models/
\* credits.py: AbstractUsageCreditHistory).
HistoryAddsUp == ~overlapped => SumTo[Len(history)] = balance

----------------------------------------------------------------------------
(* The invariant behind HistoryAddsUp *)

\* The balance that the first n entries left behind.
AfterEntry(n) == IF n = 0 THEN 0 ELSE history[n].after

\* Every entry starts from the balance the one before it left, and the last
\* one left the balance there is.
EntriesChained ==
  /\ \A n \in DOMAIN history :
       history[n].after = AfterEntry(n - 1) + history[n].amount
  /\ balance = AfterEntry(Len(history))

\* At most one transaction is open, and what it has read is still so.
OneAtATime ==
  \A t \in Threads : ~Idle(t) =>
    /\ tx[t].copy = balance
    /\ \A u \in Threads \ {t} : Idle(u)

Accounted == ~overlapped => EntriesChained /\ OneAtATime
=============================================================================
