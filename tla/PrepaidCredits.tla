--------------------------- MODULE PrepaidCredits ---------------------------
(***************************************************************************)
(* What payments and credits promise a project, without calls, webhooks,   *)
(* transactions or failures: orders are paid, a paid order buys credits,   *)
(* and what there is of them is used, each in one step that is on record.  *)
(* That an order may buy its credits more than once is no oversight: the   *)
(* library repeats handlers and leaves idempotence to the project's.       *)
(***************************************************************************)
EXTENDS Integers, Sequences

CONSTANTS Orders, Uses,
          Price,        \* credits an order buys
          Amounts       \* credits that can be used at once

VARIABLES paid,         \* orders that have been paid
          balance,      \* credits left
          entries       \* the record of every change

Init == paid = {} /\ balance = 0 /\ entries = << >>

Pay(o) ==
  /\ paid' = paid \cup {o}
  /\ UNCHANGED <<balance, entries>>

Change(type, change, why) ==
  /\ balance' = balance + change
  /\ entries' = Append(entries, [type |-> type, amount |-> change,
                                 after |-> balance + change, reference |-> why])
  /\ UNCHANGED paid

Buy(o) == o \in paid /\ Change("GRANT", Price, o)

Use(u, amount) == amount <= balance /\ Change("DEDUCT", -amount, u)

Next ==
  \/ \E o \in Orders : Pay(o) \/ Buy(o)
  \/ \E u \in Uses, a \in Amounts : Use(u, a)

Spec == Init /\ [][Next]_<<paid, balance, entries>>
=============================================================================
