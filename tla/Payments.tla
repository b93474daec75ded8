------------------------------ MODULE Payments ------------------------------
(***************************************************************************)
(* Payments through Toss that buy credits: workers that call Toss (module  *)
(* Toss), Toss's webhooks dispatched by TossWebhookHandler to handlers in  *)
(* the order they were registered, one of which grants credits (module     *)
(* Credits), and views that use credits up.                                *)
(*                                                                         *)
(* Which handlers there are is the project's; here one calls grant for a   *)
(* payment that is DONE, and the others may only fail.                     *)
(***************************************************************************)
EXTENDS Toss, Integers, Sequences

CONSTANTS
  Callers,        \* workers that call Toss
  Handlers,       \* of PAYMENT_STATUS_CHANGED, as registered; one is "credit"
  WebhookSecret,  \* what Toss's notices must say, "none" if not configured
  Uses,           \* requests of views that deduct credits
  Price,          \* credits an order buys
  Amounts         \* credits moved at once

ASSUME OrderAssumption == Orders # {}
ASSUME CallerAssumption == Callers \subseteq Threads
ASSUME HandlerAssumption == Handlers \in Seq(STRING)
ASSUME PriceAssumption == Price \in Amounts /\ Amounts \subseteq Nat \ {0}

VARIABLES
  delivery,       \* the notice each worker processes, and the handler it is at
  ran,            \* handlers that have succeeded for a notice
  acked,          \* notices answered 200
  balance, history, tx, overlapped

C == INSTANCE Credits WITH References <- Orders \cup Uses

dispatch == <<delivery, ran, acked>>
credits == <<balance, history, tx, overlapped>>
vars == <<toss, call, faults, dispatch, credits>>

NoDelivery == [notice |-> CHOOSE n \in Notices : TRUE, at |-> 0]

TypeOK ==
  /\ TossTypeOK
  /\ C!CreditsTypeOK
  /\ delivery \in [Threads -> [notice: Notices, at: 0 .. Len(Handlers) + 1]]
  /\ ran \subseteq Notices \X DOMAIN Handlers
  /\ acked \subseteq Notices

Processing(t) == delivery[t].at # 0
Free(t) == call[t].pc = "idle" /\ ~Processing(t) /\ C!Idle(t)

Fault == faults < MaxFaults /\ faults' = faults + 1

----------------------------------------------------------------------------
(* Webhooks *)

\* verify.
Verified(n) == WebhookSecret = "none" \/ n.secret = WebhookSecret

\* Mutant: a status the map lacks is taken for DONE.
NormalizeLax(status) == IF status = "CANCELED" THEN "CANCELLED" ELSE "DONE"

\* normalize_toss_payment_status.
Normalize(status) ==
  CASE status = "DONE" -> "DONE"
    [] status = "CANCELED" -> "CANCELLED"
    [] OTHER -> "None"

\* verify, parse, and process begins; Toss delivers a notice it has no answer
\* to again.
DeliverNotice(t, n) ==
  /\ Free(t)
  /\ n \in notices
  /\ Verified(n)
  /\ IF \E u \in Threads : Processing(u) /\ delivery[u].notice = n
     THEN Fault ELSE UNCHANGED faults
  /\ delivery' = [delivery EXCEPT ![t] = [notice |-> n, at |-> 1]]
  /\ UNCHANGED <<toss, call, ran, acked, credits>>

At(t, h) == delivery[t].at \in DOMAIN Handlers /\ Handlers[delivery[t].at] = h
IsDone(t) == Normalize(delivery[t].notice.status) = "DONE"

\* for handler in self._handlers: the next one.
NextHandler(t) ==
  /\ delivery' = [delivery EXCEPT ![t].at = @ + 1]
  /\ ran' = ran \cup {<<delivery[t].notice, delivery[t].at>>}
  /\ UNCHANGED <<toss, call, faults, acked>>

\* A handler that grants nothing returns.
HandlerReturns(t) ==
  /\ delivery[t].at \in DOMAIN Handlers
  /\ ~ (At(t, "credit") /\ IsDone(t))
  /\ NextHandler(t)
  /\ UNCHANGED credits

\* The handler of credits calls grant, which reads the balance,
CreditReads(t) ==
  /\ At(t, "credit") /\ IsDone(t)
  /\ C!Read(t, "GRANT", Price, delivery[t].notice.order)
  /\ UNCHANGED <<toss, call, faults, dispatch>>

\* and commits.
CreditCommits(t) ==
  /\ At(t, "credit")
  /\ C!grant(t)
  /\ NextHandler(t)

\* Mutant: a handler's exception is logged, and the next one runs.
HandlerSwallowed(t) ==
  /\ delivery[t].at \in DOMAIN Handlers
  /\ Fault
  /\ delivery' = [delivery EXCEPT ![t].at = @ + 1]
  /\ IF C!Idle(t) THEN UNCHANGED credits ELSE C!Rollback(t)
  /\ UNCHANGED <<toss, call, ran, acked>>

\* A handler raises: the handlers after it do not run, the answer is not 200.
HandlerRaises(t) ==
  /\ delivery[t].at \in DOMAIN Handlers
  /\ Fault
  /\ delivery' = [delivery EXCEPT ![t] = NoDelivery]
  /\ IF C!Idle(t) THEN UNCHANGED credits ELSE C!Rollback(t)
  /\ UNCHANGED <<toss, call, ran, acked>>

\* process returns, and Toss gets its 200, or not.
Acknowledge(t) ==
  /\ Processing(t) /\ delivery[t].at \notin DOMAIN Handlers
  /\ delivery' = [delivery EXCEPT ![t] = NoDelivery]
  /\ acked' = acked \cup {delivery[t].notice}
  /\ \/ /\ notices' = notices \ {delivery[t].notice}
        /\ UNCHANGED faults
     \/ Fault /\ UNCHANGED notices
  /\ UNCHANGED <<payment, billingKey, late, call, ran, credits>>

----------------------------------------------------------------------------
(* Views that use credits *)

\* CreditRequiredMixin admits the request, and deduct reads the balance.
UseReads(t, u, amount) ==
  /\ Free(t)
  /\ C!Admitted
  /\ \A i \in DOMAIN history : history[i].reference # u
  /\ \A s \in Threads : ~C!Idle(s) => tx[s].reference # u
  /\ C!Read(t, "DEDUCT", amount, u)
  /\ UNCHANGED <<toss, call, faults, dispatch>>

UseEnds(t) ==
  /\ C!deduct(t) \/ C!deductRefused(t)
  /\ UNCHANGED <<toss, call, faults, dispatch>>

UseFails(t) ==
  /\ tx[t].type = "DEDUCT"
  /\ Fault
  /\ C!Rollback(t)
  /\ UNCHANGED <<toss, call, dispatch>>

----------------------------------------------------------------------------
(* Specification *)

Init ==
  /\ TossInit
  /\ C!CreditsInit
  /\ delivery = [t \in Threads |-> NoDelivery]
  /\ ran = {}
  /\ acked = {}

Calling(t) ==
  \/ /\ Free(t)
     /\ \/ \E o \in Orders :
             confirm_payment(t, o) \/ charge_billing_key(t, o) \/ cancel_payment(t, o)
        \/ issue_billing_key(t)
        \/ revoke_billing_key(t)
  \/ TossAnswers(t)
  \/ Finish(t)
  \/ ConnectionFails(t)
  \/ GatewayAnswers(t)

Dispatching(t) ==
  HandlerReturns(t) \/ CreditReads(t) \/ CreditCommits(t) \/ Acknowledge(t)

Next ==
  \/ \E t \in Callers : Calling(t) /\ UNCHANGED <<dispatch, credits>>
  \/ \E r \in late : TossIsLate(r) /\ UNCHANGED <<dispatch, credits>>
  \/ \E t \in Threads, n \in Notices : DeliverNotice(t, n)
  \/ \E t \in Threads : Dispatching(t) \/ HandlerRaises(t)
  \/ \E t \in Threads, u \in Uses, a \in Amounts : UseReads(t, u, a)
  \/ \E t \in Threads : UseEnds(t) \/ UseFails(t)

Spec == Init /\ [][Next]_vars

\* A worker goes on with what it is at, and Toss repeats a notice until it is
\* answered, so that some time a worker is free for it.
Proceeds(t) ==
  \/ (TossAnswers(t) \/ Finish(t)) /\ UNCHANGED <<dispatch, credits>>
  \/ Dispatching(t)
  \/ UseEnds(t)

FairSpec ==
  /\ Spec
  /\ \A t \in Threads : WF_vars(Proceeds(t))
  /\ \A n \in {m \in Notices : Verified(m)} :
       SF_vars(\E t \in Threads : DeliverNotice(t, n))

----------------------------------------------------------------------------
(* Properties *)

\* A notice answered 200 has been through every handler, whichever of them
\* failed in between (process).
AckedMeansRun == \A n \in acked, k \in DOMAIN Handlers : <<n, k>> \in ran

\* Credits are granted only for orders that Toss was paid for (verify,
\* normalize_toss_payment_status).
CreditedIsPaid ==
  \A i \in DOMAIN history :
    history[i].type = "GRANT" => payment[history[i].reference] # "unpaid"

\* A payment that is made is credited, also when the caller of confirm_payment
\* or charge_billing_key was told that it failed (process).
PaidIsCredited ==
  \A o \in Orders :
    payment[o] = "done" ~> \E i \in DOMAIN history : history[i].reference = o

LastEntryShowsBalance == C!LastEntryShowsBalance
HistoryAddsUp == C!HistoryAddsUp

----------------------------------------------------------------------------
(* What all of this implements *)

Paid == {o \in Orders : payment[o] # "unpaid"}

Promise == INSTANCE PrepaidCredits WITH paid <- Paid, entries <- history

\* Unless transactions overlap, a project may take every read, save and commit
\* for one step on a real balance: a paid order buys its price, a use takes
\* what is there, each change has its entry and nothing else has, however
\* often calls, webhooks and handlers fail and are repeated (grant, deduct,
\* process).
KeepsPromise ==
  /\ Promise!Init
  /\ [][overlapped \/ Promise!Next]_<<Paid, balance, history>>

----------------------------------------------------------------------------
(* The inductive invariant *)

\* What a call knows of what Toss did.
CallsHonest ==
  \A t \in Threads :
    /\ call[t].pc = "sent" => ~call[t].did
    /\ call[t].pc # "idle" => call[t].outcome = "none"
    /\ call[t].reply = "success" => call[t].did
    /\ call[t].reply = "error" => ~call[t].did

\* The handlers before the one a worker is at have succeeded.
RanInOrder ==
  \A t \in Threads :
    \A k \in DOMAIN Handlers :
      k < delivery[t].at => <<delivery[t].notice, k>> \in ran

\* With a secret, what says that an order was paid is true: a notice, one that
\* is being processed, a grant under way.
NoticesTrue ==
  WebhookSecret = "mine" =>
    /\ \A n \in notices :
         n.secret = "mine" /\ n.status = "DONE" => payment[n.order] # "unpaid"
    /\ \A t \in Threads :
         Processing(t) /\ IsDone(t) => payment[delivery[t].notice.order] # "unpaid"
    /\ \A t \in Threads :
         tx[t].type = "GRANT" =>
           tx[t].reference \in Orders /\ payment[tx[t].reference] # "unpaid"
    /\ \A i \in DOMAIN history :
         history[i].type = "GRANT" =>
           history[i].reference \in Orders /\ payment[history[i].reference] # "unpaid"

\* A transaction under way is a grant of an order's price, or a use.
TransactionsOK ==
  \A t \in Threads :
    /\ tx[t].type = "GRANT" => tx[t].amount = Price /\ tx[t].reference \in Orders
    /\ tx[t].type = "DEDUCT" => tx[t].reference \in Uses

IInv ==
  /\ TypeOK
  /\ CallsHonest
  /\ HonestOutcome
  /\ RanInOrder
  /\ AckedMeansRun
  /\ NoticesTrue
  /\ LastEntryShowsBalance
=============================================================================
