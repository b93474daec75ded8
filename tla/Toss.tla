-------------------------------- MODULE Toss --------------------------------
(***************************************************************************)
(* TossPaymentsClient of createus_common.billing.providers.toss_payments:  *)
(* workers that call Toss Payments about orders and about one customer's   *)
(* billing key.                                                            *)
(*                                                                         *)
(* A call is one HTTP exchange.  It may fail before Toss has it, while     *)
(* Toss works on it, or after Toss did it; a gateway may answer in Toss's  *)
(* place with a page that is not JSON, under any status.  Toss's own error *)
(* is taken to say that it did nothing.  Amounts, names and messages are   *)
(* left out.                                                               *)
(***************************************************************************)
EXTENDS Naturals, FiniteSets

CONSTANTS
  Threads,      \* web workers and job runners
  Orders,       \* order ids, one payment each
  MaxFaults     \* bound: failures

VARIABLES
  payment,      \* Toss: the payment of each order
  billingKey,   \* Toss: the customer's billing key
  late,         \* Toss: requests it holds whose callers have given up
  notices,      \* Toss: webhooks not answered 200 yet
  call,         \* the call of each worker, or how its last one ended
  faults        \* failures so far

toss == <<payment, billingKey, late, notices>>

PaymentMethods == {"confirm_payment", "charge_billing_key", "cancel_payment"}
KeyMethods == {"issue_billing_key", "revoke_billing_key"}
Methods == PaymentMethods \cup KeyMethods

\* The wire statuses of PAYMENT_STATUS_CHANGED; IN_PROGRESS is one of those
\* the library does not map.
WireStatuses == {"IN_PROGRESS", "DONE", "CANCELED"}
Secrets == {"mine", "other"}
Notices == [order: Orders, status: WireStatuses, secret: Secrets]

Requests == [method: Methods, order: Orders]
Pages == {"error page", "page with status 200"}
Replies == {"none", "success", "error"} \cup Pages
Outcomes == {"none", "returned", "refused", "unreachable", "uncaught"}

\* did (a ghost): Toss did what this call asked.
Calls == [pc: {"idle", "sent", "answered"}, request: Requests, reply: Replies,
          did: BOOLEAN, outcome: Outcomes]
NoRequest == [method |-> "confirm_payment", order |-> CHOOSE o \in Orders : TRUE]
NoCall == [pc |-> "idle", request |-> NoRequest, reply |-> "none", did |-> FALSE,
           outcome |-> "none"]

TossTypeOK ==
  /\ payment \in [Orders -> {"unpaid", "done", "canceled"}]
  /\ billingKey \in {"none", "live", "revoked"}
  /\ late \subseteq Requests
  /\ notices \subseteq Notices
  /\ call \in [Threads -> Calls]
  /\ \A t \in Threads : call[t].pc = "answered" <=> call[t].reply # "none"
  /\ faults \in Nat

\* The customers are at the payment window.  Notices of an older endpoint of the
\* shop, with its secret, are still repeated.
TossInit ==
  /\ payment = [o \in Orders |-> "unpaid"]
  /\ billingKey = "none"
  /\ late = {}
  /\ notices = [order: Orders, status: {"IN_PROGRESS"}, secret: {"mine"}]
                 \cup [order: Orders, status: {"DONE"}, secret: {"other"}]
  /\ call = [t \in Threads |-> NoCall]
  /\ faults = 0

----------------------------------------------------------------------------
(* Toss *)

\* What Toss does and what it refuses.
Accepts(r) ==
  \/ r.method = "confirm_payment" /\ payment[r.order] = "unpaid"
  \/ r.method = "charge_billing_key" /\ payment[r.order] = "unpaid" /\ billingKey = "live"
  \/ r.method = "cancel_payment" /\ payment[r.order] = "done"
  \/ r.method = "issue_billing_key" /\ billingKey = "none"
  \/ r.method = "revoke_billing_key" /\ billingKey = "live"

\* A change of a payment is announced to the webhook.
PaymentBecomes(o, status, wire) ==
  /\ payment' = [payment EXCEPT ![o] = status]
  /\ notices' = notices \cup {[order |-> o, status |-> wire, secret |-> "mine"]}
  /\ UNCHANGED billingKey

KeyBecomes(status) ==
  /\ billingKey' = status
  /\ UNCHANGED <<payment, notices>>

Execute(r) ==
  \/ /\ r.method \in {"confirm_payment", "charge_billing_key"}
     /\ PaymentBecomes(r.order, "done", "DONE")
  \/ /\ r.method = "cancel_payment"
     /\ PaymentBecomes(r.order, "canceled", "CANCELED")
  \/ r.method = "issue_billing_key" /\ KeyBecomes("live")
  \/ r.method = "revoke_billing_key" /\ KeyBecomes("revoked")

\* Toss works on a request and answers; a request it accepts may still be
\* declined, by the card issuer.
TossAnswers(t) ==
  LET r == call[t].request IN
  /\ call[t].pc = "sent"
  /\ \/ /\ Accepts(r)
        /\ Execute(r)
        /\ call' = [call EXCEPT ![t].pc = "answered", ![t].reply = "success",
                                ![t].did = TRUE]
     \/ /\ UNCHANGED <<payment, billingKey, notices>>
        /\ call' = [call EXCEPT ![t].pc = "answered", ![t].reply = "error"]
  /\ UNCHANGED <<late, faults>>

\* Toss does what its caller no longer waits for, or drops it.
TossIsLate(r) ==
  /\ r \in late
  /\ late' = late \ {r}
  /\ \/ Accepts(r) /\ Execute(r)
     \/ UNCHANGED <<payment, billingKey, notices>>
  /\ UNCHANGED <<call, faults>>

----------------------------------------------------------------------------
(* The client *)

Send(t, method, order) ==
  /\ call[t].pc = "idle"
  /\ call' = [call EXCEPT ![t] =
       [NoCall EXCEPT !.pc = "sent", !.request = [method |-> method, order |-> order]]]
  /\ UNCHANGED <<toss, faults>>

confirm_payment(t, o) == Send(t, "confirm_payment", o)
cancel_payment(t, o) == Send(t, "cancel_payment", o)
charge_billing_key(t, o) == Send(t, "charge_billing_key", o)
issue_billing_key(t) == Send(t, "issue_billing_key", NoRequest.order)
revoke_billing_key(t) == Send(t, "revoke_billing_key", NoRequest.order)

End(t, outcome) ==
  call' = [call EXCEPT ![t].pc = "idle", ![t].reply = "none", ![t].outcome = outcome]

\* Mutant: the status is not looked at.
OutcomeOfAnyJson(method, reply) ==
  IF reply \in Pages THEN "uncaught" ELSE "returned"

\* response.json() comes before is_success, so that a page raises
\* JSONDecodeError; revoke_billing_key looks at the status first, and reads
\* the body, if it can, for a refusal only.
Outcome(method, reply) ==
  CASE reply = "success" -> "returned"
    [] reply = "error" -> "refused"
    [] reply \in Pages /\ method # "revoke_billing_key" -> "uncaught"
    [] reply = "error page" /\ method = "revoke_billing_key" -> "refused"
    [] reply = "page with status 200" /\ method = "revoke_billing_key" -> "returned"

Finish(t) ==
  /\ call[t].pc = "answered"
  /\ End(t, Outcome(call[t].request.method, call[t].reply))
  /\ UNCHANGED <<toss, faults>>

\* Mutant: a failed connection is taken for a refusal.
UnreachableIsRefusal == "refused"
Unreachable == "unreachable"

\* httpx.RequestError: no connection, or no answer within the timeout.  Toss
\* may have done the request, or do it yet, or never see it.
ConnectionFails(t) ==
  /\ call[t].pc # "idle"
  /\ faults < MaxFaults
  /\ faults' = faults + 1
  /\ End(t, Unreachable)
  /\ late' \in {late, late \cup {r \in {call[t].request} : call[t].pc = "sent"}}
  /\ UNCHANGED <<payment, billingKey, notices>>

\* A gateway answers with a page that is not JSON, whatever Toss did.
GatewayAnswers(t) ==
  /\ call[t].pc # "idle"
  /\ call[t].reply \notin Pages
  /\ faults < MaxFaults
  /\ faults' = faults + 1
  /\ \E page \in Pages :
       call' = [call EXCEPT ![t].pc = "answered", ![t].reply = page]
  /\ late' \in {late, late \cup {r \in {call[t].request} : call[t].pc = "sent"}}
  /\ UNCHANGED <<payment, billingKey, notices>>

----------------------------------------------------------------------------
(* Properties *)

\* A caller may rely on what it was told: what was returned, Toss did; what
\* was refused with the method's exception, this call did not do.  (Neither
\* holds of revoke_billing_key, which takes a gateway's page for an answer.)
HonestOutcome ==
  \A t \in Threads :
    call[t].request.method # "revoke_billing_key" =>
      /\ call[t].outcome = "returned" => call[t].did
      /\ call[t].outcome = "refused" => ~call[t].did

\* A call that does not return raises the method's exception or
\* ProviderConnectionException (toss_payments.py:65).  The code does not keep
\* this: what is raised for a page is neither.
FailuresAreTyped == \A t \in Threads : call[t].outcome # "uncaught"
=============================================================================
