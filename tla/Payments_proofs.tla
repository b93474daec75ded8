--------------------------- MODULE Payments_proofs ---------------------------
(***************************************************************************)
(* Proofs about Payments, for every set of workers, orders and handlers    *)
(* and every bound.                                                        *)
(***************************************************************************)
EXTENDS Payments, WellFoundedInduction, TLAPS

----------------------------------------------------------------------------
(* Calls *)

LEMMA RequestType == NoRequest \in Requests
BY OrderAssumption DEF NoRequest, Requests, Methods, PaymentMethods, KeyMethods

LEMMA CallType ==
  /\ NoCall \in Calls /\ NoCall.pc = "idle" /\ NoCall.reply = "none" /\ NoCall.did = FALSE
  /\ NoCall.outcome = "none"
BY RequestType DEF NoCall, Calls, Replies, Outcomes

LEMMA Called ==
  ASSUME NEW r \in Requests
  PROVE  LET c == [NoCall EXCEPT !.pc = "sent", !.request = r] IN
         /\ c \in Calls /\ c.pc = "sent" /\ c.reply = "none" /\ c.did = FALSE
         /\ c.outcome = "none" /\ c.request = r
BY RequestType DEF NoCall, Calls, Replies, Outcomes

LEMMA Answered ==
  ASSUME NEW c \in Calls, NEW reply \in Replies
  PROVE  LET d == [c EXCEPT !.pc = "answered", !.reply = reply]
             e == [c EXCEPT !.pc = "answered", !.reply = reply, !.did = TRUE] IN
         /\ d \in Calls /\ d.pc = "answered" /\ d.reply = reply /\ d.did = c.did
         /\ d.outcome = c.outcome /\ d.request = c.request
         /\ e \in Calls /\ e.pc = "answered" /\ e.reply = reply /\ e.did = TRUE
         /\ e.outcome = c.outcome /\ e.request = c.request
BY DEF Calls

LEMMA Ended ==
  ASSUME NEW c \in Calls, NEW outcome \in Outcomes
  PROVE  LET d == [c EXCEPT !.pc = "idle", !.reply = "none", !.outcome = outcome] IN
         /\ d \in Calls /\ d.pc = "idle" /\ d.reply = "none" /\ d.did = c.did
         /\ d.outcome = outcome /\ d.request = c.request
BY DEF Calls, Replies

\* What one call must be like.
HonestCall(c) ==
  /\ c.pc = "sent" => ~c.did
  /\ c.pc # "idle" => c.outcome = "none"
  /\ c.reply = "success" => c.did
  /\ c.reply = "error" => ~c.did
  /\ c.pc = "answered" <=> c.reply # "none"
  /\ c.request.method # "revoke_billing_key" =>
       /\ c.outcome = "returned" => c.did
       /\ c.outcome = "refused" => ~c.did

CallsTable ==
  /\ call \in [Threads -> Calls]
  /\ \A t \in Threads : HonestCall(call[t])

LEMMA CallsTableOf == IInv => CallsTable
BY DEF IInv, TypeOK, TossTypeOK, CallsHonest, HonestOutcome, CallsTable, HonestCall

LEMMA CallChanges ==
  ASSUME CallsTable, NEW t \in Threads, NEW c \in Calls, HonestCall(c),
         call' = [call EXCEPT ![t] = c]
  PROVE  CallsTable'
<1>1. call' \in [Threads -> Calls] /\ call'[t] = c
      /\ \A u \in Threads \ {t} : call'[u] = call[u]
  BY DEF CallsTable
<1>2. ASSUME NEW u \in Threads
      PROVE  HonestCall(call'[u])
  BY <1>1 DEF CallsTable
<1> QED
  BY <1>1, <1>2 DEF CallsTable, HonestCall

LEMMA SendTable ==
  ASSUME CallsTable, NEW t \in Threads, NEW method \in Methods, NEW o \in Orders,
         Send(t, method, o)
  PROVE  CallsTable'
<1> DEFINE r == [method |-> method, order |-> o]
           c == [NoCall EXCEPT !.pc = "sent", !.request = r]
<1>1. r \in Requests
  BY DEF Requests
<1>2. c \in Calls /\ HonestCall(c)
  BY <1>1, Called DEF HonestCall
<1>3. call' = [call EXCEPT ![t] = c]
  BY DEF Send
<1> HIDE DEF c
<1> QED
  BY <1>2, <1>3, CallChanges

LEMMA AnswersTable ==
  ASSUME CallsTable, NEW t \in Threads, TossAnswers(t)
  PROVE  CallsTable'
<1>1. call[t] \in Calls /\ HonestCall(call[t]) /\ call[t].pc = "sent"
  BY DEF CallsTable, TossAnswers
<1>2. {"success", "error"} \subseteq Replies
  BY DEF Replies
<1> DEFINE d == [call[t] EXCEPT !.pc = "answered", !.reply = "error"]
           e == [call[t] EXCEPT !.pc = "answered", !.reply = "success", !.did = TRUE]
<1>3. d \in Calls /\ HonestCall(d) /\ e \in Calls /\ HonestCall(e)
  BY <1>1, <1>2, Answered DEF HonestCall
<1>4. call' = [call EXCEPT ![t] = d] \/ call' = [call EXCEPT ![t] = e]
  BY DEF TossAnswers, CallsTable
<1> HIDE DEF d, e
<1> QED
  BY <1>3, <1>4, CallChanges

LEMMA FinishTable ==
  ASSUME CallsTable, NEW t \in Threads, Finish(t)
  PROVE  CallsTable'
<1> DEFINE out == Outcome(call[t].request.method, call[t].reply)
           d == [call[t] EXCEPT !.pc = "idle", !.reply = "none", !.outcome = out]
<1>1. call[t] \in Calls /\ HonestCall(call[t]) /\ call[t].pc = "answered"
      /\ call[t].reply \in Replies /\ call[t].reply # "none"
  BY DEF CallsTable, Finish, HonestCall, Calls
<1>2. /\ out \in Outcomes
      /\ call[t].request.method # "revoke_billing_key" =>
           /\ out = "returned" => call[t].reply = "success"
           /\ out = "refused" => call[t].reply = "error"
  BY <1>1 DEF Outcome, Outcomes, Replies, Pages
<1>3. call' = [call EXCEPT ![t] = d]
  BY DEF Finish, End, CallsTable
<1> HIDE DEF out
<1>4. /\ d \in Calls /\ d.pc = "idle" /\ d.reply = "none" /\ d.did = call[t].did
      /\ d.outcome = out /\ d.request = call[t].request
  BY <1>1, <1>2, Ended
<1> HIDE DEF d
<1>5. d.did = TRUE \/ d.did = FALSE
  BY <1>4 DEF Calls
<1>6. HonestCall(d)
  BY <1>1, <1>2, <1>4, <1>5 DEF HonestCall
<1> QED
  BY <1>3, <1>4, <1>6, CallChanges

LEMMA FailsTable ==
  ASSUME CallsTable, NEW t \in Threads, ConnectionFails(t)
  PROVE  CallsTable'
<1> DEFINE d == [call[t] EXCEPT !.pc = "idle", !.reply = "none", !.outcome = "unreachable"]
<1>1. call[t] \in Calls /\ HonestCall(call[t]) /\ "unreachable" \in Outcomes
  BY DEF CallsTable, Outcomes
<1>2. d \in Calls /\ HonestCall(d)
  BY <1>1, Ended DEF HonestCall
<1>3. call' = [call EXCEPT ![t] = d]
  BY DEF ConnectionFails, End, Unreachable, CallsTable
<1> HIDE DEF d
<1> QED
  BY <1>2, <1>3, CallChanges

LEMMA GatewayTable ==
  ASSUME CallsTable, NEW t \in Threads, GatewayAnswers(t)
  PROVE  CallsTable'
<1>1. PICK page \in Pages :
        call' = [call EXCEPT ![t].pc = "answered", ![t].reply = page]
  BY DEF GatewayAnswers
<1> DEFINE d == [call[t] EXCEPT !.pc = "answered", !.reply = page]
<1>2. /\ call[t] \in Calls /\ HonestCall(call[t]) /\ call[t].pc # "idle"
      /\ page \in Replies /\ page \notin {"none", "success", "error"}
  BY DEF CallsTable, GatewayAnswers, Replies, Pages
<1>3. d \in Calls /\ HonestCall(d)
  BY <1>2, Answered DEF HonestCall
<1>4. call' = [call EXCEPT ![t] = d]
  BY <1>1 DEF CallsTable
<1> HIDE DEF d
<1> QED
  BY <1>3, <1>4, CallChanges

----------------------------------------------------------------------------
(* Toss *)

TossTables ==
  /\ payment \in [Orders -> {"unpaid", "done", "canceled"}]
  /\ billingKey \in {"none", "live", "revoked"}
  /\ late \subseteq Requests
  /\ notices \subseteq Notices
  /\ faults \in Nat

LEMMA TossTablesOf == IInv => TossTables
BY DEF IInv, TypeOK, TossTypeOK, TossTables

\* A payment that was made stays one that was made, and what Toss announces
\* is so.
PaidStays == \A o \in Orders : payment[o] # "unpaid" => payment'[o] # "unpaid"
NewNoticesTrue ==
  \A n \in notices' : n \in notices \/ (n.status = "DONE" => payment'[n.order] # "unpaid")

LEMMA ExecuteEffect ==
  ASSUME TossTables, NEW r \in Requests,
         Execute(r) \/ UNCHANGED <<payment, billingKey, notices>>
  PROVE  /\ payment' \in [Orders -> {"unpaid", "done", "canceled"}]
         /\ billingKey' \in {"none", "live", "revoked"}
         /\ notices' \subseteq Notices
         /\ PaidStays /\ NewNoticesTrue
<1>1. CASE UNCHANGED <<payment, billingKey, notices>>
  BY <1>1 DEF TossTables, PaidStays, NewNoticesTrue
<1>2. ASSUME NEW status \in {"done", "canceled"}, NEW wire \in {"DONE", "CANCELED"},
             PaymentBecomes(r.order, status, wire)
      PROVE  /\ payment' \in [Orders -> {"unpaid", "done", "canceled"}]
             /\ billingKey' \in {"none", "live", "revoked"}
             /\ notices' \subseteq Notices
             /\ PaidStays /\ NewNoticesTrue
  <2> DEFINE n0 == [order |-> r.order, status |-> wire, secret |-> "mine"]
  <2>1. r.order \in Orders
    BY DEF Requests
  <2>2. n0 \in Notices /\ n0.order = r.order
    BY <2>1 DEF Notices, WireStatuses, Secrets
  <2>3. payment' = [payment EXCEPT ![r.order] = status] /\ notices' = notices \cup {n0}
        /\ billingKey' = billingKey
    BY <1>2 DEF PaymentBecomes
  <2> HIDE DEF n0
  <2>4. payment'[r.order] # "unpaid" /\ \A o \in Orders \ {r.order} : payment'[o] = payment[o]
    BY <2>1, <2>3 DEF TossTables
  <2> QED
    BY <2>1, <2>2, <2>3, <2>4 DEF TossTables, PaidStays, NewNoticesTrue
<1>3. ASSUME NEW status \in {"live", "revoked"}, KeyBecomes(status)
      PROVE  /\ payment' \in [Orders -> {"unpaid", "done", "canceled"}]
             /\ billingKey' \in {"none", "live", "revoked"}
             /\ notices' \subseteq Notices
             /\ PaidStays /\ NewNoticesTrue
  BY <1>3 DEF KeyBecomes, TossTables, PaidStays, NewNoticesTrue
<1> QED
  BY <1>1, <1>2, <1>3 DEF Execute

\* What is left of the invariant when only Toss and a call have changed.
LEMMA TossFrame ==
  ASSUME IInv, UNCHANGED <<dispatch, credits>>, CallsTable', TossTables',
         PaidStays, NewNoticesTrue
  PROVE  IInv'
<1>1. /\ delivery' = delivery /\ ran' = ran /\ acked' = acked
      /\ balance' = balance /\ history' = history /\ tx' = tx /\ overlapped' = overlapped
  BY DEF dispatch, credits
<1>2. TossTypeOK' /\ CallsHonest' /\ HonestOutcome'
  BY DEF TossTypeOK, CallsHonest, HonestOutcome, CallsTable, HonestCall, TossTables
<1>3. C!CreditsTypeOK'
  BY <1>1 DEF IInv, TypeOK, C!CreditsTypeOK
<1>4. TypeOK'
  BY <1>1, <1>2, <1>3 DEF IInv, TypeOK
<1>5. RanInOrder' /\ AckedMeansRun' /\ LastEntryShowsBalance'
  BY <1>1 DEF IInv, RanInOrder, AckedMeansRun, LastEntryShowsBalance, C!LastEntryShowsBalance
<1>6. NoticesTrue'
  <2>1. SUFFICES ASSUME WebhookSecret = "mine"
                 PROVE  /\ \A n \in notices' : n.secret = "mine" /\ n.status = "DONE" =>
                             payment'[n.order] # "unpaid"
                        /\ \A t \in Threads :
                             Processing(t) /\ IsDone(t) =>
                               payment'[delivery[t].notice.order] # "unpaid"
                        /\ \A t \in Threads :
                             tx[t].type = "GRANT" =>
                               tx[t].reference \in Orders /\ payment'[tx[t].reference] # "unpaid"
                        /\ \A i \in DOMAIN history :
                             history[i].type = "GRANT" =>
                               /\ history[i].reference \in Orders
                               /\ payment'[history[i].reference] # "unpaid"
    BY <1>1 DEF NoticesTrue, Processing, IsDone
  <2>2. \A n \in notices : n.order \in Orders
    BY TossTablesOf DEF TossTables, Notices
  <2>3. \A t \in Threads : delivery[t].notice.order \in Orders
    BY DEF IInv, TypeOK, Notices
  <2>4. \A n \in notices' : n.secret = "mine" /\ n.status = "DONE" =>
          payment'[n.order] # "unpaid"
    BY <2>1, <2>2 DEF IInv, NoticesTrue, PaidStays, NewNoticesTrue
  <2>5. \A t \in Threads :
          Processing(t) /\ IsDone(t) => payment'[delivery[t].notice.order] # "unpaid"
    BY <2>1, <2>3 DEF IInv, NoticesTrue, PaidStays
  <2>6. /\ \A t \in Threads :
             tx[t].type = "GRANT" =>
               tx[t].reference \in Orders /\ payment'[tx[t].reference] # "unpaid"
        /\ \A i \in DOMAIN history :
             history[i].type = "GRANT" =>
               history[i].reference \in Orders /\ payment'[history[i].reference] # "unpaid"
    BY <2>1 DEF IInv, NoticesTrue, PaidStays
  <2> QED
    BY <2>4, <2>5, <2>6
<1> QED
  BY <1>2, <1>4, <1>5, <1>6 DEF IInv

LEMMA LateTypes ==
  ASSUME TossTables, CallsTable, NEW t \in Threads,
         late' \in {late, late \cup {r \in {call[t].request} : call[t].pc = "sent"}}
  PROVE  late' \subseteq Requests
BY DEF TossTables, CallsTable, Calls

LEMMA CallingKeeps ==
  ASSUME IInv, NEW t \in Threads, Calling(t), UNCHANGED <<dispatch, credits>>
  PROVE  IInv'
<1>1. TossTables /\ CallsTable
  BY TossTablesOf, CallsTableOf
<1>2. ASSUME NEW method \in Methods, NEW o \in Orders, Send(t, method, o)
      PROVE  IInv'
  <2>1. CallsTable'
    BY <1>1, <1>2, SendTable
  <2>2. TossTables' /\ PaidStays /\ NewNoticesTrue
    BY <1>1, <1>2 DEF Send, toss, TossTables, PaidStays, NewNoticesTrue
  <2> QED
    BY <2>1, <2>2, TossFrame
<1>3. CASE TossAnswers(t)
  <2>1. call[t].request \in Requests
    BY <1>1 DEF CallsTable, Calls
  <2>2. Execute(call[t].request) \/ UNCHANGED <<payment, billingKey, notices>>
    BY <1>3 DEF TossAnswers
  <2>3. TossTables' /\ PaidStays /\ NewNoticesTrue
    BY <1>1, <1>3, <2>1, <2>2, ExecuteEffect DEF TossAnswers, TossTables
  <2> QED
    BY <1>1, <1>3, <2>3, AnswersTable, TossFrame
<1>4. CASE Finish(t)
  <2>1. TossTables' /\ PaidStays /\ NewNoticesTrue
    BY <1>1, <1>4 DEF Finish, toss, TossTables, PaidStays, NewNoticesTrue
  <2> QED
    BY <1>1, <1>4, <2>1, FinishTable, TossFrame
<1>5. CASE ConnectionFails(t)
  <2>1. late' \subseteq Requests
    BY <1>1, <1>5, LateTypes DEF ConnectionFails
  <2>2. TossTables' /\ PaidStays /\ NewNoticesTrue
    BY <1>1, <1>5, <2>1 DEF ConnectionFails, TossTables, PaidStays, NewNoticesTrue
  <2> QED
    BY <1>1, <1>5, <2>2, FailsTable, TossFrame
<1>6. CASE GatewayAnswers(t)
  <2>1. late' \subseteq Requests
    BY <1>1, <1>6, LateTypes DEF GatewayAnswers
  <2>2. TossTables' /\ PaidStays /\ NewNoticesTrue
    BY <1>1, <1>6, <2>1 DEF GatewayAnswers, TossTables, PaidStays, NewNoticesTrue
  <2> QED
    BY <1>1, <1>6, <2>2, GatewayTable, TossFrame
<1>7. /\ {"confirm_payment", "charge_billing_key", "cancel_payment", "issue_billing_key",
          "revoke_billing_key"} \subseteq Methods
      /\ NoRequest.order \in Orders
  BY OrderAssumption DEF Methods, PaymentMethods, KeyMethods, NoRequest
<1> QED
  BY <1>2, <1>3, <1>4, <1>5, <1>6, <1>7 DEF Calling, confirm_payment, charge_billing_key,
     cancel_payment, issue_billing_key, revoke_billing_key

LEMMA LateKeeps ==
  ASSUME IInv, NEW r \in late, TossIsLate(r), UNCHANGED <<dispatch, credits>>
  PROVE  IInv'
<1>1. TossTables /\ CallsTable /\ r \in Requests
  BY TossTablesOf, CallsTableOf DEF TossTables
<1>2. Execute(r) \/ UNCHANGED <<payment, billingKey, notices>>
  BY DEF TossIsLate
<1>3. TossTables' /\ PaidStays /\ NewNoticesTrue
  BY <1>1, <1>2, ExecuteEffect DEF TossIsLate, TossTables
<1>4. CallsTable'
  BY <1>1 DEF TossIsLate, CallsTable, HonestCall
<1> QED
  BY <1>3, <1>4, TossFrame

----------------------------------------------------------------------------
(* Deliveries *)

Deliveries == [notice: Notices, at: 0 .. Len(Handlers) + 1]

\* The second part of NoticesTrue, and the last two.
PaidDeliveries ==
  \A t \in Threads :
    Processing(t) /\ IsDone(t) => payment[delivery[t].notice.order] # "unpaid"
PaidGrants ==
  /\ \A t \in Threads :
       tx[t].type = "GRANT" =>
         tx[t].reference \in Orders /\ payment[tx[t].reference] # "unpaid"
  /\ \A i \in DOMAIN history :
       history[i].type = "GRANT" =>
         history[i].reference \in Orders /\ payment[history[i].reference] # "unpaid"

LEMMA HandlerTypes == Len(Handlers) \in Nat /\ DOMAIN Handlers = 1 .. Len(Handlers)
BY HandlerAssumption

LEMMA NoDeliveryType == NoDelivery \in Deliveries /\ NoDelivery.at = 0
<1>1. [order |-> CHOOSE o \in Orders : TRUE, status |-> "DONE", secret |-> "mine"] \in Notices
  BY OrderAssumption DEF Notices, WireStatuses, Secrets
<1> QED
  BY <1>1, HandlerTypes DEF NoDelivery, Deliveries

\* The rest of the invariant when a step leaves Toss and its callers alone.
LEMMA WorkFrame ==
  ASSUME IInv, UNCHANGED <<payment, billingKey, late, call>>, faults' \in Nat,
         notices' \subseteq notices,
         delivery' \in [Threads -> Deliveries], RanInOrder',
         ran' \subseteq Notices \X DOMAIN Handlers, acked' \subseteq Notices, AckedMeansRun',
         C!CreditsTypeOK', LastEntryShowsBalance',
         WebhookSecret = "mine" => PaidDeliveries' /\ PaidGrants'
  PROVE  IInv'
<1>1. TossTypeOK' /\ CallsHonest' /\ HonestOutcome'
  BY DEF IInv, TypeOK, TossTypeOK, CallsHonest, HonestOutcome
<1>2. TypeOK'
  BY <1>1 DEF TypeOK, Deliveries
<1>3. WebhookSecret = "mine" =>
        \A n \in notices' : n.secret = "mine" /\ n.status = "DONE" => payment'[n.order] # "unpaid"
  BY DEF IInv, NoticesTrue
<1>4. NoticesTrue'
  BY <1>3 DEF NoticesTrue, PaidDeliveries, PaidGrants
<1> QED
  BY <1>1, <1>2, <1>4 DEF IInv

\* A worker's delivery becomes d.
LEMMA DeliveryStep ==
  ASSUME IInv, UNCHANGED payment, NEW t \in Threads, NEW d \in Deliveries,
         delivery' = [delivery EXCEPT ![t] = d], ran \subseteq ran',
         \A k \in DOMAIN Handlers : k < d.at => <<d.notice, k>> \in ran',
         WebhookSecret = "mine" /\ d.at # 0 /\ Normalize(d.notice.status) = "DONE" =>
           payment[d.notice.order] # "unpaid"
  PROVE  /\ delivery' \in [Threads -> Deliveries]
         /\ RanInOrder'
         /\ WebhookSecret = "mine" => PaidDeliveries'
<1>1. delivery \in [Threads -> Deliveries]
  BY DEF IInv, TypeOK, Deliveries
<1>2. /\ delivery' \in [Threads -> Deliveries] /\ delivery'[t] = d
      /\ \A u \in Threads \ {t} : delivery'[u] = delivery[u]
  BY <1>1
<1>3. RanInOrder'
  <2>1. SUFFICES ASSUME NEW u \in Threads, NEW k \in DOMAIN Handlers, k < delivery'[u].at
                 PROVE  <<delivery'[u].notice, k>> \in ran'
    BY DEF RanInOrder
  <2>2. CASE u = t
    BY <1>2, <2>1, <2>2
  <2>3. CASE u # t
    BY <1>2, <2>1, <2>3 DEF IInv, RanInOrder
  <2> QED
    BY <2>2, <2>3
<1>4. ASSUME WebhookSecret = "mine"
      PROVE  PaidDeliveries'
  <2>1. SUFFICES ASSUME NEW u \in Threads, delivery'[u].at # 0,
                        Normalize(delivery'[u].notice.status) = "DONE"
                 PROVE  payment[delivery'[u].notice.order] # "unpaid"
    BY DEF PaidDeliveries, Processing, IsDone, Normalize
  <2>2. CASE u = t
    BY <1>2, <1>4, <2>1, <2>2
  <2>3. CASE u # t
    BY <1>2, <1>4, <2>1, <2>3 DEF IInv, NoticesTrue, Processing, IsDone
  <2> QED
    BY <2>2, <2>3
<1> QED
  BY <1>2, <1>3, <1>4

\* Deliveries that do not change stay in order and true.
LEMMA DeliveryKept ==
  ASSUME IInv, UNCHANGED <<payment, dispatch>>
  PROVE  /\ delivery' \in [Threads -> Deliveries] /\ RanInOrder'
         /\ ran' \subseteq Notices \X DOMAIN Handlers /\ acked' \subseteq Notices
         /\ AckedMeansRun'
         /\ WebhookSecret = "mine" => PaidDeliveries'
BY DEF IInv, TypeOK, Deliveries, RanInOrder, AckedMeansRun, NoticesTrue, PaidDeliveries,
       Processing, IsDone, dispatch

----------------------------------------------------------------------------
(* Credits *)

LEMMA AmountTypes == Amounts \subseteq Nat \ {0} /\ Price \in Amounts
BY PriceAssumption

LEMMA CreditsKept ==
  ASSUME IInv, UNCHANGED <<payment, credits>>
  PROVE  /\ C!CreditsTypeOK' /\ LastEntryShowsBalance'
         /\ WebhookSecret = "mine" => PaidGrants'
BY DEF IInv, TypeOK, credits, C!CreditsTypeOK, LastEntryShowsBalance, C!LastEntryShowsBalance,
       NoticesTrue, PaidGrants

LEMMA ReadEffect ==
  ASSUME IInv, UNCHANGED payment, NEW t \in Threads, NEW type \in {"GRANT", "DEDUCT"},
         NEW amount \in Amounts, NEW reference \in Orders \cup Uses,
         C!Read(t, type, amount, reference),
         WebhookSecret = "mine" /\ type = "GRANT" =>
           reference \in Orders /\ payment[reference] # "unpaid"
  PROVE  /\ C!CreditsTypeOK' /\ LastEntryShowsBalance'
         /\ WebhookSecret = "mine" => PaidGrants'
<1> DEFINE x == [type |-> type, amount |-> amount, reference |-> reference, copy |-> balance]
<1>1. C!CreditsTypeOK
  BY DEF IInv, TypeOK
<1>2. x \in C!Transactions /\ x.type = type /\ x.reference = reference
  BY <1>1 DEF C!CreditsTypeOK, C!Transactions, C!CreditTransactionTypes
<1>3. tx' = [tx EXCEPT ![t] = x] /\ balance' = balance /\ history' = history
      /\ overlapped' \in BOOLEAN
  BY DEF C!Read
<1> HIDE DEF x
<1>4. /\ tx' \in [Threads -> C!Transactions] /\ tx'[t] = x
      /\ \A u \in Threads \ {t} : tx'[u] = tx[u]
  BY <1>1, <1>2, <1>3 DEF C!CreditsTypeOK
<1>5. C!CreditsTypeOK'
  BY <1>1, <1>3, <1>4 DEF C!CreditsTypeOK
<1>6. LastEntryShowsBalance'
  BY <1>3 DEF IInv, LastEntryShowsBalance, C!LastEntryShowsBalance
<1>7. WebhookSecret = "mine" => PaidGrants'
  <2>1. SUFFICES ASSUME WebhookSecret = "mine", NEW u \in Threads, tx'[u].type = "GRANT"
                 PROVE  tx'[u].reference \in Orders /\ payment[tx'[u].reference] # "unpaid"
    BY <1>3 DEF IInv, NoticesTrue, PaidGrants
  <2>2. CASE u = t
    BY <1>2, <1>4, <2>1, <2>2
  <2>3. CASE u # t
    BY <1>4, <2>1, <2>3 DEF IInv, NoticesTrue
  <2> QED
    BY <2>2, <2>3
<1> QED
  BY <1>5, <1>6, <1>7

LEMMA NoTransactionType ==
  C!NoTransaction \in C!Transactions /\ C!NoTransaction.type = "none"
<1>1. (CHOOSE a \in Amounts : TRUE) \in Amounts
  BY AmountTypes
<1>2. (CHOOSE r \in Orders \cup Uses : TRUE) \in Orders \cup Uses
  BY OrderAssumption
<1> QED
  BY <1>1, <1>2 DEF C!NoTransaction, C!Transactions

LEMMA EndEffect ==
  ASSUME IInv, UNCHANGED payment, NEW t \in Threads, C!End(t),
         UNCHANGED <<balance, history, overlapped>>
  PROVE  /\ C!CreditsTypeOK' /\ LastEntryShowsBalance'
         /\ WebhookSecret = "mine" => PaidGrants'
<1>1. C!CreditsTypeOK
  BY DEF IInv, TypeOK
<1>2. tx' = [tx EXCEPT ![t] = C!NoTransaction]
  BY DEF C!End
<1>3. /\ tx' \in [Threads -> C!Transactions] /\ tx'[t].type = "none"
      /\ \A u \in Threads \ {t} : tx'[u] = tx[u]
  BY <1>1, <1>2, NoTransactionType DEF C!CreditsTypeOK
<1>4. C!CreditsTypeOK'
  BY <1>1, <1>3 DEF C!CreditsTypeOK
<1>5. LastEntryShowsBalance'
  BY DEF IInv, LastEntryShowsBalance, C!LastEntryShowsBalance
<1>6. WebhookSecret = "mine" => PaidGrants'
  BY <1>3 DEF IInv, NoticesTrue, PaidGrants
<1> QED
  BY <1>4, <1>5, <1>6

LEMMA CommitEffect ==
  ASSUME IInv, UNCHANGED payment, NEW t \in Threads, NEW change \in Int,
         C!Commit(t, change), tx[t].copy + change \in Nat,
         tx[t].type \in {"GRANT", "DEDUCT"}
  PROVE  /\ C!CreditsTypeOK' /\ LastEntryShowsBalance'
         /\ WebhookSecret = "mine" => PaidGrants'
<1> DEFINE e == C!Entry(t, change)
<1>1. C!CreditsTypeOK /\ tx[t] \in C!Transactions
  BY DEF IInv, TypeOK, C!CreditsTypeOK
<1>2. e \in C!Entries /\ e.after = tx[t].copy + change /\ e.type = tx[t].type
      /\ e.reference = tx[t].reference
  BY <1>1 DEF C!Entry, C!Entries, C!Transactions, C!CreditTransactionTypes
<1>3. /\ balance' = tx[t].copy + change /\ history' = Append(history, e)
      /\ tx' = [tx EXCEPT ![t] = C!NoTransaction] /\ overlapped' = overlapped
  BY DEF C!Commit, C!End
<1> HIDE DEF e
<1>4. /\ tx' \in [Threads -> C!Transactions] /\ tx'[t].type = "none"
      /\ \A u \in Threads \ {t} : tx'[u] = tx[u]
  BY <1>1, <1>3, NoTransactionType DEF C!CreditsTypeOK
<1>5. history \in Seq(C!Entries) /\ \A i \in DOMAIN history : history[i].after >= 0
  BY <1>1 DEF C!CreditsTypeOK
<1>6. /\ history' \in Seq(C!Entries) /\ Len(history') = Len(history) + 1
      /\ history'[Len(history')] = e
      /\ \A i \in DOMAIN history' : i # Len(history') =>
           i \in DOMAIN history /\ history'[i] = history[i]
  BY <1>2, <1>3, <1>5
<1>7. \A i \in DOMAIN history' : history'[i].after >= 0
  BY <1>2, <1>5, <1>6
<1>8. C!CreditsTypeOK'
  BY <1>1, <1>3, <1>4, <1>6, <1>7 DEF C!CreditsTypeOK
<1>9. LastEntryShowsBalance'
  BY <1>2, <1>3, <1>6 DEF LastEntryShowsBalance, C!LastEntryShowsBalance
<1>10. WebhookSecret = "mine" => PaidGrants'
  BY <1>2, <1>4, <1>6 DEF IInv, NoticesTrue, PaidGrants
<1> QED
  BY <1>8, <1>9, <1>10

----------------------------------------------------------------------------
(* Webhooks and views *)

LEMMA FaultTypes == IInv => faults \in Nat /\ (Fault => faults' \in Nat)
BY TossTablesOf DEF TossTables, Fault

LEMMA DeliveryTypes ==
  ASSUME IInv, NEW t \in Threads
  PROVE  /\ delivery \in [Threads -> Deliveries]
         /\ delivery[t] \in Deliveries /\ delivery[t].notice \in Notices
         /\ delivery[t].notice.order \in Orders
BY DEF IInv, TypeOK, Deliveries, Notices

LEMMA DeliverNoticeKeeps ==
  ASSUME IInv, NEW t \in Threads, NEW n \in Notices, DeliverNotice(t, n)
  PROVE  IInv'
<1> DEFINE d == [notice |-> n, at |-> 1]
<1>1. d \in Deliveries /\ d.at = 1 /\ d.notice = n
  BY HandlerTypes DEF Deliveries
<1>2. /\ delivery' = [delivery EXCEPT ![t] = d] /\ Verified(n) /\ n \in notices
      /\ UNCHANGED <<toss, call, ran, acked, credits>>
  BY DEF DeliverNotice
<1> HIDE DEF d
<1>3. faults' \in Nat
  BY FaultTypes DEF DeliverNotice
<1>4. WebhookSecret = "mine" /\ Normalize(n.status) = "DONE" => payment[n.order] # "unpaid"
  <2>1. Normalize(n.status) = "DONE" => n.status = "DONE"
    BY DEF Normalize
  <2>2. WebhookSecret = "mine" => n.secret = "mine"
    BY <1>2 DEF Verified
  <2> QED
    BY <1>2, <2>1, <2>2 DEF IInv, NoticesTrue
<1>5. \A k \in DOMAIN Handlers : ~ k < 1
  BY HandlerTypes
<1>6. /\ delivery' \in [Threads -> Deliveries] /\ RanInOrder'
      /\ WebhookSecret = "mine" => PaidDeliveries'
  BY <1>1, <1>2, <1>4, <1>5, DeliveryStep DEF toss
<1>7. /\ C!CreditsTypeOK' /\ LastEntryShowsBalance'
      /\ WebhookSecret = "mine" => PaidGrants'
  BY <1>2, CreditsKept DEF toss
<1>8. ran' \subseteq Notices \X DOMAIN Handlers /\ acked' \subseteq Notices /\ AckedMeansRun'
  BY <1>2 DEF IInv, TypeOK, AckedMeansRun
<1> QED
  BY <1>2, <1>3, <1>6, <1>7, <1>8, WorkFrame DEF toss

LEMMA NextHandlerEffect ==
  ASSUME IInv, NEW t \in Threads, delivery[t].at \in DOMAIN Handlers, NextHandler(t)
  PROVE  /\ UNCHANGED <<payment, billingKey, late, call, notices>> /\ faults' \in Nat
         /\ delivery' \in [Threads -> Deliveries] /\ RanInOrder'
         /\ WebhookSecret = "mine" => PaidDeliveries'
         /\ ran' \subseteq Notices \X DOMAIN Handlers /\ acked' \subseteq Notices
         /\ AckedMeansRun'
<1> DEFINE d == [delivery[t] EXCEPT !.at = @ + 1]
<1>1. /\ delivery \in [Threads -> Deliveries] /\ delivery[t] \in Deliveries
      /\ delivery[t].notice \in Notices
  BY DeliveryTypes
<1>2. delivery[t].at \in 1 .. Len(Handlers) /\ Len(Handlers) \in Nat
  BY HandlerTypes
<1>3. d \in Deliveries /\ d.at = delivery[t].at + 1 /\ d.notice = delivery[t].notice
  BY <1>1, <1>2 DEF Deliveries
<1>4. /\ delivery' = [delivery EXCEPT ![t] = d]
      /\ ran' = ran \cup {<<delivery[t].notice, delivery[t].at>>}
      /\ UNCHANGED <<toss, call, faults, acked>>
  BY <1>1 DEF NextHandler
<1> HIDE DEF d
<1>5. ASSUME NEW k \in DOMAIN Handlers, k < d.at
      PROVE  <<d.notice, k>> \in ran'
  <2>1. k \in Nat /\ delivery[t].at \in Nat
    BY <1>2, HandlerTypes
  <2>2. k < delivery[t].at \/ k = delivery[t].at
    BY <1>3, <1>5, <2>1
  <2> QED
    BY <1>3, <1>4, <2>2 DEF IInv, RanInOrder
<1>6. WebhookSecret = "mine" /\ Normalize(d.notice.status) = "DONE" =>
        payment[d.notice.order] # "unpaid"
  BY <1>2, <1>3 DEF IInv, NoticesTrue, Processing, IsDone
<1>7. /\ delivery' \in [Threads -> Deliveries] /\ RanInOrder'
      /\ WebhookSecret = "mine" => PaidDeliveries'
  BY <1>3, <1>4, <1>5, <1>6, DeliveryStep DEF toss
<1>8. ran' \subseteq Notices \X DOMAIN Handlers /\ acked' \subseteq Notices /\ AckedMeansRun'
  BY <1>1, <1>4 DEF IInv, TypeOK, AckedMeansRun
<1> QED
  BY <1>4, <1>7, <1>8, FaultTypes DEF toss

LEMMA HandlerReturnsKeeps ==
  ASSUME IInv, NEW t \in Threads, HandlerReturns(t)
  PROVE  IInv'
<1>1. delivery[t].at \in DOMAIN Handlers /\ NextHandler(t) /\ UNCHANGED credits
  BY DEF HandlerReturns
<1>2. /\ UNCHANGED <<payment, billingKey, late, call, notices>> /\ faults' \in Nat
      /\ delivery' \in [Threads -> Deliveries] /\ RanInOrder'
      /\ WebhookSecret = "mine" => PaidDeliveries'
      /\ ran' \subseteq Notices \X DOMAIN Handlers /\ acked' \subseteq Notices
      /\ AckedMeansRun'
  BY <1>1, NextHandlerEffect
<1>3. /\ C!CreditsTypeOK' /\ LastEntryShowsBalance'
      /\ WebhookSecret = "mine" => PaidGrants'
  BY <1>1, <1>2, CreditsKept
<1> QED
  BY <1>2, <1>3, WorkFrame

LEMMA CreditReadsKeeps ==
  ASSUME IInv, NEW t \in Threads, CreditReads(t)
  PROVE  IInv'
<1> DEFINE o == delivery[t].notice.order
<1>1. /\ C!Read(t, "GRANT", Price, o) /\ IsDone(t) /\ Processing(t)
      /\ UNCHANGED <<toss, call, faults, dispatch>>
  BY HandlerTypes DEF CreditReads, At, Processing
<1>2. o \in Orders /\ Price \in Amounts
  BY DeliveryTypes, AmountTypes
<1>3. WebhookSecret = "mine" => payment[o] # "unpaid"
  BY <1>1 DEF IInv, NoticesTrue
<1> HIDE DEF o
<1>4. /\ C!CreditsTypeOK' /\ LastEntryShowsBalance'
      /\ WebhookSecret = "mine" => PaidGrants'
  BY <1>1, <1>2, <1>3, ReadEffect DEF toss
<1>5. /\ delivery' \in [Threads -> Deliveries] /\ RanInOrder'
      /\ ran' \subseteq Notices \X DOMAIN Handlers /\ acked' \subseteq Notices
      /\ AckedMeansRun'
      /\ WebhookSecret = "mine" => PaidDeliveries'
  BY <1>1, DeliveryKept DEF toss
<1> QED
  BY <1>1, <1>4, <1>5, FaultTypes, WorkFrame DEF toss

LEMMA CopyTypes ==
  ASSUME IInv, NEW t \in Threads
  PROVE  tx[t].copy \in Nat /\ tx[t].amount \in Nat \ {0}
BY AmountTypes DEF IInv, TypeOK, C!CreditsTypeOK, C!Transactions

LEMMA CreditCommitsKeeps ==
  ASSUME IInv, NEW t \in Threads, CreditCommits(t)
  PROVE  IInv'
<1>1. /\ delivery[t].at \in DOMAIN Handlers /\ NextHandler(t)
      /\ tx[t].type = "GRANT" /\ C!Commit(t, tx[t].amount)
  BY DEF CreditCommits, At, C!grant
<1>2. /\ UNCHANGED <<payment, billingKey, late, call, notices>> /\ faults' \in Nat
      /\ delivery' \in [Threads -> Deliveries] /\ RanInOrder'
      /\ WebhookSecret = "mine" => PaidDeliveries'
      /\ ran' \subseteq Notices \X DOMAIN Handlers /\ acked' \subseteq Notices
      /\ AckedMeansRun'
  BY <1>1, NextHandlerEffect
<1>3. tx[t].amount \in Int /\ tx[t].copy + tx[t].amount \in Nat
  BY CopyTypes
<1>4. /\ C!CreditsTypeOK' /\ LastEntryShowsBalance'
      /\ WebhookSecret = "mine" => PaidGrants'
  BY <1>1, <1>2, <1>3, CommitEffect
<1> QED
  BY <1>2, <1>4, WorkFrame

\* The worker's delivery is over.
LEMMA DropEffect ==
  ASSUME IInv, UNCHANGED <<payment, ran>>, NEW t \in Threads,
         delivery' = [delivery EXCEPT ![t] = NoDelivery]
  PROVE  /\ delivery' \in [Threads -> Deliveries] /\ RanInOrder'
         /\ ran' \subseteq Notices \X DOMAIN Handlers
         /\ WebhookSecret = "mine" => PaidDeliveries'
<1>1. \A k \in DOMAIN Handlers : ~ k < NoDelivery.at
  BY HandlerTypes, NoDeliveryType
<1> QED
  BY <1>1, NoDeliveryType, DeliveryStep DEF IInv, TypeOK

LEMMA AcknowledgeKeeps ==
  ASSUME IInv, NEW t \in Threads, Acknowledge(t)
  PROVE  IInv'
<1> DEFINE n == delivery[t].notice
<1>1. /\ delivery[t].at # 0 /\ delivery[t].at \notin DOMAIN Handlers
      /\ delivery' = [delivery EXCEPT ![t] = NoDelivery] /\ acked' = acked \cup {n}
      /\ UNCHANGED <<payment, billingKey, late, call, ran, credits>>
      /\ notices' \subseteq notices
  BY DEF Acknowledge, Processing
<1>2. faults' \in Nat
  BY FaultTypes DEF Acknowledge
<1>3. delivery[t].at = Len(Handlers) + 1 /\ n \in Notices
  BY <1>1, DeliveryTypes, HandlerTypes DEF Deliveries
<1>4. \A k \in DOMAIN Handlers : <<n, k>> \in ran
  BY <1>3, HandlerTypes DEF IInv, RanInOrder
<1>5. acked' \subseteq Notices /\ AckedMeansRun'
  BY <1>1, <1>3, <1>4 DEF IInv, TypeOK, AckedMeansRun
<1>6. /\ delivery' \in [Threads -> Deliveries] /\ RanInOrder'
      /\ ran' \subseteq Notices \X DOMAIN Handlers
      /\ WebhookSecret = "mine" => PaidDeliveries'
  BY <1>1, DropEffect
<1>7. /\ C!CreditsTypeOK' /\ LastEntryShowsBalance'
      /\ WebhookSecret = "mine" => PaidGrants'
  BY <1>1, CreditsKept
<1> QED
  BY <1>1, <1>2, <1>5, <1>6, <1>7, WorkFrame

LEMMA RollbackEffect ==
  ASSUME IInv, UNCHANGED payment, NEW t \in Threads,
         IF C!Idle(t) THEN UNCHANGED credits ELSE C!Rollback(t)
  PROVE  /\ C!CreditsTypeOK' /\ LastEntryShowsBalance'
         /\ WebhookSecret = "mine" => PaidGrants'
<1>1. CASE UNCHANGED credits
  BY <1>1, CreditsKept
<1>2. CASE C!Rollback(t)
  BY <1>2, EndEffect DEF C!Rollback
<1> QED
  BY <1>1, <1>2

LEMMA HandlerRaisesKeeps ==
  ASSUME IInv, NEW t \in Threads, HandlerRaises(t)
  PROVE  IInv'
<1>1. /\ delivery' = [delivery EXCEPT ![t] = NoDelivery]
      /\ UNCHANGED <<payment, billingKey, late, notices, call, ran, acked>>
      /\ IF C!Idle(t) THEN UNCHANGED credits ELSE C!Rollback(t)
  BY DEF HandlerRaises, toss
<1>2. faults' \in Nat
  BY FaultTypes DEF HandlerRaises
<1>3. /\ delivery' \in [Threads -> Deliveries] /\ RanInOrder'
      /\ ran' \subseteq Notices \X DOMAIN Handlers
      /\ WebhookSecret = "mine" => PaidDeliveries'
  BY <1>1, DropEffect
<1>4. acked' \subseteq Notices /\ AckedMeansRun'
  BY <1>1 DEF IInv, TypeOK, AckedMeansRun
<1>5. /\ C!CreditsTypeOK' /\ LastEntryShowsBalance'
      /\ WebhookSecret = "mine" => PaidGrants'
  BY <1>1, RollbackEffect
<1> QED
  BY <1>1, <1>2, <1>3, <1>4, <1>5, WorkFrame

LEMMA UsesKeep ==
  ASSUME IInv, NEW t \in Threads,
         \/ \E u \in Uses, a \in Amounts : UseReads(t, u, a)
         \/ UseEnds(t)
         \/ UseFails(t)
  PROVE  IInv'
<1>1. UNCHANGED <<toss, call, dispatch>> /\ faults' \in Nat
  BY FaultTypes DEF UseReads, UseEnds, UseFails
<1>2. UNCHANGED <<payment, billingKey, late, notices, call, dispatch>>
  BY <1>1 DEF toss
<1>3. /\ C!CreditsTypeOK' /\ LastEntryShowsBalance'
      /\ WebhookSecret = "mine" => PaidGrants'
  <2>1. ASSUME NEW u \in Uses, NEW a \in Amounts, UseReads(t, u, a)
        PROVE  /\ C!CreditsTypeOK' /\ LastEntryShowsBalance'
               /\ WebhookSecret = "mine" => PaidGrants'
    BY <1>2, <2>1, ReadEffect DEF UseReads
  <2>2. CASE C!deduct(t)
    <3>1. /\ C!Commit(t, -tx[t].amount) /\ tx[t].type = "DEDUCT" /\ tx[t].copy >= tx[t].amount
      BY <2>2 DEF C!deduct
    <3>2. -tx[t].amount \in Int /\ tx[t].copy + (-tx[t].amount) \in Nat
      BY <3>1, CopyTypes
    <3> QED
      BY <1>2, <3>1, <3>2, CommitEffect
  <2>3. CASE C!deductRefused(t) \/ C!Rollback(t)
    BY <1>2, <2>3, EndEffect DEF C!deductRefused, C!Rollback
  <2> QED
    BY <2>1, <2>2, <2>3 DEF UseEnds, UseFails
<1>4. /\ delivery' \in [Threads -> Deliveries] /\ RanInOrder'
      /\ ran' \subseteq Notices \X DOMAIN Handlers /\ acked' \subseteq Notices
      /\ AckedMeansRun'
      /\ WebhookSecret = "mine" => PaidDeliveries'
  BY <1>2, DeliveryKept
<1> QED
  BY <1>1, <1>2, <1>3, <1>4, WorkFrame

----------------------------------------------------------------------------
(* The theorems *)

LEMMA InitHolds == Init => IInv
<1> SUFFICES ASSUME Init PROVE IInv
  OBVIOUS
<1>1. TossTypeOK
  BY CallType DEF Init, TossInit, TossTypeOK, Notices, WireStatuses, Secrets
<1>2. history = << >> /\ balance = 0 /\ tx = [t \in Threads |-> C!NoTransaction]
      /\ overlapped = FALSE
  BY DEF Init, C!CreditsInit
<1>3. C!CreditsTypeOK
  <2>1. history \in Seq(C!Entries) /\ \A i \in DOMAIN history : history[i].after >= 0
    BY <1>2
  <2>2. tx \in [Threads -> C!Transactions]
    BY <1>2, NoTransactionType
  <2> QED
    BY <1>2, <2>1, <2>2 DEF C!CreditsTypeOK
<1>4. delivery \in [Threads -> Deliveries] /\ \A t \in Threads : delivery[t].at = 0
  BY NoDeliveryType DEF Init
<1>5. TypeOK
  BY <1>1, <1>3, <1>4 DEF Init, TypeOK, Deliveries
<1>6. CallsHonest /\ HonestOutcome
  BY CallType DEF Init, TossInit, CallsHonest, HonestOutcome
<1>7. RanInOrder /\ AckedMeansRun /\ LastEntryShowsBalance
  BY <1>2, <1>4, HandlerTypes DEF Init, RanInOrder, AckedMeansRun, LastEntryShowsBalance,
     C!LastEntryShowsBalance
<1>8. NoticesTrue
  <2>1. \A n \in notices : ~ (n.secret = "mine" /\ n.status = "DONE")
    BY DEF Init, TossInit
  <2>2. \A t \in Threads : tx[t].type = "none"
    BY <1>2, NoTransactionType
  <2> QED
    BY <1>2, <1>4, <2>1, <2>2 DEF NoticesTrue, Processing
<1> QED
  BY <1>5, <1>6, <1>7, <1>8 DEF IInv

LEMMA StepKeeps == IInv /\ [Next]_vars => IInv'
<1> SUFFICES ASSUME IInv, [Next]_vars PROVE IInv'
  OBVIOUS
<1>1. ASSUME NEW t \in Callers, Calling(t), UNCHANGED <<dispatch, credits>>
      PROVE  IInv'
  BY <1>1, CallerAssumption, CallingKeeps
<1>2. ASSUME NEW r \in late, TossIsLate(r), UNCHANGED <<dispatch, credits>>
      PROVE  IInv'
  BY <1>2, LateKeeps
<1>3. ASSUME NEW t \in Threads, NEW n \in Notices, DeliverNotice(t, n)
      PROVE  IInv'
  BY <1>3, DeliverNoticeKeeps
<1>4. ASSUME NEW t \in Threads, Dispatching(t) \/ HandlerRaises(t)
      PROVE  IInv'
  BY <1>4, HandlerReturnsKeeps, CreditReadsKeeps, CreditCommitsKeeps, AcknowledgeKeeps,
     HandlerRaisesKeeps DEF Dispatching
<1>5. ASSUME NEW t \in Threads,
             \/ \E u \in Uses, a \in Amounts : UseReads(t, u, a)
             \/ UseEnds(t)
             \/ UseFails(t)
      PROVE  IInv'
  BY <1>5, UsesKeep
<1>6. CASE UNCHANGED vars
  <2>1. UNCHANGED <<payment, billingKey, late, notices, call, faults, dispatch, credits>>
    BY <1>6 DEF vars, toss
  <2> QED
    BY <2>1, DeliveryKept, CreditsKept, FaultTypes, WorkFrame
<1> QED
  BY <1>1, <1>2, <1>3, <1>4, <1>5, <1>6 DEF Next

\* The inductive invariant of payments: it adds what a call knows of what Toss
\* did (CallsHonest), which handlers a delivery has behind it (RanInOrder) and
\* that whatever says an order was paid is true (NoticesTrue).
THEOREM Invariance == Spec => []IInv
BY InitHolds, StepKeeps, PTL DEF Spec

\* The variables keep their types: in particular no overlap of transactions
\* makes a balance, or the balance of an entry, negative (deduct).
THEOREM TypeCorrect == Spec => []TypeOK
<1>1. IInv => TypeOK
  BY DEF IInv
<1> QED
  BY <1>1, Invariance, PTL

\* Except from revoke_billing_key, what a call returned, Toss did, and what it
\* refused, that call did not do, whatever pages came in between
\* (TossPaymentsClient).
THEOREM OutcomesHonest == Spec => []HonestOutcome
<1>1. IInv => HonestOutcome
  BY DEF IInv
<1> QED
  BY <1>1, Invariance, PTL

\* A notice is answered 200 only when every handler has succeeded for it,
\* whichever of them failed before (TossWebhookHandler.process).
THEOREM NoHandlerSkipped == Spec => []AckedMeansRun
<1>1. IInv => AckedMeansRun
  BY DEF IInv
<1> QED
  BY <1>1, Invariance, PTL

\* With a secret configured, credits are granted only for orders that were
\* paid; without one the code accepts every notice (verify).
THEOREM CreditsArePaid == WebhookSecret = "mine" => (Spec => []CreditedIsPaid)
<1> SUFFICES ASSUME WebhookSecret = "mine" PROVE Spec => []CreditedIsPaid
  OBVIOUS
<1>1. IInv => CreditedIsPaid
  BY DEF IInv, NoticesTrue, CreditedIsPaid
<1> QED
  BY <1>1, Invariance, PTL

\* The last entry of the history shows the balance, even if transactions have
\* overlapped and lost a change (grant, deduct).
THEOREM LastEntryRight == Spec => []LastEntryShowsBalance
<1>1. IInv => LastEntryShowsBalance
  BY DEF IInv
<1> QED
  BY <1>1, Invariance, PTL

----------------------------------------------------------------------------
(* The history *)

\* What a step does to the credits: nothing, or one transaction reads, commits
\* or ends without a trace.
CreditStep ==
  \/ UNCHANGED credits
  \/ \E t \in Threads, o \in Orders : C!Read(t, "GRANT", Price, o)
  \/ \E t \in Threads, a \in Amounts, u \in Uses : C!Read(t, "DEDUCT", a, u)
  \/ \E t \in Threads : C!grant(t) \/ C!deduct(t)
  \/ \E t \in Threads : C!End(t) /\ UNCHANGED <<balance, history, overlapped>>

LEMMA RollbackIsCreditStep ==
  ASSUME NEW t \in Threads, C!Rollback(t)
  PROVE  CreditStep
BY DEF C!Rollback, CreditStep

LEMMA StepOfCredits == IInv /\ [Next]_vars => CreditStep
<1> SUFFICES ASSUME IInv, [Next]_vars PROVE CreditStep
  OBVIOUS
<1>1. ASSUME NEW t \in Threads, HandlerReturns(t) \/ Acknowledge(t)
      PROVE  CreditStep
  BY <1>1 DEF HandlerReturns, Acknowledge, CreditStep
<1>2. ASSUME NEW t \in Threads, CreditReads(t)
      PROVE  CreditStep
  <2>1. C!Read(t, "GRANT", Price, delivery[t].notice.order)
    BY <1>2 DEF CreditReads
  <2>2. delivery[t].notice.order \in Orders
    BY DeliveryTypes
  <2> QED
    BY <2>1, <2>2 DEF CreditStep
<1>3. ASSUME NEW t \in Threads, CreditCommits(t)
      PROVE  CreditStep
  BY <1>3 DEF CreditCommits, CreditStep
<1>4. ASSUME NEW t \in Threads, HandlerRaises(t)
      PROVE  CreditStep
  <2>1. UNCHANGED credits \/ C!Rollback(t)
    BY <1>4 DEF HandlerRaises
  <2> QED
    BY <2>1, RollbackIsCreditStep DEF CreditStep
<1>5. ASSUME NEW t \in Threads, NEW u \in Uses, NEW a \in Amounts, UseReads(t, u, a)
      PROVE  CreditStep
  BY <1>5 DEF UseReads, CreditStep
<1>6. ASSUME NEW t \in Threads, UseEnds(t)
      PROVE  CreditStep
  BY <1>6 DEF UseEnds, C!deductRefused, CreditStep
<1>7. ASSUME NEW t \in Threads, UseFails(t)
      PROVE  CreditStep
  BY <1>7, RollbackIsCreditStep DEF UseFails
<1>8. CASE UNCHANGED credits
  BY <1>8 DEF CreditStep
<1>9. \A t \in Threads, n \in Notices : DeliverNotice(t, n) => UNCHANGED credits
  BY DEF DeliverNotice
<1>10. UNCHANGED vars => UNCHANGED credits
  BY DEF vars
<1> QED
  BY <1>1, <1>2, <1>3, <1>4, <1>5, <1>6, <1>7, <1>8, <1>9, <1>10 DEF Next, Dispatching

LEMMA AccountedInitially == Init => C!Accounted
<1> SUFFICES ASSUME Init PROVE C!Accounted
  OBVIOUS
<1>1. history = << >> /\ balance = 0 /\ \A t \in Threads : C!Idle(t)
  BY NoTransactionType DEF Init, C!CreditsInit, C!Idle
<1> QED
  BY <1>1 DEF C!Accounted, C!EntriesChained, C!OneAtATime, C!AfterEntry

\* A transaction that reads while another is open overlaps with it; one that
\* reads alone has the balance.
LEMMA ReadAccounted ==
  ASSUME IInv, C!Accounted, NEW t \in Threads, NEW type \in {"GRANT", "DEDUCT"},
         NEW a \in Amounts, NEW r \in Orders \cup Uses, C!Read(t, type, a, r)
  PROVE  C!Accounted'
<1> DEFINE x == [type |-> type, amount |-> a, reference |-> r, copy |-> balance]
<1> SUFFICES ASSUME ~overlapped' PROVE C!EntriesChained' /\ C!OneAtATime'
  BY DEF C!Accounted
<1>1. /\ ~overlapped /\ \A u \in Threads : C!Idle(u)
      /\ tx' = [tx EXCEPT ![t] = x] /\ balance' = balance /\ history' = history
  BY DEF C!Read
<1>2. C!EntriesChained'
  BY <1>1 DEF C!Accounted, C!EntriesChained, C!AfterEntry
<1>3. tx'[t].copy = balance' /\ \A u \in Threads \ {t} : tx'[u] = tx[u]
  BY <1>1 DEF IInv, TypeOK, C!CreditsTypeOK
<1>4. C!OneAtATime'
  BY <1>1, <1>3 DEF C!OneAtATime, C!Idle
<1> QED
  BY <1>2, <1>4

\* A transaction that ends leaves nobody behind.
LEMMA EndLeavesNone ==
  ASSUME IInv, C!OneAtATime, NEW t \in Threads, ~C!Idle(t), C!End(t)
  PROVE  \A u \in Threads : tx'[u].type = "none"
<1>1. tx \in [Threads -> C!Transactions] /\ tx' = [tx EXCEPT ![t] = C!NoTransaction]
  BY DEF IInv, TypeOK, C!CreditsTypeOK, C!End
<1>2. \A u \in Threads \ {t} : tx[u].type = "none"
  BY DEF C!OneAtATime, C!Idle
<1> QED
  BY <1>1, <1>2, NoTransactionType

\* The entry of a transaction that was alone starts from the balance.
LEMMA CommitAccounted ==
  ASSUME IInv, C!Accounted, NEW t \in Threads, NEW change \in Int, ~C!Idle(t),
         C!Commit(t, change)
  PROVE  C!Accounted'
<1> DEFINE e == C!Entry(t, change)
<1> SUFFICES ASSUME ~overlapped' PROVE C!EntriesChained' /\ C!OneAtATime'
  BY DEF C!Accounted
<1>1. C!EntriesChained /\ C!OneAtATime
  BY DEF C!Commit, C!Accounted
<1>2. tx[t].copy = balance /\ balance \in Nat /\ history \in Seq(C!Entries)
      /\ tx[t] \in C!Transactions
  BY <1>1 DEF C!OneAtATime, IInv, TypeOK, C!CreditsTypeOK
<1>3. e.after = balance + change /\ e.amount = change
  BY <1>2 DEF C!Entry
<1>4. /\ balance' = balance + change /\ history' = Append(history, e)
      /\ C!End(t)
  BY <1>2 DEF C!Commit
<1> HIDE DEF e
<1>5. /\ Len(history) \in Nat /\ Len(history') = Len(history) + 1
      /\ DOMAIN history = 1 .. Len(history) /\ DOMAIN history' = 1 .. Len(history')
      /\ history'[Len(history')] = e
      /\ \A i \in 1 .. Len(history) : history'[i] = history[i]
  BY <1>2, <1>4
<1>6. balance' = C!AfterEntry(Len(history))'
  BY <1>3, <1>4, <1>5 DEF C!AfterEntry
<1>7. ASSUME NEW n \in DOMAIN history'
      PROVE  history'[n].after = (IF n - 1 = 0 THEN 0 ELSE history'[n - 1].after)
                                   + history'[n].amount
  <2>1. CASE n = Len(history')
    <3>1. balance = IF Len(history) = 0 THEN 0 ELSE history[Len(history)].after
      BY <1>1 DEF C!EntriesChained, C!AfterEntry
    <3>2. n - 1 = Len(history) /\ history'[n] = e
      BY <1>5, <2>1
    <3>3. n - 1 # 0 => history'[n - 1] = history[n - 1]
      BY <1>5, <3>2
    <3> QED
      BY <1>3, <3>1, <3>2, <3>3
  <2>2. CASE n # Len(history')
    <3>1. n \in 1 .. Len(history) /\ (n - 1 # 0 => n - 1 \in 1 .. Len(history))
      BY <1>5, <1>7, <2>2
    <3>2. history[n].after = (IF n - 1 = 0 THEN 0 ELSE history[n - 1].after)
                               + history[n].amount
      BY <1>1, <1>5, <3>1 DEF C!EntriesChained, C!AfterEntry
    <3> QED
      BY <1>5, <3>1, <3>2
  <2> QED
    BY <2>1, <2>2
<1>8. C!EntriesChained'
  BY <1>6, <1>7 DEF C!EntriesChained, C!AfterEntry
<1>9. C!OneAtATime'
  BY <1>1, <1>4, EndLeavesNone DEF C!OneAtATime, C!Idle
<1> QED
  BY <1>8, <1>9

LEMMA EndAccounted ==
  ASSUME IInv, C!Accounted, NEW t \in Threads, C!End(t),
         UNCHANGED <<balance, history, overlapped>>
  PROVE  C!Accounted'
<1> SUFFICES ASSUME ~overlapped' PROVE C!EntriesChained' /\ C!OneAtATime'
  BY DEF C!Accounted
<1>1. C!EntriesChained /\ C!OneAtATime
  BY DEF C!Accounted
<1>2. C!EntriesChained'
  BY <1>1 DEF C!EntriesChained, C!AfterEntry
<1>3. /\ tx'[t].type = "none" /\ \A u \in Threads \ {t} : tx'[u] = tx[u]
  BY NoTransactionType DEF IInv, TypeOK, C!CreditsTypeOK, C!End
<1>4. C!OneAtATime'
  BY <1>1, <1>3 DEF C!OneAtATime, C!Idle
<1> QED
  BY <1>2, <1>4

LEMMA StepAccounted == IInv /\ C!Accounted /\ [Next]_vars => C!Accounted'
<1> SUFFICES ASSUME IInv, C!Accounted, CreditStep PROVE C!Accounted'
  BY StepOfCredits
<1>1. CASE UNCHANGED credits
  BY <1>1 DEF credits, C!Accounted, C!EntriesChained, C!OneAtATime, C!AfterEntry, C!Idle
<1>2. ASSUME NEW t \in Threads, NEW o \in Orders, C!Read(t, "GRANT", Price, o)
      PROVE  C!Accounted'
  BY <1>2, AmountTypes, ReadAccounted
<1>3. ASSUME NEW t \in Threads, C!grant(t) \/ C!deduct(t)
      PROVE  C!Accounted'
  <2>1. tx[t].amount \in Int /\ -tx[t].amount \in Int
    BY CopyTypes
  <2>2. \E change \in Int : ~C!Idle(t) /\ C!Commit(t, change)
    BY <1>3, <2>1 DEF C!grant, C!deduct, C!Idle
  <2> QED
    BY <2>2, CommitAccounted
<1> QED
  BY <1>1, <1>2, <1>3, ReadAccounted, EndAccounted DEF CreditStep

LEMMA LeastNumber ==
  ASSUME NEW T \in SUBSET Nat, T # {}
  PROVE  \E x \in T : \A y \in T : x <= y
<1> DEFINE R == {p \in Nat \X Nat : p[1] < p[2]}
<1>1. IsWellFoundedOn(R, Nat)
  BY NatLessThanWellFounded DEF OpToRel
<1>2. PICK x \in T : \A y \in T : <<y, x>> \notin R
  <2> HIDE DEF R
  <2> QED
    BY <1>1, WFMin
<1>3. \A y \in T : ~ (y < x)
  BY <1>2
<1> QED
  BY <1>3

\* A chain of entries adds up: what the first n amounts sum to is what the
\* n-th entry left.  SumTo is a function that satisfies its equation, because
\* n |-> AfterEntry(n) is one; a least n at which the two differed would
\* contradict the equation at n.
LEMMA ChainAddsUp ==
  ASSUME C!CreditsTypeOK, C!EntriesChained
  PROVE  C!SumTo[Len(history)] = C!AfterEntry(Len(history))
<1> DEFINE D == 0 .. Len(history)
           Eq(f) == f = [n \in D |-> IF n = 0 THEN 0 ELSE f[n - 1] + history[n].amount]
           after == [n \in D |-> C!AfterEntry(n)]
<1>1. Len(history) \in Nat /\ DOMAIN history = 1 .. Len(history)
  BY DEF C!CreditsTypeOK
<1>2. \A n \in D : n # 0 => n \in DOMAIN history /\ n - 1 \in D
  BY <1>1
<1>3. \A n \in D : after[n] = IF n = 0 THEN 0 ELSE after[n - 1] + history[n].amount
  BY <1>2 DEF C!EntriesChained, C!AfterEntry
<1>4. Eq(after)
  BY <1>3
<1>5. C!SumTo = CHOOSE f : Eq(f)
  BY Zenon DEF C!SumTo
<1> HIDE DEF after
<1>6. Eq(C!SumTo)
  <2> HIDE DEF Eq
  <2> QED
    BY <1>4, <1>5
<1>7. \A n \in D : C!SumTo[n] = IF n = 0 THEN 0 ELSE C!SumTo[n - 1] + history[n].amount
  BY <1>6
<1> DEFINE Wrong == {n \in D : C!SumTo[n] # after[n]}
<1>8. Wrong = {}
  <2> SUFFICES ASSUME Wrong # {} PROVE FALSE
    OBVIOUS
  <2>1. Wrong \in SUBSET Nat
    BY <1>1
  <2>2. PICK n \in Wrong : \A m \in Wrong : n <= m
    <3> HIDE DEF Wrong
    <3> QED
      BY <2>1, LeastNumber
  <2>3. n \in D /\ n \in Nat /\ n # 0
    BY <1>1, <1>3, <1>7, <2>2
  <2>4. n - 1 \in D /\ n - 1 \notin Wrong
    BY <1>2, <2>1, <2>2, <2>3
  <2>5. C!SumTo[n - 1] = after[n - 1]
    BY <2>4
  <2> QED
    BY <1>3, <1>7, <2>2, <2>3, <2>5
<1>9. Len(history) \in D
  BY <1>1
<1> QED
  BY <1>8, <1>9 DEF after

\* As long as no two transactions were open at once, the amounts of the
\* history add up to the balance: no change is missing and none is recorded
\* that did not happen, whatever failed on the way (grant, deduct).
THEOREM EntriesAccount == Spec => []HistoryAddsUp
<1>1. IInv /\ C!Accounted => HistoryAddsUp
  <2> SUFFICES ASSUME IInv, C!Accounted, ~overlapped
               PROVE  C!SumTo[Len(history)] = balance
    BY DEF HistoryAddsUp, C!HistoryAddsUp
  <2>1. C!CreditsTypeOK /\ C!EntriesChained
    BY DEF IInv, TypeOK, C!Accounted
  <2> QED
    BY <2>1, ChainAddsUp DEF C!EntriesChained
<1>2. Spec => []C!Accounted
  BY AccountedInitially, StepAccounted, Invariance, PTL DEF Spec
<1> QED
  BY <1>1, <1>2, Invariance, PTL

----------------------------------------------------------------------------
(* The refinement of PrepaidCredits *)

LEMMA TransactionsInitially == Init => TransactionsOK
BY NoTransactionType DEF Init, C!CreditsInit, TransactionsOK

\* A worker's transaction becomes x, the others' stay.
LEMMA TransactionBecomes ==
  ASSUME IInv, TransactionsOK, NEW t \in Threads, NEW x, tx' = [tx EXCEPT ![t] = x],
         x.type = "GRANT" => x.amount = Price /\ x.reference \in Orders,
         x.type = "DEDUCT" => x.reference \in Uses
  PROVE  TransactionsOK'
<1>1. tx'[t] = x /\ \A u \in Threads \ {t} : tx'[u] = tx[u]
  BY DEF IInv, TypeOK, C!CreditsTypeOK
<1>2. ASSUME NEW u \in Threads
      PROVE  /\ tx'[u].type = "GRANT" => tx'[u].amount = Price /\ tx'[u].reference \in Orders
             /\ tx'[u].type = "DEDUCT" => tx'[u].reference \in Uses
  BY <1>1 DEF TransactionsOK
<1> QED
  BY <1>2 DEF TransactionsOK

LEMMA StepKeepsTransactions == IInv /\ TransactionsOK /\ [Next]_vars => TransactionsOK'
<1> SUFFICES ASSUME IInv, TransactionsOK, CreditStep PROVE TransactionsOK'
  BY StepOfCredits
<1>1. CASE UNCHANGED credits
  BY <1>1 DEF credits, TransactionsOK
<1>2. ASSUME NEW t \in Threads, NEW o \in Orders, C!Read(t, "GRANT", Price, o)
      PROVE  TransactionsOK'
  <2> DEFINE x == [type |-> "GRANT", amount |-> Price, reference |-> o, copy |-> balance]
  <2>1. tx' = [tx EXCEPT ![t] = x]
    BY <1>2 DEF C!Read
  <2>2. x.type = "GRANT" /\ x.amount = Price /\ x.reference = o
    OBVIOUS
  <2> QED
    BY <2>1, <2>2, TransactionBecomes
<1>3. ASSUME NEW t \in Threads, NEW a \in Amounts, NEW u \in Uses, C!Read(t, "DEDUCT", a, u)
      PROVE  TransactionsOK'
  <2> DEFINE x == [type |-> "DEDUCT", amount |-> a, reference |-> u, copy |-> balance]
  <2>1. tx' = [tx EXCEPT ![t] = x]
    BY <1>3 DEF C!Read
  <2>2. x.type = "DEDUCT" /\ x.reference = u
    OBVIOUS
  <2> QED
    BY <2>1, <2>2, TransactionBecomes
<1>4. ASSUME NEW t \in Threads, C!End(t)
      PROVE  TransactionsOK'
  BY <1>4, NoTransactionType, TransactionBecomes DEF C!End
<1> QED
  BY <1>1, <1>2, <1>3, <1>4 DEF CreditStep, C!grant, C!deduct, C!Commit

\* Toss pays one order at a time, and nobody is credited meanwhile.
LEMMA ExecutePays ==
  ASSUME TossTables, NEW r \in Requests,
         Execute(r) \/ UNCHANGED <<payment, billingKey, notices>>
  PROVE  UNCHANGED Paid \/ \E o \in Orders : Paid' = Paid \cup {o}
<1>1. ASSUME NEW status \in {"done", "canceled"}, NEW wire,
             PaymentBecomes(r.order, status, wire)
      PROVE  \E o \in Orders : Paid' = Paid \cup {o}
  <2>1. r.order \in Orders
    BY DEF Requests
  <2>2. payment'[r.order] # "unpaid" /\ \A o \in Orders \ {r.order} : payment'[o] = payment[o]
    BY <1>1, <2>1 DEF PaymentBecomes, TossTables
  <2>3. Paid' = Paid \cup {r.order}
    BY <2>1, <2>2 DEF Paid
  <2> QED
    BY <2>1, <2>3
<1>2. ASSUME UNCHANGED payment
      PROVE  UNCHANGED Paid
  BY <1>2 DEF Paid
<1> QED
  BY <1>1, <1>2 DEF Execute, KeyBecomes

LEMMA StepOfPayment ==
  ASSUME IInv, [Next]_vars
  PROVE  \/ UNCHANGED Paid
         \/ UNCHANGED credits /\ \E o \in Orders : Paid' = Paid \cup {o}
<1>1. TossTables /\ CallsTable
  BY TossTablesOf, CallsTableOf
<1>2. ASSUME UNCHANGED payment
      PROVE  UNCHANGED Paid
  BY <1>2 DEF Paid
<1>3. ASSUME NEW t \in Callers, Calling(t), UNCHANGED <<dispatch, credits>>
      PROVE  UNCHANGED Paid \/ \E o \in Orders : Paid' = Paid \cup {o}
  <2>1. CASE TossAnswers(t)
    <3>1. call[t].request \in Requests
      BY <1>1, CallerAssumption DEF CallsTable, Calls
    <3> QED
      BY <1>1, <2>1, <3>1, ExecutePays DEF TossAnswers
  <2>2. CASE ~TossAnswers(t)
    BY <1>2, <1>3, <2>2 DEF Calling, confirm_payment, charge_billing_key, cancel_payment,
       issue_billing_key, revoke_billing_key, Send, Finish, ConnectionFails, GatewayAnswers, toss
  <2> QED
    BY <2>1, <2>2
<1>4. ASSUME NEW r \in late, TossIsLate(r), UNCHANGED <<dispatch, credits>>
      PROVE  UNCHANGED Paid \/ \E o \in Orders : Paid' = Paid \cup {o}
  BY <1>1, <1>4, ExecutePays DEF TossIsLate, TossTables
<1>5. ASSUME NEW t \in Threads, NEW n \in Notices, DeliverNotice(t, n)
      PROVE  UNCHANGED payment
  BY <1>5 DEF DeliverNotice, toss
<1>6. ASSUME NEW t \in Threads, Dispatching(t) \/ HandlerRaises(t)
      PROVE  UNCHANGED payment
  BY <1>6 DEF Dispatching, HandlerReturns, CreditReads, CreditCommits, NextHandler,
     Acknowledge, HandlerRaises, toss
<1>7. ASSUME NEW t \in Threads,
             \/ \E u \in Uses, a \in Amounts : UseReads(t, u, a)
             \/ UseEnds(t)
             \/ UseFails(t)
      PROVE  UNCHANGED payment
  BY <1>7 DEF UseReads, UseEnds, UseFails, toss
<1>8. CASE UNCHANGED vars
  BY <1>2, <1>8 DEF vars, toss
<1> QED
  BY <1>2, <1>3, <1>4, <1>5, <1>6, <1>7, <1>8 DEF Next

LEMMA CreditsPromised ==
  ASSUME IInv, C!Accounted, TransactionsOK, WebhookSecret = "mine", ~overlapped,
         UNCHANGED Paid, CreditStep
  PROVE  [Promise!Next]_<<Paid, balance, history>>
<1>1. C!OneAtATime
  BY DEF C!Accounted
<1>2. ASSUME NEW t \in Threads, C!grant(t)
      PROVE  Promise!Next
  <2>1. /\ tx[t].type = "GRANT" /\ tx[t].amount = Price /\ tx[t].copy = balance
        /\ tx[t].reference \in Paid
    BY <1>1, <1>2 DEF C!grant, C!OneAtATime, C!Idle, TransactionsOK, IInv, NoticesTrue, Paid
  <2>2. Promise!Buy(tx[t].reference)
    BY <1>2, <2>1 DEF C!grant, C!Commit, C!Entry, Promise!Buy, Promise!Change
  <2> QED
    BY <2>1, <2>2 DEF Promise!Next, Paid
<1>3. ASSUME NEW t \in Threads, C!deduct(t)
      PROVE  Promise!Next
  <2>1. /\ tx[t].type = "DEDUCT" /\ tx[t].copy = balance /\ tx[t].reference \in Uses
        /\ tx[t].amount \in Amounts /\ tx[t].copy >= tx[t].amount
        /\ C!Commit(t, -tx[t].amount)
    BY <1>1, <1>3 DEF C!deduct, C!OneAtATime, C!Idle, TransactionsOK, IInv, TypeOK,
       C!CreditsTypeOK, C!Transactions
  <2>2. balance \in Int /\ tx[t].amount \in Int
    BY AmountTypes, <2>1, CopyTypes
  <2>3. tx[t].amount <= balance
    BY <2>1, <2>2
  <2>4. Promise!Use(tx[t].reference, tx[t].amount)
    BY <2>1, <2>3 DEF C!Commit, C!Entry, Promise!Use, Promise!Change
  <2> QED
    BY <2>1, <2>4 DEF Promise!Next
<1> QED
  BY <1>2, <1>3 DEF CreditStep, credits, C!Read

\* Every step of the workers is a step of the promise or invisible to it, until
\* transactions overlap.
THEOREM Implementation ==
  ASSUME WebhookSecret = "mine"
  PROVE  Spec => KeepsPromise
<1>1. Init => Promise!Init
  BY DEF Init, TossInit, C!CreditsInit, Promise!Init, Paid
<1>2. IInv /\ C!Accounted /\ TransactionsOK /\ [Next]_vars =>
        [overlapped \/ Promise!Next]_<<Paid, balance, history>>
  <2> SUFFICES ASSUME IInv, C!Accounted, TransactionsOK, [Next]_vars, ~overlapped
               PROVE  [Promise!Next]_<<Paid, balance, history>>
    OBVIOUS
  <2>1. CASE UNCHANGED Paid
    BY <2>1, StepOfCredits, CreditsPromised
  <2>2. ASSUME UNCHANGED credits, NEW o \in Orders, Paid' = Paid \cup {o}
        PROVE  Promise!Next
    BY <2>2 DEF credits, Promise!Next, Promise!Pay
  <2> QED
    BY <2>1, <2>2, StepOfPayment
<1>3. Spec => []C!Accounted
  BY AccountedInitially, StepAccounted, Invariance, PTL DEF Spec
<1>4. Spec => []TransactionsOK
  BY TransactionsInitially, StepKeepsTransactions, Invariance, PTL DEF Spec
<1> QED
  BY <1>1, <1>2, <1>3, <1>4, Invariance, PTL DEF Spec, KeepsPromise
=============================================================================
