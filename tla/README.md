# A verification development of createus-django-common

This directory holds TLA+ models of the parts of `createus_common` whose
correctness depends on what runs concurrently, what fails half way and what
arrives late, the TLC configurations that check them on small instances, and
proofs of the main safety properties that TLAPS checks for instances of every
size. Paths below are relative to `createus_common/` unless they start with
`docs/`.

| file | what it is |
| --- | --- |
| `Entitlement.tla` | the entitlement engine as pure operators on one subscription row |
| `AppleSync.tla` | the App Store synchronisation: endpoints, webhook, daily command, database, App Store |
| `Subscriptions.tla` | abstract specification: what billing promises about a project's subscribers |
| `AppleSync_proofs.tla` | theorems about `AppleSync`, with proofs: its state, and the refinement |
| `AppleSync_effects_proofs.tla` | the same: what it writes to the ledger, settles and signals, and how often |
| `EmailLogin.tla` | passwordless login: request-code, verify-code, accounts and tokens |
| `EmailLogin_proofs.tla` | theorems about `EmailLogin`, with proofs |
| `EmailLogin_overlap_proofs.tla` | the same: what overlapping requests can do and cannot do |
| `PayPal.tla`, `PayPal_proofs.tla` | the PayPal client: token cache, timeouts, retries, webhook verification |
| `Toss.tla`, `Credits.tla` | the Toss Payments client; usage credits |
| `Payments.tla`, `Payments_proofs.tla` | the composition of both with the webhook dispatch: what is paid is credited |
| `PrepaidCredits.tla` | abstract specification: what payments and credits promise a project |
| `ThreadChat.tla`, `ThreadChat_proofs.tla` | message threads: the polling widget over the list view |
| `RateLimit.tla`, `RateLimit_proofs.tla` | the OTP rate limits over a cache whose counters expire |
| `MC*.tla`, `MC*.cfg` | instances for TLC; a configuration is named after its module and run |
| `PROJECT.json` | components, runs, mutants, source map, findings, hazards, theorems |

Run a model with `tlc -config MCAppleSync_concurrent.cfg MCAppleSync`, the
proofs with `tlapm AppleSync_proofs.tla` and so on for the other seven modules.

## 1. Inventory

The package is a library of Django building blocks. A project provides the
concrete models, the URLs and the workers; every entry point runs in a web
worker or a management command, and all of them share one database, one cache
and a few external services. No view opens a transaction around a request:
each ORM statement commits on its own, except inside the `atomic` blocks named
below. That is where most of the difficulty comes from.

**App Store synchronisation** (`billing/services/apple.py`, `billing/views.py`).
`AppleSubscriptionSyncService` has three callers: the activation endpoint
(`activate_for_user`: verify the client's JWS, ask the App Store Server API for
the current state, link the subscription to the user, apply), the Server
Notifications V2 webhook (`handle_notification`: verify, `get_or_create` a log
row, look the subscription up, apply, settle the log row) and the command
`sync_appstore_subscriptions` (`sync_subscription` of each row of a queryset).
Hard: notifications are delivered late, twice, concurrently and out of order;
a row read before an API call or before another request's commit is later saved
whole; an exception anywhere must leave the App Store willing to retry.
Correct when: a saved row repeats only what the App Store said of its
subscription, or of another one of the same subscription group (an answer of the
API is about a group, and `_select_snapshot` may fall back on another member); a
notification answered 200 was not lost; a settled notification
is never applied again; an activation touches only its own user's row; drift is
corrected.

**Entitlement engine** (`billing/services/entitlement.py`, `billing/signals.py`).
State: the subscription table, the transaction ledger. `get_or_create_for_user`
links, `apply_state` derives every field of the row from one observation, saves
row and ledger in one transaction, and sends a signal afterwards. Correct when:
no other user's row is taken, the start is set once, row and ledger agree,
applying an observation twice changes nothing, receivers end up with what the
rows say.

**Reconciliation command** (`billing/management/commands/`). A bounded queryset
read once, then one API call and one save per row; a `BillingException` skips
the row, any other exception ends the run. Correct when: run daily, it repairs
what the webhook missed.

**Billing models** (`billing/models/`, `billing/choices.py`). Columns, uniqueness
(`notification_uuid`, `transaction_id`, the project's one-to-one user; *not*
`external_subscription_id`). Payments, billing keys and referrals are tables no
code of the library writes.

**App Store provider** (`billing/providers/apple/`, `billing/providers/base.py`).
JWS verification (Apple's library), mapping to normalized data, one API call.

**E-mail code login** (`auth/views.py`, `auth/services/`, `auth/models.py`).
State: code rows, user table, tokens. `request-code` expires the pending codes
of the address one by one, creates a new one, mails it; `verify-code` reads the
newest matching pending row, marks it, looks an account up twice or creates it,
issues a token. Every step is a statement of its own. Hard: overlapping
requests, requests that die half way, addresses that differ in case only.
Correct when: a login ends in an account of the very address whose code was
accepted; nobody who comes after a code was accepted gets in with it; only the
newest is accepted; who has an account gets no second one.

**OTP rate limit** (`auth/rate_limit.py`). Cache counters with a timeout, `add`
then `incr`, and a `set` when the key expired in between; the failure limit is
looked at first and counted later. Hard: workers and expiries interleave between
any two cache operations. Correct when: one window admits a bounded number of
calls, and a blocked address is unblocked again.

**Password login backend** (`auth/backends.py`). `_pick_best_user`, a pure choice
among accounts with one address.

**PayPal client** (`billing/providers/paypal/`). A process-wide token cache with a
lock and double check, request ids for retries (where the caller passes one),
webhook verification by an API call. Hard: expiry against the safety margin, threads that wait for the lock,
answers lost after PayPal did the request, gateways that answer in its place,
late executions. Correct when: no request arrives under a dead token, a result
that was returned has taken effect, a repeated request succeeds in the end, and
only PayPal's events pass.

**Usage credits** (`billing/services/credits.py`). `grant` and `deduct` read the
balance, save it and write a history entry in one transaction; whether the row
is locked is up to the project's `get_balance_instance`. `CreditRequiredMixin`
admits a request on a positive balance. Correct when: the balance is the sum of
the history, and never negative.

**Subscription service of other providers** (`billing/services/subscriptions.py`).
`activate`, `cancel`, `expire` on an instance the caller read.

**Toss Payments and webhook dispatch** (`billing/providers/toss_payments.py`,
`billing/webhooks/toss.py`, `billing/services/webhooks.py`). Five calls, one HTTP
exchange each; webhooks verified by a secret in their body, their handlers called
in order, the first exception ending the dispatch. Hard: the connection fails
after Toss did the request, or a gateway answers in its place; the webhook is what is left, and it is repeated until
it is answered. Correct when: a caller is not told a refusal of what was done, an
answered webhook went through every handler, what is paid is credited.

**Thread messages and chat widget** (`messaging/`). `GET ?last_id=` polling by a
JavaScript widget against concurrent posts. Hard: a poll is sent every five
seconds whether or not the last one was answered, answers arrive in any order,
the answer to one's own post moves `lastId` too, whoever posts may mark the
message internal. Correct when: no client sees an internal message of somebody
else, and none is skipped.

**The rest** — mail delivery, serializers, admin, migrations, settings, file
helpers, order ids, the Stripe and realtime placeholders — is declarative,
stateless or empty.

The hazards that follow from this are listed with their lines in
`PROJECT.json`.

## 2. Modules and how they correspond to the code

### Entitlement

An App Store subscription is a history of numbered entries; a date, product or
environment copied from a payload is represented by the number of the entry the
payload was issued at, and `None` by 0. This is enough to say which columns are
overwritten, by what, and whether an older value replaced a newer one.
`ApplyState` is `apply_state` on the row in memory, `StateToStatus` and
`SignalFor` are `_STATE_TO_STATUS` and `_fire_signal`, `NewRow` the unsaved row of
`get_or_create_for_user`, `SyncableStatuses` the command's filter. Columns that are
always assigned together are one field (`tx`: environment, product, expiry;
`revoked`: date and reason; `renewal`: the five renewal fields).

### AppleSync

| state | code |
| --- | --- |
| `rows`, `nextPk` | the subscription table, keyed by its one-to-one user column |
| `ledger` | the transaction table: by `transaction_id`, the entry its row was last copied from |
| `log` | the notification table: `processing_status` by `notification_uuid` |
| `task` | a worker's program counter and local variables, the copy of the row included |
| `history` | the App Store (external) |
| `acked`, `told`, `fired`, `handled` | observers: answers 200, what receivers were sent, what was committed |
| `faults` | how many failures were injected |

A request is split at every database statement or transaction, at the API call,
and between commit and signal; between two of these nothing another process can
see happens. `Activate`, `Fetch`, `Link`, `Insert`/`Update`, `FireSignal` are the
activation; `ReceiveNotification` (or `DuplicateDelivery`), `FindForNotification`,
`Update`, `FireSignal`, `Settle` the webhook, with `LogFailure` for its except
branch; `StartSweep`, `SyncNext`, `Fetch`, `Update`, `FireSignal` the command.
`InsertConflict` is the one-to-one column refusing a second row of a user.
`FetchFails`, `Raise`, `ReceiverRaises` and `Crash` are a `BillingException` from the
API, any other exception, an exception of a receiver (after the commit), and the
death of the process. Notifications may be delivered at any time, in any order
and any number of times once they exist: retries, duplicates and losses need no
action of their own.

`Fetch` is `get_subscription_statuses` and `_select_snapshot`. An answer is about the
subscription group (`Groups`): it holds the newest entries of some of its
subscriptions, since the client skips an item whose status it does not know, each
with or without its transaction and renewal info (`Shapes`). `Selected` takes the
item of the subscription asked for if it carries its transaction, and otherwise
the most recently purchased one, which may be another subscription's: state, start
and transaction of that one are then saved in the row. The properties say "of the
group" where the code does no better, and those that need the subscription itself
(`LiveRowsConverge`, `ReceiversConverge`, `ReopeningCorrectsDrift`) speak of subscriptions alone in their group. `Dated` are
the subscriptions whose payloads carry `original_purchase_date`; without it
`started_at` is taken from `purchase_date`.

Left out: the order by `expires_at` (any `BatchSize` due rows); the reversal of a
refund; the `plan` column; the ledger's columns beyond the entry they were copied
from; an item with a transaction but no purchase date (purchases are dated in the
order they were made).
Bare notifications (no transaction or no status, such as TEST) are settled
IGNORED, as in the code.

### Subscriptions

The abstract specification: the App Store reports, and an account that shows a
subscription shows that one for ever, with one start, and a status that has been
reported of its group. There are no workers, copies, retries or failures in it. `AppleSync`
instantiates it with `shown` the view of each row (`Promise`), and `KeepsPromise`
says that every save is a `Subscribe` or a `Refresh` and every other step of the
services is invisible.

### EmailLogin

`codes`, `accounts` and `tokens` are tables in order of creation; `task` is a
worker's local state; `logins` records the answers 200. Actions are single
statements: `RequestCode` evaluates the queryset of pending codes, `ExpireNext`
saves the next of them, `CreateCode` and `SendMail` follow; `SubmitCode` reads the
newest matching row, `RejectAged` and `AcceptCode` decide on the copy, `FindActive`,
`FindAny`, `CreateAccount` are `get_or_create_user`, `IssueToken` the end. Codes are
compared by the address as typed, accounts by the address without regard to
case, as the two queries do. `aged` is the clock passing `expires_at`.
`RequestDies` is the mail service or database raising, or a dead process.
Left out: `code_type` (stored, never read by `verify_code`), user names (a taken
one gets a suffix, so creation always succeeds) and the unused status FAILED
(typed, never reached).

### PayPal

| state | code |
| --- | --- |
| `cache`, `lock` | the `_TOKEN_CACHE` entry of this mode and client id, `_TOKEN_CACHE_LOCK` |
| `call` | what each thread is doing in a method, and how its last call ended |
| `clock` | `time.monotonic()`; a token has the time PayPal gives it and the `expires_at` this process reckons |
| `executed`, `abandoned` | PayPal (external): what it has done, and holds although the caller gave up |
| `served` | observer: requests some call of which returned |

Each method of the client is a definition: the exception of a refusal, whether
PayPal changes something, and the statuses it expects. `LookAtCache`, `TakeLock`,
`LookAgain`, `PayPalIssues`, `StoreToken` are `_get_access_token`, split where another
thread or the clock may come between; `Send`, the answer and `Finish` are `_request`
and the verdict of `verify_webhook_signature`. An answer is a status and a body
(`Answers`): PayPal's own (`PayPalAccepts`, `PayPalRefuses`), or that of a gateway in
its place (`GatewayAnswers`), an error or a page that is not JSON, whether PayPal has
executed the request, still will, or never sees it. `Result` is what the method
makes of it: an exception for a status it does not expect, `{}` (`"empty"`) for a
page with an expected one. `FetchFails` and `ConnectionFails` are the except
branches; a request under way may still be executed (`PayPalExecutesLate`).

`Keyed` are the requests whose callers pass the optional `request_id`, and repeat it
with the same record. PayPal answers the repetition of such a request as it did
the first one, and may refuse that of any other: this is PayPal's documented
contract, not this code's, and no property is claimed of it. `RetriesSucceed` says
what the client has to do with it: it must take the answer to a repetition, which
has another status, for a success. Left out: amounts, the redaction of messages,
the check for missing headers (an early refusal that depends on the input alone),
and the lazily created HTTP client.

Two remarks. The library's token requests and answers have no overall deadline
but one per phase (15 s for each of connect, pool, write and read), so
`SendTime + AnswerTime <= Margin` is what the 60 seconds amount to, with no reserve.
And the docstring of `verify_webhook_signature` names `WebhookVerificationException`
only, but a refused token lets `PayPalAuthException` out: still a refusal, and so
modelled.

### Toss, Credits and Payments

`Toss` is the client: `confirm_payment`, `cancel_payment`, `charge_billing_key`,
`issue_billing_key`, `revoke_billing_key` each send one request; `TossAnswers` and
`Finish` are the normal end, `ConnectionFails` an `httpx.RequestError` at any point,
`GatewayAnswers` a body that is not JSON, which `response.json()` raises on before
`is_success` is looked at (`"uncaught"`). `revoke_billing_key` is the exception: it
looks at the status first, so that an error page is a refusal and a page with
status 200 a success; `HonestOutcome` leaves it out for that reason. An error in
JSON is taken to be Toss's own, and to say that Toss did nothing.
`payment`, `billingKey`, `late` and `notices` are Toss itself (external).

`Credits` is `AbstractCreditService`: `Read` is `get_balance_instance` at the start of a
transaction, `grant` and `deduct` its end -- save, history entry and commit are one
step because the save locks the row. `overlapped` remembers whether two
transactions were ever open at once.

`Payments` composes the two: `Payments` extends `Toss`, instantiates `Credits` for its
own variables, and adds the dispatch. `DeliverNotice` is `verify`, `parse` and the
start of `process`; `HandlerReturns`, `CreditReads`/`CreditCommits` and `HandlerRaises`
are one handler; `Acknowledge` is the project's view answering 200, which may be
lost. The handlers are the project's; one that calls `grant` for a payment that is
DONE stands for them, beside others that may only fail. `UseReads` admits a view
(`CreditRequiredMixin`) and begins its `deduct` in one step: what a stale admission
would let in, `deductRefused` refuses. Two notices of an older endpoint -- another
secret, a status the map lacks -- are there from the start. Left out: amounts of
money, partial cancellations, `DEPOSIT_CALLBACK`, which is only a name.

### PrepaidCredits

The abstract specification of `Payments`: orders are paid, a paid order buys its
price in credits, a use takes no more than there is, and each change of the balance
has its entry; every one of these is a single step. There are no calls, notices,
copies, roll-backs or failures in it. `Payments` instantiates it with the orders that
have been paid and its own balance and history; `KeepsPromise` says that, unless two
transactions have overlapped, every step of the workers is a step of it or invisible.
It lets an order buy its credits more than once, because the library does
(disagreements, below).

### ThreadChat

`messages` is the table in the order of the ids, `polls` and `post` the requests of
each page under way, `shown` and `lastId` the page (`seenIds`, `lastId`). `SendPoll` is
the timer; `AnswerPoll` is `get` with `id__gt=last_id` over what
`filter_visible_messages` leaves (the project's `get_queryset` calls it);
`DeliverPoll` and `DeliverPost` are `appendMessages`. `Submit` posts what the form
holds: `is_internal` is a field every writer may set, since `post` checks no role and
the serializer does not make it read-only; the answer to a post is not filtered
either, so a client's page shows an internal message its own user wrote, and
nobody else's. A post takes its id in `Insert` and is seen by others at `Commit`;
`InOrder` says whether commits follow the ids. No line of the library makes them
do so: with transactions in the project, and in autocommit mode too, an id is
taken before the commit. What is checked with `InOrder` holds of a database that
happens to keep the order; without it a message may be skipped for good.
Requests and answers may be lost (`LosePoll`, `LosePost`); the widget
ignores it. Left out: attachments, read marks, `last_message_at`, the rendering.

### RateLimit

`counter` is the cache, `expiring` the keys that were created with a timeout. `Add`,
`Incr` and `Set` are the three cache operations of `_incr`, and `Expire` may come
between any two of them. `Returns` goes on with the second key of
`check_otp_request_rate` whatever the first count was, as the code does. `VerifyCode`
and `Verified` are `is_otp_verify_blocked` and, later, `record_otp_verify_failure`.
There is no clock: a window is the time from the creation of a counter to its
expiry. `made`, `passed` and `wiped` are observers of the current window.

## 3. What TLC checks

Bounds are CONSTANTS guarded in actions: `MaxVersion` entries per subscription,
`LapseStates` the ways a period may lapse, `Groups` the subscription groups,
`MaxFaults` injected failures, `BatchSize`, `Shapes` and `Bare` the payloads that may lack a part, `MaxCodes` code
rows, `MaxClock` the horizon of the PayPal client, `MaxMessages` and `MaxPolls` of a
thread, `Excess` how far calls take a counter past its limit. `Watched` and `Counted`
switch the observers on where a property reads them. Where accounts and workers are interchangeable and only safety is checked,
symmetry is used.

| run | instance | properties |
| --- | --- | --- |
| `concurrent` | 2 accounts, 2 web workers, 1 subscription of 2 entries, 1 fault | `TypeOK`, `AckedMeansHandled`, `SignalsBounded`, `OwnRowOnly`, `SettledIsFinal`, `KeepsPromise` |
| `group_answers` | 2 accounts, 3 subscriptions, two of them in one group, incomplete API answers, a web worker and the command sweeping both rows, ledger, no log | `RowsFromApple`, `FreshActivation`, `LedgerCoversRows`, `LinkNeverMoves` |
| `converge` | 1 account, a web worker and the command, 1 subscription of 3 entries, bare notifications, 1 fault, fairness | `LiveRowsConverge`, `ReceiversConverge`, `ReopeningCorrectsDrift` |
| `email_concurrent` | 2 workers, 3 addresses (two spellings of one), a deactivated account, 2 strings of digits, 2 code rows, 1 fault | `TypeOK`, `LoginOwnsAddress`, `CodeUsesBounded`, `AccountsBounded`, `NewestWhileApart` |
| `paypal` | 2 threads, a keyed capture, a cancellation without a key and a forged event, tokens of 3 ticks with a margin of 2, 4 ticks, 1 fault, fairness | `TypeOK`, `AliveOnArrival`, `NoWastedFetch`, `HonestOutcome`, `CallsEnd`, `RetriesSucceed` |
| `chat` | a client's and a lawyer's page, both writing, 2 messages, 2 overlapping polls of the client, 1 loss, fairness | `InternalStaysInside`, `OnlyOwnPostsSkip`, `AllShownOrPassed` |
| `payments` | 2 workers, 1 order, 2 handlers (credits first), 1 use of credits, amounts 1 and 2, 1 fault, fairness | `TypeOK`, `HonestOutcome`, `AckedMeansRun`, `CreditedIsPaid`, `HistoryAddsUp`, `KeepsPromise`, `PaidIsCredited` |
| `otp_limit` | 2 workers, 1 address, 1 network, limits 2, 3 and 2, fairness | `TypeOK`, `PassedBounded`, `FailuresBounded`, `BlockEnds` |

The runs `two_owners`, `signals_once`, `sign_up_race` and `toss_gateway` each end in a
counterexample (disagreements, below).

**Overlap.** Where overlapping requests break what one would wish for, the runs do
not keep them apart; they check what is left of it. Two deliveries of one
notification may both send its signals, but no more often than `SignalsBounded`
says. A signal may be lost or overtaken, but `ReceiversConverge`. Two requests may
both get in with one code, but only those that had read it before it was accepted
(`CodeUsesBounded`), and two first logins may create two accounts, but nobody who
has one gets another (`AccountsBounded`). Only `NewestWhileApart` has a hypothesis,
in its left-hand side: `CodesApart`, no two requests expire or check the codes of
one address. No statement of the code ensures it, and once they have overlapped
the newest code need not be the one accepted (`OnlyNewestAccepted` is false without
it): what the property is about is the behaviour of requests that die half way.

Why these are enough: every violation of the properties needs at most two
requests around one row (one that reads, one that commits in between), and a
third actor only repeats what a worker that has become idle can do. Two entries
are the smallest history with an old and a new state, and a stale copy or a late
notification goes back from the new to the old one; three (`converge`) add a state
that is left and entered again (a lapse and a new purchase). One fault is enough
to separate a commit from its settling, and the retry is free. More subscriptions
matter only where rows could be mixed up, which is the question `group_answers`
asks: two of one group are enough for an answer to be about the other one, and the
third is one it must never be about. There, one sweep may have two rows to visit,
and subscriptions of a group are interchangeable because both are dated. The
inductive invariant of section 4 shows that for the safety properties proved the
bounds do not matter at all.

For the other modules: two threads are a holder of the lock and one that waits
for it; four ticks let a token be fetched, used, become unusable and be replaced;
one fault separates what PayPal or Toss did from what its caller was told, and the
retry is free. Two messages are the smallest thread in which one can be passed
over, and two polls can be answered in the wrong order. Limits of two and three
keep the two counters of a request apart, and are passed by `Excess`. `payments` has
one order and one worker that calls Toss (the other one takes webhooks): orders do
not share anything but the balance, and the use of credits overlaps the grant.

`BatchSize` never cuts a batch short in these runs: which
rows a full batch leaves out is a question for the order by `expires_at` (section 5).

**Fairness.** `converge` assumes that a request under way is continued
(`WF(Continue)`: workers are not suspended for ever, and a faulty one has the
bounded number of faults `MaxFaults`) and that the command is started again and
again (`WF(StartSweep)`: a daily job, docs/billing.md). Nothing is assumed of
notifications: they may all be lost. `ReopeningCorrectsDrift` states its additional
assumption in its left-hand side: the app is opened again and again
(`AppReopened`). The App Store changes finitely often (`MaxVersion`), so
`<>[]` speaks of the time after its last change.

`paypal`: calls under way go on (`WF(Continue)`: threads run, PayPal answers or a
timeout fires); that callers repeat a request until it is served (`Persistent`,
strong fairness, since threads may be busy whenever they try) is stated as the
left-hand side of `RetriesSucceed`. `chat`: the timer of a page fires again and
again, its polls are answered, a transaction ends; that a user submits anything is
not assumed. `payments`: workers go on, and Toss repeats a notice until it is
answered 200 (its documented contract), which needs strong fairness for the same
reason. `otp_limit`: what has a timeout expires, workers go on.

**Mutants.** Each property is violated under its run's configuration by at least
one variant of a mapped definition, defined beside it and marked "Mutant": a
missing owner check, an exception swallowed, a start that follows the last
transaction, a filter that forgets a status.

### Where the code and its documents disagree

Four runs each check a sentence of the repository and end in a counterexample.

* `two_owners` — the lookup and the insert of a first activation are separate and
  nothing makes `external_subscription_id` unique, so two accounts may activate
  one subscription at the same time (against "Raises SubscriptionException if
  original_transaction_id is already linked to a different user").
* `sign_up_race` — two overlapping first logins of one address create two accounts
  (against "no duplicate creation").
* `signals_once` — of two overlapping deliveries of one notification the second
  finds the log row PENDING, and signals are sent twice (`FiredOnce`, against "a
  duplicate delivery becomes a no-op lookup",
  `billing/models/store_notifications.py:21`). `SignalsBounded` says how often.
* `toss_gateway` — a page of a gateway raises `JSONDecodeError`, which is no
  `BillingException` (`FailuresAreTyped`, against "Raises
  PaymentConfirmException on provider error",
  `billing/providers/toss_payments.py:65`).

More are told here without a run. The first two are stated in `AppleSync`, each
with a comment that the code does not keep it, and TLC refutes it within seconds
when it is added to a configuration:

* `SweepCorrectsDrift` in `converge` with EXPIRED among the lapses: a row shown as
  ended by a late notification or a stale save is in no sweep's queryset
  (`billing/services/apple.py:206`: "without waiting for the user to reopen the
  app"). `LiveRowsConverge` and `ReopeningCorrectsDrift` are the halves that hold.
* `LedgerKeepsRefunds` in `group_answers`: a notification signed before a
  refund and delivered after it overwrites the refund in the ledger row
  (`billing/models/store_transactions.py:16`: "Append-only ledger").
* The first signal of a new row carries `previous_status` TRIALING, the status of the
  unsaved row, where `billing/signals.py:21` says "None if newly created".
* The answer to a user's own post moves `lastId` past messages of others that no
  poll has brought yet, and the page never asks for them. `OnlyOwnPostsSkip` and
  `AllShownOrPassed` say that, with commits in order, this is the only way.
* Two overlapping `verify-code` requests may both read a code PENDING and both log
  in; `CodeUsesBounded` says how often at most.
* A request PayPal or Toss has executed may be answered by a gateway, so that no
  exception of the PayPal client says that nothing happened; `HonestOutcome` claims
  only what a result says.
* `grant` and `deduct` that overlap lose one of the two changes unless the project
  locks the row; `HistoryAddsUp` and `KeepsPromise` are claimed until they do.
* A webhook that is repeated after one handler failed runs the handlers before it
  again, and one that grants credits grants them twice: `PaidIsCredited` and
  `CreditedIsPaid` speak of at least one grant and of none without a payment.
* One window of a rate limit admits its limit times the number of workers in the
  worst case (`PassedBounded`), not its limit: `set()` may restart it for each worker
  whose counter expired between `add` and `incr`.
* `ActiveSubscriptionMixin` refuses a subscription in its grace period, which
  `has_entitlement` (`billing/models/subscriptions.py`) grants.
* `post` of the thread view never calls `handle_attachment`, although the class's
  docstring says so (`messaging/views.py:24`).

## 4. What is proved

`AppleSync_proofs` proves for every set of accounts, subscriptions and workers,
every value of the bounds, with or without log and ledger:

| theorem | says |
| --- | --- |
| `Invariance` | `Spec => []IInv` |
| `TypeCorrect` | `Spec => []TypeOK` |
| `RowsRepeatApple` | `Spec => []RowsFromApple` (of the subscription's group) |
| `ActivationIsFresh` | `Spec => []FreshActivation` |
| `NoNotificationDropped` | `Spec => []AckedMeansHandled` |
| `LinksStay`, `ActivationsKeepToTheirUser`, `StartNeverMoves` | the action properties `LinkNeverMoves`, `OwnRowOnly`, `StartedOnce` |
| `ApplyStateIdempotent` | applying an observation to the row it produced changes nothing |
| `Implementation` | `Spec => KeepsPromise`: AppleSync implements Subscriptions |

The only assumptions are those of the constants (`NoUserAssumption`,
`NoOrigAssumption`, `WorkerAssumption`, `BoundAssumption`, `PayloadAssumption`,
`ConfigurationAssumption`), which TLC evaluates in every run.

**The argument.** None of the properties is inductive: a save writes a copy read
long before, so what a row becomes depends on what a task holds. `IInv` says what
a copy may be. `Copy(r)`: its row still has the same key, subscription and start,
and it still repeats what was said of its group, though perhaps an older entry — histories only
grow, so what once repeated the App Store always does. `Observed`: an observation
in a task names entries there are about the group it asked for, whichever item
`Selected` took (`FetchObserves`). `ActivationOK` adds that the observation is not
older than the request and that the row belongs to the user; `SyncOK` that the row
fetched for is the row read; `NotificationOK` that a task about to settle has been
handled; `SettledMeansHandled` carries that over to the log, for redeliveries. The
delicate case is `Insert`: a copy with `pk = 0` is saved only if the user has no row,
so no other task can hold a copy of a row of that user, and the new key and link
contradict no copy. Each action then preserves each part; facts several actions
need (an insert and an update are saves of one row, a save keeps copies, a longer
history keeps observations) are lemmas. The refinement needs nothing more: a save
of a blank row is `Subscribe`, any other save is `Refresh`, because of `RowsOK`, `Copy`
and `LinkNeverMoves`. TLC has checked `IInv` as an invariant of the instances of
`concurrent` and `group_answers`.

`AppleSync_effects_proofs` goes on from `IInv`, for the same constants:

| theorem | says |
| --- | --- |
| `SettledStaysSettled` | `Spec => SettledIsFinal` |
| `LedgerCovers` | `Spec => []LedgerCoversRows` |
| `SignalsAreBounded` | `Spec => []SignalsBounded` |

*`SettledStaysSettled`* needs nothing on top of `IInv`: no step but those of a delivery of a
notification touches its log row or its count of signals, and a new delivery of a
settled one ends at the log.

*`LedgerCovers`.* A stale copy is saved whole, so the row may go back to a
transaction the ledger must still have. `LedgerOK` therefore speaks of copies too:
what a row or a copy shows is recorded under its own id (`Recorded`), and the
ledger's row of a transaction was copied from an entry of that transaction
(`LedgerTrue`), so that overwriting it with another entry of the same one loses
nothing. It holds with any overlap.

*`SignalsAreBounded`.* With a log, a notification's signals are sent at most once
for each web worker and round, and there is at most one round more than there were
failures. The code permits overlap and failures after the signal, so `SentOK`
counts: while the notification is not settled, what has been sent is paid for by
past failures, each worth one round, and by deliveries that have sent their signal
and still have to settle it; once it is settled, only deliveries under way can send
more, and only one that fails can undo it, by saving FAILED over PROCESSED, which
is the failure that pays for the next round. It counts sets of workers
(`CountWithout`, `DisjointCount`, `Tally`), and how each step moves a worker from one
set to another (`MovesFrom...`); workers that serve requests are finitely many
(`WorkerAssumption`), and nothing else is assumed.

`EmailLogin_proofs` proves, for every number of workers, every set of addresses with
a lower-casing that is idempotent (`LowerAssumption`, `EmailsAssumption`), every user
table to begin with (`LegacyAssumption`) and every bound (`BoundAssumption`):

| theorem | says |
| --- | --- |
| `Invariance` | `Spec => []IInv` |
| `TypeCorrect` | `Spec => []TypeOK` |
| `LoginsAreOwn` | `Spec => []LoginOwnsAddress` |

A login is opened by the last of up to six statements, so `LoginOwnsAddress` is not
inductive: `TaskOK` adds what a request under way holds of the tables — the code
row it read is one of its own address, was accepted if it has come that far, and
the account it took has that address up to case. Tables only grow, and their
rows keep their addresses (`Grows`), so what a request holds stays true whatever
the others do in between; that is one lemma, and each action is then a few lines.

`EmailLogin_overlap_proofs` proves the other three, for every finite number of
workers (`WorkersAssumption`):

| theorem | says |
| --- | --- |
| `UsesBounded` | `Spec => []CodeUsesBounded` |
| `AccountsAreBounded` | `Spec => []AccountsBounded` |
| `NewestOnly` | `Spec => NewestWhileApart` |

`UsesOK`: a code still pending has opened no login; its uses and the requests that
hold it unmarked are together no more than the workers. Reading a code takes a
worker that did not hold it and a code that has no uses; accepting it moves one
from the holders to the uses; expiring and ageing only take codes out of the
pending ones. `AccountsOK`, in the same way: an address that had accounts has the
same ones, and nobody is about to create another, since both look-ups ignore case
and the second does not ask whether the account is active; one that had none has
no more, together with those about to be created, than there are workers.
`NewestOK`: a pending code is the newest of its address, and a request that
replaces codes has what is pending in its `stale` until it is expired, so that none
is left when it creates its own; if it dies before that, the newest code is still
the newest.

`PayPal_proofs`, for every set of threads and requests, every method and all times
with `SendTime + AnswerTime <= Margin < Lifetime` (`TimeAssumption`):
`Invariance`, `TypeCorrect`, `MarginSuffices` (`AliveOnArrival`), `FetchesShared`
(`NoWastedFetch`), `OutcomesHonest` (`HonestOutcome`).
The argument: what the cache makes of a token exceeds its life by the trip of its
answer at most (`CacheOK`), so a token that was usable when it was looked at
outlives the request's trip (`TimesOK`, for as long as the request is under way);
the lock is held by exactly the thread that is past `TakeLock` (`LockOK`), so what it
saw unusable stays so until it stores the next; and an answer the client will take
for a result was PayPal's, and is still so (`ResultOK`), because what PayPal has
executed only grows.

`ThreadChat_proofs`, for every set of pages and writers and every bound:
`Invariance`, `TypeCorrect`, `InternalNeverShown`
(`InternalStaysInside`), `SkipsOnlyOwn` (`OnlyOwnPostsSkip`), `LastIdMonotone`
(`LastIdGrows`). `OnlyOwnPostsSkip` is not inductive: an answer may arrive long after
it was given, when the page has moved on. `PollsHonest` says that an answer has no
gap after its `since`, which is at most the page's `lastId`; that it stays gapless
needs `CommittedInOrder`: below a committed message nothing commits any more.
`PagesHonest` and `PostsPoint` tie pages and posts to the table: a page shows what
its user may see, or wrote.

`Payments_proofs`, for every set of workers, orders, handlers and uses:
`Invariance`, `TypeCorrect` (which holds the balance never negative),
`OutcomesHonest` (`HonestOutcome`), `NoHandlerSkipped` (`AckedMeansRun`),
`CreditsArePaid` (`CreditedIsPaid`, given that a webhook secret is configured).
`CallsHonest` says what a call's answer tells of what Toss did, `RanInOrder` that the
handlers before the one being called have succeeded, `NoticesTrue` that a payment
told of anywhere on the way -- notice, delivery, grant under way, entry -- was made.
`EntriesAccount` is `Spec => []HistoryAddsUp`, for histories of any length. `Accounted`
is its invariant: until two transactions overlap, at most one is open and its copy
is the balance (`OneAtATime`), so that each entry starts from the balance the one
before it left (`EntriesChained`). That such a chain adds up is an induction on the
length of the history (`ChainAddsUp`). `SumTo` is a recursive function, so it
satisfies its equation once some function does, and the balances after each entry
are one; and a least number of entries at which the sum and the balance differ,
which there would be because < is well-founded on the naturals, cannot exist.

`Implementation` is `Spec => KeepsPromise`, given a webhook secret (without one the
code grants credits on anybody's notice, and `Buy` needs a paid order). A read is
invisible; a commit is one `Buy` or `Use`, because its copy is the balance
(`OneAtATime`), the order it is for was paid (`NoticesTrue`), and what it was begun
with is a price or a use (`TransactionsOK`); whatever Toss does, on time or late, is
one `Pay` or invisible; and no step does both (`StepOfPayment`, `StepOfCredits`).

`RateLimit_proofs`, for every finite set of workers, all addresses and networks
and all limits: `Invariance`, `TypeCorrect`, `LimitHolds` (`PassedBounded`),
`OvershootIsBounded` (`FailuresBounded`). Both bounds are counting arguments. A
counter counts at least the calls that passed since the last restart
(`PassedCounted`), and restarts are paid for by workers that are about to `set` and
never come back to it in the same window (`WipesBounded`); a failure is paid for by
a worker that looked before the limit was reached (`FailuresCounted`).

In every module TLC has checked `IInv`, and the strengthenings for the other
theorems (`FiredOK`, `LedgerOK`, `UsesOK`, `AccountsOK`, `NewestOK`), as invariants of
the runs' instances.
The types of `ThreadChat` are checked in this way, and proved; no run
repeats that.

**Only model-checked:** the liveness properties (fairness and ENABLED are beyond
the prover): `LiveRowsConverge`, `ReceiversConverge`, `ReopeningCorrectsDrift`, `CallsEnd`,
`RetriesSucceed`, `AllShownOrPassed`, `PaidIsCredited`, `BlockEnds`. Every invariant
and every safety property of the steps that a passing run checks is proved. The
library's induction theorems take an operator as a parameter, which the provers
cannot instantiate; where an induction is needed, it is on the least number of a
set (`LeastNat`, `LeastNumber`), from the library's theorem that < is well-founded.

## 5. Plan

*Done:* `Entitlement`, `AppleSync`, `Subscriptions`; `EmailLogin`; `PayPal`; `Toss`,
`Credits`, `Payments` and `PrepaidCredits`; `ThreadChat`; `RateLimit`, all with proofs.

What is left, in this order:

1. Abstract specifications of the PayPal client and of the login, which their
   modules implement as `AppleSync` implements `Subscriptions` and `Payments`
   implements `PrepaidCredits`.
2. The composition of `RateLimit` with `EmailLogin`'s verify as a project calls it.
3. The sweep's order by `expires_at` (rows that keep failing stay at the head of a
   full batch).

## Not modelled

* `_pick_best_user`: a choice from data read once, with no state and no step
  another process could come between.
* An error in JSON for a request that Toss did execute: Toss's own errors are taken
  to be the truth, and a gateway's answer is not JSON. (Of PayPal's errors nothing is
  assumed: the client looks at the status only.)
* `billing/services/subscriptions.py`: three guarded assignments on an instance the
  caller has read; what could go wrong is what the project does around them.
* `providers/*/conf.py`: settings that are read, and refused if they are missing.
* JWS verification, signatures and the billing key exchange: libraries, or pure
  functions of one input.
* Mail delivery, serializers, view mixins, admin, migrations, file helpers, order
  ids, the Stripe and realtime placeholders: no behaviour of their own.
