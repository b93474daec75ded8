------------------------------- MODULE PayPal -------------------------------
(***************************************************************************)
(* PayPalClient of createus_common.billing.providers.paypal: the threads of*)
(* one process that share the OAuth2 token cache and its lock, the calls   *)
(* they make, and the callers that repeat a call, with the same request id *)
(* or without one.                                                         *)
(*                                                                         *)
(* A call is split where another thread or the clock can come between: the *)
(* unlocked look at the cache, the lock, the token request, its answer, the*)
(* request and its answer.  An answer's body is abstracted to whether it is*)
(* JSON and to the verdict verify_webhook_signature looks for; amounts and *)
(* descriptions are left out.                                              *)
(***************************************************************************)
EXTENDS Naturals

CONSTANTS
  Threads, NoThread,
  Requests,      \* what callers ask for: one local record or webhook event each
  OperationOf,   \* the method each of them is asked with
  Keyed,         \* those whose callers pass a request_id
  Genuine,       \* the webhook events PayPal really sent
  Margin,        \* _TOKEN_EXPIRY_SAFETY_MARGIN_SECONDS
  SendTime,      \* longest time from the look at the clock to PayPal's receipt
  AnswerTime,    \* longest time an issued token travels
  Lifetime,      \* expires_in
  MaxClock,      \* bound: the horizon
  MaxFaults      \* bound: failed connections and refusals

----------------------------------------------------------------------------
(* The methods: the exception of a refusal, whether PayPal changes something, *)
(* and the statuses taken for success.                                        *)

Method(fails, mutates, expects) ==
  [fails |-> fails, mutates |-> mutates, expects |-> expects]

CreateOrder == Method("PayPalOrderException", TRUE, {200, 201})
GetOrder == Method("PayPalOrderException", FALSE, {200, 201})

\* Mutant: the answer of a repeated call, 200, is not expected.
CaptureOrderOnce == Method("PayPalOrderException", TRUE, {201})
CaptureOrder == Method("PayPalOrderException", TRUE, {200, 201})
RefundCapture == Method("PayPalOrderException", TRUE, {200, 201})
CreateCatalogProduct == Method("PayPalSubscriptionException", TRUE, {200, 201})
CreatePlan == Method("PayPalSubscriptionException", TRUE, {200, 201})
GetPlan == Method("PayPalSubscriptionException", FALSE, {200, 201})
CreateSubscription == Method("PayPalSubscriptionException", TRUE, {200, 201})
GetSubscription == Method("PayPalSubscriptionException", FALSE, {200, 201})
CancelSubscription == Method("PayPalSubscriptionException", TRUE, {204})
SuspendSubscription == Method("PayPalSubscriptionException", TRUE, {204})
ActivateSubscription == Method("PayPalSubscriptionException", TRUE, {204})
ReviseSubscription == Method("PayPalSubscriptionException", TRUE, {200})
VerifyWebhookSignature == Method("WebhookVerificationException", FALSE, {200})

Methods ==
  [create_order |-> CreateOrder, get_order |-> GetOrder,
   capture_order |-> CaptureOrder, refund_capture |-> RefundCapture,
   create_catalog_product |-> CreateCatalogProduct, create_plan |-> CreatePlan,
   get_plan |-> GetPlan, create_subscription |-> CreateSubscription,
   get_subscription |-> GetSubscription,
   cancel_subscription |-> CancelSubscription,
   suspend_subscription |-> SuspendSubscription,
   activate_subscription |-> ActivateSubscription,
   revise_subscription |-> ReviseSubscription,
   verify_webhook_signature |-> VerifyWebhookSignature]

ASSUME RequestAssumption ==
  /\ Requests # {}
  /\ OperationOf \in [Requests -> DOMAIN Methods]
  /\ Keyed \subseteq Requests /\ Genuine \subseteq Requests
ASSUME ThreadAssumption == NoThread \notin Threads
ASSUME TimeAssumption ==
  /\ {Margin, SendTime, AnswerTime, Lifetime, MaxClock, MaxFaults} \subseteq Nat
  /\ SendTime + AnswerTime <= Margin   \* what the margin is for
  /\ Margin < Lifetime

VARIABLES
  clock,      \* time.monotonic()
  cache,      \* the _TOKEN_CACHE entry of this mode and client id
  lock,       \* the thread that holds _TOKEN_CACHE_LOCK
  call,       \* what each thread is doing, and how its last call ended
  executed,   \* PayPal: requests that took effect, once or more often
  abandoned,  \* PayPal: requests it holds whose callers have given up
  served,     \* requests some call of which returned without an exception
  faults      \* failures so far

vars == <<clock, cache, lock, call, executed, abandoned, served, faults>>
paypal == <<executed, abandoned>>

\* A token is what PayPal makes of it, dies, and what this process takes for
\* its expires_at, until; until = 0: there is none.
Tokens == [dies: Nat, until: Nat]
NoToken == [dies |-> 0, until |-> 0]

\* empty: the method returned {}, for a body that is not JSON.
Outcomes == {"none", "ok", "empty", "ProviderConnectionException",
             "PayPalAuthException", "PayPalOrderException",
             "PayPalSubscriptionException", "WebhookVerificationException"}

\* A page is a body that is not JSON; 400 stands for every error status.
Answers == [status: {200, 201, 204, 400},
            body: {"page", "data", "SUCCESS", "FAILURE"}]

\* due is when the running step has timed out, answer what is under way.
Calls ==
  [pc: {"idle", "token", "wait", "locked", "fetch", "granted", "send",
        "answer"},
   request: Requests, token: Tokens, due: Nat, answer: Answers,
   outcome: Outcomes]

Refusal == [status |-> 400, body |-> "data"]
Fresh0 == [pc |-> "idle", request |-> CHOOSE r \in Requests : TRUE,
           token |-> NoToken, due |-> 0, answer |-> Refusal, outcome |-> "none"]

TypeOK ==
  /\ clock \in Nat
  /\ cache \in Tokens
  /\ lock \in Threads \cup {NoThread}
  /\ call \in [Threads -> Calls]
  /\ executed \subseteq Requests
  /\ abandoned \subseteq Requests
  /\ served \subseteq Requests
  /\ faults \in Nat

MethodOf(r) == Methods[OperationOf[r]]

Become(t, c) == call' = [call EXCEPT ![t] = c]

\* The call ends: it returned, or raised.
End(t, outcome) ==
  Become(t, [Fresh0 EXCEPT !.request = call[t].request, !.outcome = outcome])

\* Mutant: the HTTP library's own exception escapes.
UncaughtUnreachable(r) == "RequestError"

\* How a ProviderConnectionException looks to the caller of the method.
Unreachable(r) ==
  IF OperationOf[r] = "verify_webhook_signature"
  THEN "WebhookVerificationException" ELSE "ProviderConnectionException"

----------------------------------------------------------------------------
(* The access token *)

\* Mutant: the margin is forgotten.
UsableUntilExpiry == cache.until > clock

\* Is the cached token good for another request?
Usable == cache.until > clock + Margin

\* A caller asks for r, for the first time or again.
Ask(t, r) ==
  /\ call[t].pc = "idle"
  /\ Become(t, [Fresh0 EXCEPT !.pc = "token", !.request = r])
  /\ UNCHANGED <<clock, cache, lock, paypal, served, faults>>

\* The request is sent under a token.
Send(t, token) ==
  Become(t, [call[t] EXCEPT !.pc = "send", !.token = token,
                            !.due = clock + SendTime])

LookAtCache(t) ==
  /\ call[t].pc = "token"
  /\ IF Usable THEN Send(t, cache) ELSE Become(t, [call[t] EXCEPT !.pc = "wait"])
  /\ UNCHANGED <<clock, cache, lock, paypal, served, faults>>

TakeLock(t) ==
  /\ call[t].pc = "wait"
  /\ lock = NoThread
  /\ lock' = t
  /\ Become(t, [call[t] EXCEPT !.pc = "locked"])
  /\ UNCHANGED <<clock, cache, paypal, served, faults>>

\* Mutant: no second look once the lock is held.
FetchAtOnce(t) ==
  /\ call[t].pc = "locked"
  /\ Become(t, [call[t] EXCEPT !.pc = "fetch"])
  /\ UNCHANGED <<clock, cache, lock, paypal, served, faults>>

\* Another thread may have refreshed the token while this one was waiting.
LookAgain(t) ==
  /\ call[t].pc = "locked"
  /\ IF Usable THEN Send(t, cache) /\ lock' = NoThread
               ELSE Become(t, [call[t] EXCEPT !.pc = "fetch"]) /\ UNCHANGED lock
  /\ UNCHANGED <<clock, cache, paypal, served, faults>>

\* PayPal issues a token, whose lifetime begins.
PayPalIssues(t) ==
  /\ call[t].pc = "fetch"
  /\ Become(t, [call[t] EXCEPT !.pc = "granted", !.due = clock + AnswerTime,
                               !.token = [dies |-> clock + Lifetime, until |-> 0]])
  /\ UNCHANGED <<clock, cache, lock, paypal, served, faults>>

\* The token arrives, and is taken to live from now on.
StoreToken(t) ==
  /\ call[t].pc = "granted"
  /\ cache' = [call[t].token EXCEPT !.until = clock + Lifetime]
  /\ lock' = NoThread
  /\ Send(t, cache')
  /\ UNCHANGED <<clock, paypal, served, faults>>

\* Mutant: an exception leaves the lock held.
LockLeftHeld(t) ==
  /\ call[t].pc \in {"fetch", "granted"}
  /\ faults < MaxFaults
  /\ faults' = faults + 1
  /\ \E outcome \in {Unreachable(call[t].request), "PayPalAuthException"} :
       End(t, outcome)
  /\ UNCHANGED <<clock, cache, lock, paypal, served>>

\* The token request cannot be made, or is refused or answered without a
\* token; the with statement releases the lock.
FetchFails(t) ==
  /\ call[t].pc \in {"fetch", "granted"}
  /\ faults < MaxFaults
  /\ faults' = faults + 1
  /\ lock' = NoThread
  /\ \E outcome \in {Unreachable(call[t].request), "PayPalAuthException"} :
       End(t, outcome)
  /\ UNCHANGED <<clock, cache, paypal, served>>

----------------------------------------------------------------------------
(* The request *)

\* PayPal executes r, unless it changes nothing or only repeats the answer to
\* a request of that id.
Execute(r) == executed' = executed \cup {q \in {r} : MethodOf(q).mutates}

StateChanges ==
  {"cancel_subscription", "suspend_subscription", "activate_subscription"}

\* PayPal knows r for a repetition.
Known(r) == r \in executed \cap Keyed

\* What PayPal answers a request it accepts: 204 for a change of a
\* subscription's state, 201 for what is new, 200 otherwise.
PayPalAnswer(r) ==
  IF OperationOf[r] = "verify_webhook_signature"
  THEN [status |-> 200, body |-> IF r \in Genuine THEN "SUCCESS" ELSE "FAILURE"]
  ELSE [status |-> IF OperationOf[r] \in StateChanges THEN 204
                   ELSE IF /\ MethodOf(r).mutates /\ ~Known(r)
                           /\ OperationOf[r] # "revise_subscription"
                        THEN 201 ELSE 200,
        body |-> "data"]

\* The request reaches PayPal, under a token that is still alive.
PayPalAccepts(t) ==
  /\ call[t].pc = "send"
  /\ clock < call[t].token.dies
  /\ Execute(call[t].request)
  /\ Become(t, [call[t] EXCEPT !.pc = "answer",
                               !.answer = PayPalAnswer(call[t].request),
                               !.due = 0])
  /\ UNCHANGED <<clock, cache, lock, abandoned, served, faults>>

\* PayPal refuses: the token is dead, the request repeats one that has taken
\* effect and bears no id, or it is not to PayPal's liking.
PayPalRefuses(t) ==
  /\ call[t].pc = "send"
  /\ LET due == \/ clock >= call[t].token.dies
                \/ call[t].request \in executed \ Keyed
     IN /\ due \/ faults < MaxFaults
        /\ faults' = IF due THEN faults ELSE faults + 1
  /\ Become(t, [call[t] EXCEPT !.pc = "answer", !.answer = Refusal, !.due = 0])
  /\ UNCHANGED <<clock, cache, lock, paypal, served>>

\* A gateway answers in PayPal's place, with an error or a page, whether
\* PayPal has executed the request, still will, or never sees it.
GatewayAnswers(t) ==
  /\ call[t].pc \in {"send", "answer"}
  /\ faults < MaxFaults
  /\ faults' = faults + 1
  /\ \/ UNCHANGED abandoned
     \/ call[t].pc = "send" /\ abandoned' = abandoned \cup {call[t].request}
  /\ \E status \in {200, 400} :
       Become(t, [call[t] EXCEPT !.pc = "answer",
                                 !.answer = [status |-> status, body |-> "page"],
                                 !.due = 0])
  /\ UNCHANGED <<clock, cache, lock, executed, served>>

\* The connection fails or times out.  A request that was under way may
\* still be executed by PayPal, an answer is lost.
ConnectionFails(t) ==
  /\ call[t].pc \in {"send", "answer"}
  /\ faults < MaxFaults
  /\ faults' = faults + 1
  /\ \/ UNCHANGED abandoned
     \/ call[t].pc = "send" /\ abandoned' = abandoned \cup {call[t].request}
  /\ End(t, Unreachable(call[t].request))
  /\ UNCHANGED <<clock, cache, lock, executed, served>>

PayPalExecutesLate(r) ==
  /\ r \in abandoned
  /\ Execute(r)
  /\ abandoned' = abandoned \ {r}
  /\ UNCHANGED <<clock, cache, lock, call, served, faults>>

\* Mutant: any verdict but FAILURE is good enough.
NotDenied(r, answer) ==
  IF answer.status # 204 /\ answer.status \notin MethodOf(r).expects
  THEN MethodOf(r).fails
  ELSE IF OperationOf[r] = "verify_webhook_signature"
       THEN IF answer.body # "FAILURE" THEN "ok" ELSE MethodOf(r).fails
       ELSE IF answer.body = "page" THEN "empty" ELSE "ok"

\* Mutant: JSON is taken for success, whatever the status.
AnyJson(r, answer) ==
  IF answer.body \in {"page", "FAILURE"} THEN MethodOf(r).fails ELSE "ok"

\* How the method ends: 204 passes whatever is expected; a webhook needs the
\* verdict SUCCESS; a page of an expected status is returned as {}.
Result(r, answer) ==
  IF answer.status # 204 /\ answer.status \notin MethodOf(r).expects
  THEN MethodOf(r).fails
  ELSE IF OperationOf[r] = "verify_webhook_signature"
       THEN IF answer.body = "SUCCESS" THEN "ok" ELSE MethodOf(r).fails
       ELSE IF answer.body = "page" THEN "empty" ELSE "ok"

Finish(t) ==
  LET r == call[t].request
      result == Result(r, call[t].answer)
  IN /\ call[t].pc = "answer"
     /\ served' = IF result = "ok" THEN served \cup {r} ELSE served
     /\ End(t, result)
     /\ UNCHANGED <<clock, cache, lock, paypal, faults>>

\* Time passes, but no step under way outlives its timeout.
Tick ==
  /\ clock < MaxClock
  /\ \A t \in Threads : call[t].pc \in {"granted", "send"} => clock < call[t].due
  /\ clock' = clock + 1
  /\ UNCHANGED <<cache, lock, call, paypal, served, faults>>

----------------------------------------------------------------------------
(* Specification *)

Init ==
  /\ clock = 0
  /\ cache = NoToken
  /\ lock = NoThread
  /\ call = [t \in Threads |-> Fresh0]
  /\ executed = {}
  /\ abandoned = {}
  /\ served = {}
  /\ faults = 0

\* The steps that bring a call nearer to its end.
Continue(t) ==
  \/ LookAtCache(t) \/ TakeLock(t) \/ LookAgain(t) \/ PayPalIssues(t)
  \/ StoreToken(t) \/ PayPalAccepts(t) \/ PayPalRefuses(t) \/ Finish(t)

Next ==
  \/ \E t \in Threads :
       \/ \E r \in Requests : Ask(t, r)
       \/ Continue(t) \/ FetchFails(t) \/ ConnectionFails(t) \/ GatewayAnswers(t)
  \/ \E r \in Requests : PayPalExecutesLate(r)
  \/ Tick

Spec == Init /\ [][Next]_vars

\* Calls under way go on: a thread runs, PayPal answers or a timeout fires.
FairSpec == Spec /\ \A t \in Threads : WF_vars(Continue(t))

----------------------------------------------------------------------------
(* Safety *)

\* A request reaches PayPal under a living token however long the token and
\* the request travelled: the safety margin covers both trips
\* (_TOKEN_EXPIRY_SAFETY_MARGIN_SECONDS, providers/paypal/client.py:52).
AliveOnArrival ==
  \A t \in Threads : call[t].pc = "send" => clock < call[t].token.dies

\* No thread asks for a token while the cache holds a usable one: threads that
\* waited for the lock share what its holder fetched (_get_access_token).
NoWastedFetch == \A t \in Threads : call[t].pc = "fetch" => ~Usable

\* A result that is not empty means that it happened.
EffectsAsTold ==
  \A t \in Threads :
    call[t].outcome = "ok" /\ MethodOf(call[t].request).mutates
      => call[t].request \in executed

\* Only an event that PayPal sent passes verify_webhook_signature.
OnlyGenuinePasses ==
  \A r \in served : OperationOf[r] = "verify_webhook_signature" => r \in Genuine

\* A caller can act on a result, whatever failed on the way and whoever
\* answered: what came back with a body, or as 204, has taken effect, and a
\* webhook event that passes is PayPal's.  No exception says that nothing
\* happened: a request PayPal executed may be answered by a gateway's error
\* (_request, verify_webhook_signature).
HonestOutcome == EffectsAsTold /\ OnlyGenuinePasses

----------------------------------------------------------------------------
(* Liveness *)

\* Every call ends: no thread waits for ever for the lock or an answer.
CallsEnd == \A t \in Threads : call[t].pc # "idle" ~> call[t].pc = "idle"

\* Each caller repeats its request until it is served.
Persistent ==
  \A r \in Requests : SF_vars(r \notin served /\ \E t \in Threads : Ask(t, r))

\* A request repeated under its id is served in the end: nothing an earlier
\* attempt left behind at PayPal or in the cache makes the later ones fail for
\* ever (docs/billing.md:178).  Without an id PayPal may refuse each of them.
RetriesSucceed ==
  Persistent => \A r \in Keyed : MethodOf(r).mutates => <>(r \in served)

----------------------------------------------------------------------------
(* The inductive invariant behind the safety properties *)

\* What the cache makes of a token exceeds its life by the trip at most.
CacheOK == cache.until <= cache.dies + AnswerTime

\* The lock is held by the one thread that is past TakeLock.
LockOK ==
  \A t \in Threads : call[t].pc \in {"locked", "fetch", "granted"} <=> lock = t

\* Steps under way have not timed out.
TimesOK(c) ==
  /\ c.pc = "granted" => /\ clock <= c.due
                         /\ c.token.dies + AnswerTime = c.due + Lifetime
  /\ c.pc = "send" => clock <= c.due /\ c.due < c.token.dies

\* An answer that will be taken for a result is true.
ResultOK(c) ==
  /\ c.pc # "idle" => c.outcome = "none"
  /\ c.pc = "answer" /\ Result(c.request, c.answer) = "ok" =>
       /\ MethodOf(c.request).mutates => c.request \in executed
       /\ OperationOf[c.request] = "verify_webhook_signature"
            => c.request \in Genuine

IInv ==
  /\ TypeOK
  /\ CacheOK
  /\ LockOK
  /\ \A t \in Threads : TimesOK(call[t]) /\ ResultOK(call[t])
  /\ NoWastedFetch
  /\ EffectsAsTold
  /\ OnlyGenuinePasses
=============================================================================
