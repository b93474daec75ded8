---------------------------- MODULE PayPal_proofs ----------------------------
(***************************************************************************)
(* Proofs about PayPal, for every number of threads, every set of requests *)
(* and every margin that covers the two trips.                             *)
(***************************************************************************)
EXTENDS PayPal, TLAPS

LEMMA Times ==
  /\ Margin \in Nat /\ SendTime \in Nat /\ AnswerTime \in Nat /\ Lifetime \in Nat
  /\ MaxFaults \in Nat /\ SendTime + AnswerTime <= Margin /\ Margin < Lifetime
BY TimeAssumption

----------------------------------------------------------------------------
(* The table of methods *)

\* What each entry of the table may hold.
LEMMA MethodType ==
  ASSUME NEW r \in Requests
  PROVE  /\ MethodOf(r).mutates \in BOOLEAN
         /\ MethodOf(r).fails \in Outcomes \ {"none", "ok", "empty"}
         /\ OperationOf[r] = "verify_webhook_signature" => ~MethodOf(r).mutates
<1> USE DEF MethodOf, Methods, Method, CreateOrder, GetOrder,
   CaptureOrder, RefundCapture, CreateCatalogProduct, CreatePlan, GetPlan,
   CreateSubscription, GetSubscription, CancelSubscription,
   SuspendSubscription, ActivateSubscription, ReviseSubscription,
   VerifyWebhookSignature
<1>1. OperationOf[r] \in DOMAIN Methods
  BY RequestAssumption
<1>2. MethodOf(r).mutates \in BOOLEAN
  <2>1. MethodOf(r).mutates = TRUE \/ MethodOf(r).mutates = FALSE
    BY <1>1
  <2> QED
    BY <2>1
<1>3. MethodOf(r).fails \in Outcomes \ {"none", "ok", "empty"}
  BY <1>1 DEF Outcomes
<1>4. OperationOf[r] = "verify_webhook_signature" => ~MethodOf(r).mutates
  OBVIOUS
<1> QED
  BY <1>2, <1>3, <1>4

\* Every end of a method is an outcome, and its own exception is no result.
LEMMA ResultType ==
  ASSUME NEW r \in Requests, NEW a
  PROVE  Result(r, a) \in Outcomes
BY MethodType DEF Result, Outcomes

\* A webhook passes only on the verdict SUCCESS.
LEMMA WebhookPasses ==
  ASSUME NEW r \in Requests, NEW a, Result(r, a) = "ok",
         OperationOf[r] = "verify_webhook_signature"
  PROVE  a.body = "SUCCESS"
BY MethodType DEF Result

\* What is not PayPal's own answer is never taken for a result with a body.
LEMMA NoResult ==
  ASSUME NEW r \in Requests, NEW status \in {200, 400}
  PROVE  /\ Result(r, Refusal) # "ok"
         /\ Result(r, [status |-> status, body |-> "page"]) # "ok"
<1>1. Result(r, [status |-> status, body |-> "page"]) # "ok"
  BY MethodType DEF Result
<1>2. 400 \notin MethodOf(r).expects
  BY RequestAssumption DEF MethodOf, Methods, Method, CreateOrder,
   GetOrder, CaptureOrder, RefundCapture, CreateCatalogProduct, CreatePlan,
   GetPlan, CreateSubscription, GetSubscription, CancelSubscription,
   SuspendSubscription, ActivateSubscription, ReviseSubscription,
   VerifyWebhookSignature
<1>3. Result(r, Refusal) # "ok"
  BY <1>2, MethodType DEF Result, Refusal
<1> QED
  BY <1>1, <1>3

----------------------------------------------------------------------------
(* Initial states *)

LEMMA IdleCallType == Fresh0 \in Calls /\ Fresh0.pc = "idle"
BY RequestAssumption DEF Fresh0, Calls, NoToken, Tokens, Refusal, Answers, Outcomes

LEMMA InitOK == Init => IInv
<1> SUFFICES ASSUME Init PROVE IInv
  OBVIOUS
<1>1. TypeOK
  BY IdleCallType DEF Init, TypeOK, Tokens, NoToken
<1>2. CacheOK /\ LockOK /\ NoWastedFetch /\ OnlyGenuinePasses
  BY Times, ThreadAssumption DEF Init, CacheOK, NoToken, LockOK, Fresh0, NoWastedFetch, OnlyGenuinePasses
<1>3. \A t \in Threads : TimesOK(call[t]) /\ ResultOK(call[t])
  BY DEF Init, Fresh0, TimesOK, ResultOK
<1>4. EffectsAsTold
  BY DEF Init, Fresh0, EffectsAsTold
<1> QED
  BY <1>1, <1>2, <1>3, <1>4 DEF IInv

----------------------------------------------------------------------------
(* Steps *)

LEMMA EditedCall ==
  ASSUME NEW c \in Calls, NEW pc \in {"send", "granted"}, NEW token \in Tokens,
         NEW due \in Nat
  PROVE  [c EXCEPT !.pc = pc, !.token = token, !.due = due] \in Calls
BY DEF Calls

\* One thread moves on, the others stay where they are.
LEMMA OneMoves ==
  ASSUME TypeOK, NEW t \in Threads, NEW c \in Calls, Become(t, c)
  PROVE  /\ call' \in [Threads -> Calls]
         /\ call'[t] = c
         /\ \A u \in Threads \ {t} : call'[u] = call[u]
BY DEF TypeOK, Become

LEMMA AskStep ==
  ASSUME IInv, NEW t \in Threads, NEW r \in Requests, Ask(t, r)
  PROVE  IInv'
<1> DEFINE c == [Fresh0 EXCEPT !.pc = "token", !.request = r]
<1>1. c \in Calls
  BY IdleCallType DEF Calls
<1>2. c.pc = "token" /\ c.outcome = "none"
  BY DEF Fresh0
<1>3. /\ call' \in [Threads -> Calls] /\ call'[t] = c
      /\ \A u \in Threads \ {t} : call'[u] = call[u]
  BY <1>1, OneMoves DEF Ask, IInv
<1> HIDE DEF c
<1>4. TypeOK'
  BY <1>3, Times DEF IInv, TypeOK, Ask, paypal, Tokens
<1>5. CacheOK'
  BY Times DEF IInv, TypeOK, Tokens, Ask, CacheOK
<1>6. LockOK'
  BY ThreadAssumption, <1>2, <1>3 DEF IInv, TypeOK, Ask, LockOK
<1>7. NoWastedFetch'
  BY <1>2, <1>3 DEF IInv, Ask, LockOK, NoWastedFetch, Usable
<1>8. (\A u \in Threads : TimesOK(call[u]))'
  BY <1>2, <1>3 DEF IInv, Ask, TimesOK
<1>9. (\A u \in Threads : ResultOK(call[u]))'
  BY <1>2, <1>3 DEF IInv, Ask, paypal, ResultOK
<1>10. EffectsAsTold' /\ OnlyGenuinePasses'
  BY <1>2, <1>3 DEF IInv, TypeOK, Ask, paypal, EffectsAsTold,
     OnlyGenuinePasses
<1> QED
  BY <1>4, <1>5, <1>6, <1>7, <1>8, <1>9, <1>10 DEF IInv

LEMMA LookAtCacheUsable ==
  ASSUME IInv, NEW t \in Threads, LookAtCache(t), Usable
  PROVE  IInv'
<1> DEFINE c == [call[t] EXCEPT !.pc = "send", !.token = cache, !.due = clock + SendTime]
<1>1. c \in Calls
  <2>1. /\ call[t] \in Calls /\ cache \in Tokens /\ clock + SendTime \in Nat
        /\ clock + Lifetime \in Nat /\ clock + AnswerTime \in Nat
    BY Times DEF IInv, TypeOK
  <2>2. cache \in Tokens
    BY <2>1 DEF Calls, Tokens
  <2> QED
    BY <2>1, <2>2, EditedCall
<1>2. c.pc = "send" /\ c.token = cache /\ c.due = clock + SendTime
      /\ c.request = call[t].request /\ c.outcome = call[t].outcome
  BY DEF Fresh0, IInv, TypeOK, Calls, Tokens
<1>3. /\ call' \in [Threads -> Calls] /\ call'[t] = c
      /\ \A u \in Threads \ {t} : call'[u] = call[u]
  BY <1>1, OneMoves DEF LookAtCache, Send, IInv
<1> HIDE DEF c
<1>4. TypeOK'
  BY <1>3, Times DEF IInv, TypeOK, LookAtCache, Send, paypal, Tokens
<1>5. CacheOK'
  BY Times DEF IInv, TypeOK, Tokens, LookAtCache, Send, CacheOK
<1>6. LockOK'
  BY ThreadAssumption, <1>2, <1>3 DEF IInv, TypeOK, LookAtCache, Send, LockOK
<1>7. NoWastedFetch'
  BY <1>2, <1>3 DEF IInv, LookAtCache, Send, LockOK, NoWastedFetch, Usable
<1>8. (\A u \in Threads : TimesOK(call[u]))'
  BY <1>2, <1>3, Times DEF IInv, TypeOK, Calls, Tokens, LookAtCache, Send, TimesOK, Usable, CacheOK
<1>9. (\A u \in Threads : ResultOK(call[u]))'
  BY <1>2, <1>3 DEF IInv, LookAtCache, Send, paypal, ResultOK
<1>10. EffectsAsTold' /\ OnlyGenuinePasses'
  BY <1>2, <1>3 DEF IInv, TypeOK, LookAtCache, Send, paypal, EffectsAsTold,
     OnlyGenuinePasses
<1> QED
  BY <1>4, <1>5, <1>6, <1>7, <1>8, <1>9, <1>10 DEF IInv

LEMMA LookAtCacheStale ==
  ASSUME IInv, NEW t \in Threads, LookAtCache(t), ~Usable
  PROVE  IInv'
<1> DEFINE c == [call[t] EXCEPT !.pc = "wait"]
<1>1. c \in Calls
  BY DEF IInv, TypeOK, Calls
<1>2. c.pc = "wait" /\ c.request = call[t].request /\ c.outcome = call[t].outcome
  BY DEF Fresh0, IInv, TypeOK, Calls, Tokens
<1>3. /\ call' \in [Threads -> Calls] /\ call'[t] = c
      /\ \A u \in Threads \ {t} : call'[u] = call[u]
  BY <1>1, OneMoves DEF LookAtCache, IInv
<1> HIDE DEF c
<1>4. TypeOK'
  BY <1>3, Times DEF IInv, TypeOK, LookAtCache, paypal, Tokens
<1>5. CacheOK'
  BY Times DEF IInv, TypeOK, Tokens, LookAtCache, CacheOK
<1>6. LockOK'
  BY ThreadAssumption, <1>2, <1>3 DEF IInv, TypeOK, LookAtCache, LockOK
<1>7. NoWastedFetch'
  BY <1>2, <1>3 DEF IInv, LookAtCache, LockOK, NoWastedFetch, Usable
<1>8. (\A u \in Threads : TimesOK(call[u]))'
  BY <1>2, <1>3 DEF IInv, LookAtCache, TimesOK
<1>9. (\A u \in Threads : ResultOK(call[u]))'
  BY <1>2, <1>3 DEF IInv, LookAtCache, paypal, ResultOK
<1>10. EffectsAsTold' /\ OnlyGenuinePasses'
  BY <1>2, <1>3 DEF IInv, TypeOK, LookAtCache, paypal, EffectsAsTold,
     OnlyGenuinePasses
<1> QED
  BY <1>4, <1>5, <1>6, <1>7, <1>8, <1>9, <1>10 DEF IInv

LEMMA TakeLockStep ==
  ASSUME IInv, NEW t \in Threads, TakeLock(t)
  PROVE  IInv'
<1> DEFINE c == [call[t] EXCEPT !.pc = "locked"]
<1>1. c \in Calls
  BY DEF IInv, TypeOK, Calls
<1>2. c.pc = "locked" /\ c.request = call[t].request /\ c.outcome = call[t].outcome
  BY DEF Fresh0, IInv, TypeOK, Calls, Tokens
<1>3. /\ call' \in [Threads -> Calls] /\ call'[t] = c
      /\ \A u \in Threads \ {t} : call'[u] = call[u]
  BY <1>1, OneMoves DEF TakeLock, IInv
<1> HIDE DEF c
<1>4. TypeOK'
  BY <1>3, Times DEF IInv, TypeOK, TakeLock, paypal, Tokens
<1>5. CacheOK'
  BY Times DEF IInv, TypeOK, Tokens, TakeLock, CacheOK
<1>6. LockOK'
  BY ThreadAssumption, <1>2, <1>3 DEF IInv, TypeOK, TakeLock, LockOK
<1>7. NoWastedFetch'
  BY <1>2, <1>3 DEF IInv, TakeLock, LockOK, NoWastedFetch, Usable
<1>8. (\A u \in Threads : TimesOK(call[u]))'
  BY <1>2, <1>3 DEF IInv, TakeLock, TimesOK
<1>9. (\A u \in Threads : ResultOK(call[u]))'
  BY <1>2, <1>3 DEF IInv, TakeLock, paypal, ResultOK
<1>10. EffectsAsTold' /\ OnlyGenuinePasses'
  BY <1>2, <1>3 DEF IInv, TypeOK, TakeLock, paypal, EffectsAsTold,
     OnlyGenuinePasses
<1> QED
  BY <1>4, <1>5, <1>6, <1>7, <1>8, <1>9, <1>10 DEF IInv

LEMMA LookAgainUsable ==
  ASSUME IInv, NEW t \in Threads, LookAgain(t), Usable
  PROVE  IInv'
<1> DEFINE c == [call[t] EXCEPT !.pc = "send", !.token = cache, !.due = clock + SendTime]
<1>1. c \in Calls
  <2>1. /\ call[t] \in Calls /\ cache \in Tokens /\ clock + SendTime \in Nat
        /\ clock + Lifetime \in Nat /\ clock + AnswerTime \in Nat
    BY Times DEF IInv, TypeOK
  <2>2. cache \in Tokens
    BY <2>1 DEF Calls, Tokens
  <2> QED
    BY <2>1, <2>2, EditedCall
<1>2. c.pc = "send" /\ c.token = cache /\ c.due = clock + SendTime
      /\ c.request = call[t].request /\ c.outcome = call[t].outcome
  BY DEF Fresh0, IInv, TypeOK, Calls, Tokens
<1>3. /\ call' \in [Threads -> Calls] /\ call'[t] = c
      /\ \A u \in Threads \ {t} : call'[u] = call[u]
  BY <1>1, OneMoves DEF LookAgain, Send, IInv
<1> HIDE DEF c
<1>4. TypeOK'
  BY <1>3, Times DEF IInv, TypeOK, LookAgain, Send, paypal, Tokens
<1>5. CacheOK'
  BY Times DEF IInv, TypeOK, Tokens, LookAgain, Send, CacheOK
<1>6. LockOK'
  BY ThreadAssumption, <1>2, <1>3 DEF IInv, TypeOK, LookAgain, Send, LockOK
<1>7. NoWastedFetch'
  BY <1>2, <1>3 DEF IInv, LookAgain, Send, LockOK, NoWastedFetch, Usable
<1>8. (\A u \in Threads : TimesOK(call[u]))'
  BY <1>2, <1>3, Times DEF IInv, TypeOK, Calls, Tokens, LookAgain, Send, TimesOK, Usable, CacheOK
<1>9. (\A u \in Threads : ResultOK(call[u]))'
  BY <1>2, <1>3 DEF IInv, LookAgain, Send, paypal, ResultOK
<1>10. EffectsAsTold' /\ OnlyGenuinePasses'
  BY <1>2, <1>3 DEF IInv, TypeOK, LookAgain, Send, paypal, EffectsAsTold,
     OnlyGenuinePasses
<1> QED
  BY <1>4, <1>5, <1>6, <1>7, <1>8, <1>9, <1>10 DEF IInv

LEMMA LookAgainStale ==
  ASSUME IInv, NEW t \in Threads, LookAgain(t), ~Usable
  PROVE  IInv'
<1> DEFINE c == [call[t] EXCEPT !.pc = "fetch"]
<1>1. c \in Calls
  BY DEF IInv, TypeOK, Calls
<1>2. c.pc = "fetch" /\ c.request = call[t].request /\ c.outcome = call[t].outcome
  BY DEF Fresh0, IInv, TypeOK, Calls, Tokens
<1>3. /\ call' \in [Threads -> Calls] /\ call'[t] = c
      /\ \A u \in Threads \ {t} : call'[u] = call[u]
  BY <1>1, OneMoves DEF LookAgain, IInv
<1> HIDE DEF c
<1>4. TypeOK'
  BY <1>3, Times DEF IInv, TypeOK, LookAgain, paypal, Tokens
<1>5. CacheOK'
  BY Times DEF IInv, TypeOK, Tokens, LookAgain, CacheOK
<1>6. LockOK'
  BY ThreadAssumption, <1>2, <1>3 DEF IInv, TypeOK, LookAgain, LockOK
<1>7. NoWastedFetch'
  BY <1>2, <1>3 DEF IInv, LookAgain, LockOK, NoWastedFetch, Usable
<1>8. (\A u \in Threads : TimesOK(call[u]))'
  BY <1>2, <1>3 DEF IInv, LookAgain, TimesOK
<1>9. (\A u \in Threads : ResultOK(call[u]))'
  BY <1>2, <1>3 DEF IInv, LookAgain, paypal, ResultOK
<1>10. EffectsAsTold' /\ OnlyGenuinePasses'
  BY <1>2, <1>3 DEF IInv, TypeOK, LookAgain, paypal, EffectsAsTold,
     OnlyGenuinePasses
<1> QED
  BY <1>4, <1>5, <1>6, <1>7, <1>8, <1>9, <1>10 DEF IInv

LEMMA PayPalIssuesStep ==
  ASSUME IInv, NEW t \in Threads, PayPalIssues(t)
  PROVE  IInv'
<1> DEFINE c == [call[t] EXCEPT !.pc = "granted",
                         !.token = [dies |-> clock + Lifetime, until |-> 0],
                         !.due = clock + AnswerTime]
<1>1. c \in Calls
  <2>1. /\ call[t] \in Calls /\ cache \in Tokens /\ clock + SendTime \in Nat
        /\ clock + Lifetime \in Nat /\ clock + AnswerTime \in Nat
    BY Times DEF IInv, TypeOK
  <2>2. [dies |-> clock + Lifetime, until |-> 0] \in Tokens
    BY <2>1 DEF Calls, Tokens
  <2> QED
    BY <2>1, <2>2, EditedCall
<1>2. c.pc = "granted" /\ c.due = clock + AnswerTime /\ c.token.dies = clock + Lifetime
      /\ c.request = call[t].request /\ c.outcome = call[t].outcome
  BY DEF Fresh0, IInv, TypeOK, Calls, Tokens
<1>3. /\ call' \in [Threads -> Calls] /\ call'[t] = c
      /\ \A u \in Threads \ {t} : call'[u] = call[u]
  BY <1>1, OneMoves DEF PayPalIssues, IInv
<1> HIDE DEF c
<1>4. TypeOK'
  BY <1>3, Times DEF IInv, TypeOK, PayPalIssues, paypal, Tokens
<1>5. CacheOK'
  BY Times DEF IInv, TypeOK, Tokens, PayPalIssues, CacheOK
<1>6. LockOK'
  BY ThreadAssumption, <1>2, <1>3 DEF IInv, TypeOK, PayPalIssues, LockOK
<1>7. NoWastedFetch'
  BY <1>2, <1>3 DEF IInv, PayPalIssues, LockOK, NoWastedFetch, Usable
<1>8. (\A u \in Threads : TimesOK(call[u]))'
  BY <1>2, <1>3, Times DEF IInv, TypeOK, Calls, Tokens, PayPalIssues, TimesOK, Usable, CacheOK
<1>9. (\A u \in Threads : ResultOK(call[u]))'
  BY <1>2, <1>3 DEF IInv, PayPalIssues, paypal, ResultOK
<1>10. EffectsAsTold' /\ OnlyGenuinePasses'
  BY <1>2, <1>3 DEF IInv, TypeOK, PayPalIssues, paypal, EffectsAsTold,
     OnlyGenuinePasses
<1> QED
  BY <1>4, <1>5, <1>6, <1>7, <1>8, <1>9, <1>10 DEF IInv

LEMMA StoreTokenStep ==
  ASSUME IInv, NEW t \in Threads, StoreToken(t)
  PROVE  IInv'
<1> DEFINE c == [call[t] EXCEPT !.pc = "send",
                         !.token = [call[t].token EXCEPT !.until = clock + Lifetime],
                         !.due = clock + SendTime]
<1>1. c \in Calls
  <2>1. /\ call[t] \in Calls /\ cache \in Tokens /\ clock + SendTime \in Nat
        /\ clock + Lifetime \in Nat /\ clock + AnswerTime \in Nat
    BY Times DEF IInv, TypeOK
  <2>2. [call[t].token EXCEPT !.until = clock + Lifetime] \in Tokens
    BY <2>1 DEF Calls, Tokens
  <2> QED
    BY <2>1, <2>2, EditedCall
<1>2. c.pc = "send" /\ c.due = clock + SendTime /\ c.token.dies = call[t].token.dies
      /\ c.request = call[t].request /\ c.outcome = call[t].outcome
  BY DEF Fresh0, IInv, TypeOK, Calls, Tokens
<1>3. /\ call' \in [Threads -> Calls] /\ call'[t] = c
      /\ \A u \in Threads \ {t} : call'[u] = call[u]
  BY <1>1, OneMoves DEF StoreToken, Send, IInv
<1> HIDE DEF c
<1>0. /\ cache' = [call[t].token EXCEPT !.until = clock + Lifetime]
      /\ call[t].token \in Tokens
      /\ clock \in Nat /\ call[t].due \in Nat
      /\ clock <= call[t].due
      /\ call[t].token.dies + AnswerTime = call[t].due + Lifetime
  BY DEF IInv, TypeOK, TimesOK, Calls, StoreToken
<1>4. TypeOK'
  <2>1. cache' \in Tokens
    BY <1>0, Times DEF Tokens
  <2> QED
    BY <1>3, <2>1 DEF IInv, TypeOK, StoreToken, paypal
<1>5. CacheOK'
  BY <1>0, Times DEF Tokens, CacheOK
<1>6. LockOK'
  BY ThreadAssumption, <1>2, <1>3 DEF IInv, TypeOK, StoreToken, Send, LockOK
<1>7. NoWastedFetch'
  BY <1>2, <1>3 DEF IInv, StoreToken, Send, LockOK, NoWastedFetch, Usable
<1>8. (\A u \in Threads : TimesOK(call[u]))'
  BY <1>2, <1>3, Times DEF IInv, TypeOK, Calls, Tokens, StoreToken, Send, TimesOK, Usable, CacheOK
<1>9. (\A u \in Threads : ResultOK(call[u]))'
  BY <1>2, <1>3 DEF IInv, StoreToken, Send, paypal, ResultOK
<1>10. EffectsAsTold' /\ OnlyGenuinePasses'
  BY <1>2, <1>3 DEF IInv, TypeOK, StoreToken, Send, paypal, EffectsAsTold,
     OnlyGenuinePasses
<1> QED
  BY <1>4, <1>5, <1>6, <1>7, <1>8, <1>9, <1>10 DEF IInv

----------------------------------------------------------------------------
(* Steps that end a call, and the answers of PayPal *)

LEMMA EndedCall ==
  ASSUME NEW c \in Calls, NEW r \in Requests, NEW outcome \in Outcomes
  PROVE  [c EXCEPT !.request = r, !.outcome = outcome] \in Calls
BY DEF Calls

\* A call that ends is idle, knows its request and its outcome.
LEMMA Ended ==
  ASSUME TypeOK, NEW t \in Threads, NEW outcome \in Outcomes, End(t, outcome)
  PROVE  /\ call' \in [Threads -> Calls]
         /\ \A u \in Threads \ {t} : call'[u] = call[u]
         /\ call'[t].pc = "idle" /\ call'[t].outcome = outcome
         /\ call'[t].request = call[t].request
<1> DEFINE c == [Fresh0 EXCEPT !.request = call[t].request, !.outcome = outcome]
<1>1. c \in Calls
  <2>1. call[t].request \in Requests
    BY DEF TypeOK, Calls
  <2> QED
    BY <2>1, IdleCallType, EndedCall
<1>2. c.pc = "idle" /\ c.outcome = outcome /\ c.request = call[t].request
  BY DEF Fresh0
<1> QED
  BY <1>1, <1>2, OneMoves DEF End

\* What PayPal executes, now or late, it never takes back.
LEMMA ExecuteOK ==
  ASSUME TypeOK, NEW r \in Requests, Execute(r)
  PROVE  /\ executed' \subseteq Requests
         /\ executed \subseteq executed'
         /\ MethodOf(r).mutates => r \in executed'
BY DEF TypeOK, Execute

LEMMA FetchFailsStep ==
  ASSUME IInv, NEW t \in Threads, FetchFails(t)
  PROVE  IInv'
<1>1. PICK outcome \in {Unreachable(call[t].request), "PayPalAuthException"} :
        End(t, outcome)
  BY DEF FetchFails
<1>2. outcome \in Outcomes /\ outcome # "ok"
  BY DEF Unreachable, Outcomes
<1>3. /\ call' \in [Threads -> Calls]
      /\ \A u \in Threads \ {t} : call'[u] = call[u]
      /\ call'[t].pc = "idle" /\ call'[t].outcome = outcome
      /\ call'[t].request = call[t].request
  BY <1>1, <1>2, Ended DEF IInv
<1>4. TypeOK' /\ CacheOK'
  BY <1>3, Times DEF IInv, TypeOK, FetchFails, paypal, CacheOK
<1>5. LockOK' /\ NoWastedFetch'
  BY ThreadAssumption, <1>3 DEF IInv, TypeOK, FetchFails, LockOK, NoWastedFetch, Usable
<1>6. (\A u \in Threads : TimesOK(call[u]))'
  BY <1>3 DEF IInv, FetchFails, TimesOK
<1>7. (\A u \in Threads : ResultOK(call[u]))'
  BY <1>3 DEF IInv, FetchFails, paypal, ResultOK
<1>8. EffectsAsTold' /\ OnlyGenuinePasses'
  BY <1>2, <1>3 DEF IInv, FetchFails, paypal, EffectsAsTold, OnlyGenuinePasses
<1> QED
  BY <1>4, <1>5, <1>6, <1>7, <1>8 DEF IInv

LEMMA ConnectionFailsStep ==
  ASSUME IInv, NEW t \in Threads, ConnectionFails(t)
  PROVE  IInv'
<1> DEFINE outcome == Unreachable(call[t].request)
<1>1. call[t].request \in Requests
  BY DEF IInv, TypeOK, Calls
<1>2. outcome \in Outcomes /\ outcome # "ok"
  BY DEF Unreachable, Outcomes
<1>3. /\ call' \in [Threads -> Calls]
      /\ \A u \in Threads \ {t} : call'[u] = call[u]
      /\ call'[t].pc = "idle" /\ call'[t].outcome = outcome
      /\ call'[t].request = call[t].request
  BY <1>2, Ended DEF IInv, ConnectionFails
<1> HIDE DEF outcome
<1>4. TypeOK' /\ CacheOK'
  BY <1>1, <1>3, Times DEF IInv, TypeOK, ConnectionFails, CacheOK
<1>5. LockOK' /\ NoWastedFetch'
  BY ThreadAssumption, <1>3 DEF IInv, TypeOK, ConnectionFails, LockOK, NoWastedFetch, Usable
<1>6. (\A u \in Threads : TimesOK(call[u]))'
  BY <1>3 DEF IInv, ConnectionFails, TimesOK
<1>7. (\A u \in Threads : ResultOK(call[u]))'
  BY <1>3 DEF IInv, ConnectionFails, ResultOK
<1>8. EffectsAsTold' /\ OnlyGenuinePasses'
  BY <1>2, <1>3 DEF IInv, ConnectionFails, EffectsAsTold, OnlyGenuinePasses
<1> QED
  BY <1>4, <1>5, <1>6, <1>7, <1>8 DEF IInv

LEMMA FinishStep ==
  ASSUME IInv, NEW t \in Threads, Finish(t)
  PROVE  IInv'
<1> DEFINE result == Result(call[t].request, call[t].answer)
<1>1. /\ call[t].request \in Requests /\ call[t].pc = "answer" /\ End(t, result)
      /\ served' = IF result = "ok" THEN served \cup {call[t].request} ELSE served
  BY DEF IInv, TypeOK, Calls, Finish
<1>2. result = "ok" =>
        /\ MethodOf(call[t].request).mutates => call[t].request \in executed
        /\ OperationOf[call[t].request] = "verify_webhook_signature"
             => call[t].request \in Genuine
  BY <1>1 DEF IInv, ResultOK
<1>3. result \in Outcomes
  BY <1>1, ResultType
<1> HIDE DEF result
<1>4. /\ call' \in [Threads -> Calls]
      /\ \A u \in Threads \ {t} : call'[u] = call[u]
      /\ call'[t].pc = "idle" /\ call'[t].outcome = result
      /\ call'[t].request = call[t].request
  BY <1>1, <1>3, Ended DEF IInv
<1>5. TypeOK' /\ CacheOK'
  BY <1>1, <1>4, Times DEF IInv, TypeOK, Finish, paypal, CacheOK
<1>6. LockOK' /\ NoWastedFetch'
  BY ThreadAssumption, <1>1, <1>4 DEF IInv, TypeOK, Finish, LockOK, NoWastedFetch, Usable
<1>7. (\A u \in Threads : TimesOK(call[u]))'
  BY <1>4 DEF IInv, Finish, TimesOK
<1>8. (\A u \in Threads : ResultOK(call[u]))'
  BY <1>4 DEF IInv, Finish, paypal, ResultOK
<1>9. EffectsAsTold'
  BY <1>1, <1>2, <1>4 DEF IInv, Finish, paypal, EffectsAsTold
<1>10. OnlyGenuinePasses'
  BY <1>1, <1>2 DEF IInv, OnlyGenuinePasses
<1> QED
  BY <1>5, <1>6, <1>7, <1>8, <1>9, <1>10 DEF IInv

\* What of the invariant an answer on its way can disturb.
LEMMA Answered ==
  ASSUME IInv, NEW t \in Threads, NEW a \in Answers,
         call[t].pc \in {"send", "answer"},
         Become(t, [call[t] EXCEPT !.pc = "answer", !.answer = a, !.due = 0]),
         UNCHANGED <<clock, cache, lock, served>>,
         abandoned' \subseteq Requests, faults' \in Nat,
         executed' \subseteq Requests, executed \subseteq executed',
         Result(call[t].request, a) = "ok" =>
           /\ MethodOf(call[t].request).mutates => call[t].request \in executed'
           /\ OperationOf[call[t].request] = "verify_webhook_signature"
                => call[t].request \in Genuine
  PROVE  IInv'
<1> DEFINE c == [call[t] EXCEPT !.pc = "answer", !.answer = a, !.due = 0]
<1>1. c \in Calls
  BY DEF IInv, TypeOK, Calls
<1>2. /\ c.pc = "answer" /\ c.answer = a /\ c.request = call[t].request
      /\ c.outcome = call[t].outcome
  BY DEF IInv, TypeOK, Calls
<1>3. /\ call' \in [Threads -> Calls] /\ call'[t] = c
      /\ \A u \in Threads \ {t} : call'[u] = call[u]
  BY <1>1, OneMoves DEF IInv
<1> HIDE DEF c
<1>4. TypeOK' /\ CacheOK' /\ OnlyGenuinePasses'
  BY <1>3 DEF IInv, TypeOK, CacheOK, OnlyGenuinePasses
<1>5. LockOK' /\ NoWastedFetch'
  BY <1>2, <1>3 DEF IInv, LockOK, NoWastedFetch, Usable
<1>6. (\A u \in Threads : TimesOK(call[u]))'
  BY <1>2, <1>3 DEF IInv, TimesOK
<1>7. (\A u \in Threads : ResultOK(call[u]))'
  BY <1>2, <1>3 DEF IInv, ResultOK
<1>8. call[t].outcome = "none"
  BY DEF IInv, ResultOK
<1>9. EffectsAsTold'
  BY <1>2, <1>3, <1>8 DEF IInv, EffectsAsTold
<1> QED
  BY <1>4, <1>5, <1>6, <1>7, <1>9 DEF IInv

LEMMA PayPalAcceptsStep ==
  ASSUME IInv, NEW t \in Threads, PayPalAccepts(t)
  PROVE  IInv'
<1> DEFINE r == call[t].request
           a == PayPalAnswer(r)
<1>1. r \in Requests /\ call[t].pc = "send" /\ Execute(r)
  BY DEF IInv, TypeOK, Calls, PayPalAccepts
<1>2. a \in Answers
  BY DEF PayPalAnswer, Answers
<1>3. /\ executed' \subseteq Requests
      /\ executed \subseteq executed'
      /\ MethodOf(r).mutates => r \in executed'
  BY <1>1, ExecuteOK DEF IInv
<1>4. Result(r, a) = "ok" /\ OperationOf[r] = "verify_webhook_signature" => r \in Genuine
  <2>1. OperationOf[r] = "verify_webhook_signature" /\ r \notin Genuine
          => a.body = "FAILURE"
    BY DEF PayPalAnswer
  <2> QED
    BY <1>1, <2>1, WebhookPasses
<1>5. /\ Become(t, [call[t] EXCEPT !.pc = "answer", !.answer = a, !.due = 0])
      /\ UNCHANGED <<clock, cache, lock, served>>
      /\ abandoned' \subseteq Requests /\ faults' \in Nat
  BY DEF PayPalAccepts, Become, IInv, TypeOK
<1>6. Result(r, a) = "ok" => (OperationOf[r] = "verify_webhook_signature" => r \in Genuine)
  BY <1>4
<1> HIDE DEF a
<1> QED
  BY <1>1, <1>2, <1>3, <1>6, <1>5, Answered

LEMMA PayPalRefusesStep ==
  ASSUME IInv, NEW t \in Threads, PayPalRefuses(t)
  PROVE  IInv'
<1>1. call[t].request \in Requests /\ call[t].pc = "send" /\ Refusal \in Answers
  BY DEF IInv, TypeOK, Calls, PayPalRefuses, Refusal, Answers
<1>2. Result(call[t].request, Refusal) # "ok"
  BY <1>1, NoResult
<1>3. /\ Become(t, [call[t] EXCEPT !.pc = "answer", !.answer = Refusal, !.due = 0])
      /\ UNCHANGED <<clock, cache, lock, served, executed, abandoned>>
      /\ faults' \in Nat
  BY DEF PayPalRefuses, paypal, IInv, TypeOK
<1>4. abandoned' \subseteq Requests /\ executed' \subseteq Requests
  BY <1>3 DEF IInv, TypeOK
<1> QED
  BY <1>1, <1>2, <1>3, <1>4, Answered

LEMMA GatewayAnswersStep ==
  ASSUME IInv, NEW t \in Threads, GatewayAnswers(t)
  PROVE  IInv'
<1>1. PICK status \in {200, 400} :
        Become(t, [call[t] EXCEPT !.pc = "answer",
                                  !.answer = [status |-> status, body |-> "page"],
                                  !.due = 0])
  BY DEF GatewayAnswers
<1> DEFINE a == [status |-> status, body |-> "page"]
<1>2. call[t].request \in Requests /\ call[t].pc \in {"send", "answer"} /\ a \in Answers
  BY DEF IInv, TypeOK, Calls, GatewayAnswers, Answers
<1>3. Result(call[t].request, a) # "ok"
  BY <1>2, NoResult
<1>4. /\ UNCHANGED <<clock, cache, lock, served, executed>>
      /\ abandoned' \subseteq Requests /\ executed' \subseteq Requests /\ faults' \in Nat
  BY <1>2 DEF GatewayAnswers, IInv, TypeOK
<1>5. Become(t, [call[t] EXCEPT !.pc = "answer", !.answer = a, !.due = 0])
  BY <1>1
<1> HIDE DEF a
<1> QED
  BY <1>2, <1>3, <1>4, <1>5, Answered

LEMMA LateStep ==
  ASSUME IInv, NEW r \in Requests, PayPalExecutesLate(r)
  PROVE  IInv'
<1>1. executed' \subseteq Requests /\ executed \subseteq executed'
  BY ExecuteOK DEF IInv, PayPalExecutesLate
<1>2. TypeOK' /\ CacheOK' /\ LockOK' /\ NoWastedFetch' /\ OnlyGenuinePasses'
  BY <1>1 DEF IInv, TypeOK, PayPalExecutesLate, CacheOK, LockOK, NoWastedFetch,
     Usable, OnlyGenuinePasses
<1>3. (\A u \in Threads : TimesOK(call[u]) /\ ResultOK(call[u]))' /\ EffectsAsTold'
  BY <1>1 DEF IInv, PayPalExecutesLate, TimesOK, ResultOK, EffectsAsTold
<1> QED
  BY <1>1, <1>2, <1>3 DEF IInv

LEMMA TickStep ==
  ASSUME IInv, Tick
  PROVE  IInv'
<1>1. /\ clock \in Nat /\ clock' = clock + 1 /\ cache \in Tokens
      /\ \A u \in Threads : call[u] \in Calls
  BY DEF IInv, TypeOK, Tick
<1>2. TypeOK' /\ CacheOK' /\ LockOK' /\ EffectsAsTold' /\ OnlyGenuinePasses'
  BY <1>1 DEF IInv, TypeOK, Tick, paypal, CacheOK, LockOK, EffectsAsTold,
     OnlyGenuinePasses
<1>3. NoWastedFetch'
  BY <1>1, Times DEF IInv, Tick, NoWastedFetch, Usable, Tokens
<1>4. (\A u \in Threads : TimesOK(call[u]))'
  BY <1>1 DEF IInv, Tick, TimesOK, Calls
<1>5. (\A u \in Threads : ResultOK(call[u]))'
  BY DEF IInv, Tick, paypal, ResultOK
<1> QED
  BY <1>2, <1>3, <1>4, <1>5 DEF IInv

----------------------------------------------------------------------------
(* Theorems *)

LEMMA Inductive == IInv /\ [Next]_vars => IInv'
<1> SUFFICES ASSUME IInv, [Next]_vars PROVE IInv'
  OBVIOUS
<1>1. CASE UNCHANGED vars
  BY <1>1 DEF vars, paypal, IInv, TypeOK, CacheOK, LockOK, TimesOK, ResultOK,
     NoWastedFetch, Usable, EffectsAsTold, OnlyGenuinePasses
<1>2. ASSUME NEW t \in Threads, NEW r \in Requests, Ask(t, r) PROVE IInv'
  BY <1>2, AskStep
<1>3. ASSUME NEW t \in Threads, LookAtCache(t) \/ LookAgain(t) PROVE IInv'
  BY <1>3, LookAtCacheUsable, LookAtCacheStale, LookAgainUsable, LookAgainStale
<1>4. ASSUME NEW t \in Threads, TakeLock(t) \/ PayPalIssues(t) \/ StoreToken(t) PROVE IInv'
  BY <1>4, TakeLockStep, PayPalIssuesStep, StoreTokenStep
<1>5. ASSUME NEW t \in Threads, PayPalAccepts(t) \/ PayPalRefuses(t) \/ Finish(t) PROVE IInv'
  BY <1>5, PayPalAcceptsStep, PayPalRefusesStep, FinishStep
<1>6. ASSUME NEW t \in Threads, FetchFails(t) \/ ConnectionFails(t) \/ GatewayAnswers(t)
      PROVE IInv'
  BY <1>6, FetchFailsStep, ConnectionFailsStep, GatewayAnswersStep
<1>7. ASSUME NEW r \in Requests, PayPalExecutesLate(r) PROVE IInv'
  BY <1>7, LateStep
<1> QED
  BY <1>1, <1>2, <1>3, <1>4, <1>5, <1>6, <1>7, TickStep DEF Next, Continue

\* The inductive invariant holds for all parameters.
THEOREM Invariance == Spec => []IInv
BY InitOK, Inductive, PTL DEF Spec

\* The variables keep their types.
THEOREM TypeCorrect == Spec => []TypeOK
<1>1. IInv => TypeOK
  BY DEF IInv
<1> QED
  BY <1>1, Invariance, PTL

\* Whenever the margin covers the two trips, and tokens outlive the margin,
\* no request reaches PayPal under a dead token (_get_access_token).
THEOREM MarginSuffices == Spec => []AliveOnArrival
<1>1. IInv => AliveOnArrival
  <2> SUFFICES ASSUME IInv, NEW t \in Threads, call[t].pc = "send"
               PROVE  clock < call[t].token.dies
    BY DEF AliveOnArrival
  <2>1. clock \in Nat /\ call[t].due \in Nat /\ call[t].token.dies \in Nat
    BY DEF IInv, TypeOK, Calls, Tokens
  <2>2. clock <= call[t].due /\ call[t].due < call[t].token.dies
    BY DEF IInv, TimesOK
  <2> QED
    BY <2>1, <2>2
<1> QED
  BY <1>1, Invariance, PTL

\* However many threads wait for the lock, none fetches a token the cache
\* already holds a usable one for (the second look of _get_access_token).
THEOREM FetchesShared == Spec => []NoWastedFetch
<1>1. IInv => NoWastedFetch
  BY DEF IInv
<1> QED
  BY <1>1, Invariance, PTL

\* What is returned with a body, or for a 204, has taken effect, and an event
\* that passes is PayPal's, whoever answered in PayPal's place (_request,
\* verify_webhook_signature).
THEOREM OutcomesHonest == Spec => []HonestOutcome
<1>1. IInv => HonestOutcome
  BY DEF IInv, HonestOutcome
<1> QED
  BY <1>1, Invariance, PTL
=============================================================================
