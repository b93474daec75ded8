------------------------------ MODULE RateLimit ------------------------------
(***************************************************************************)
(* The OTP rate limits of createus_common.auth.rate_limit: counters in a   *)
(* cache shared by the web workers, each with the timeout it was created   *)
(* with.  One operation of the cache is one step, and a counter may expire *)
(* between any two.  Time is left out: a window lasts from the creation of *)
(* a counter to its expiry.                                                *)
(***************************************************************************)
EXTENDS Naturals, FiniteSets

CONSTANTS
  Threads,       \* web workers
  Emails,        \* addresses, normalized
  Networks,      \* client addresses
  RequestLimit,  \* CREATEUS_AUTH_OTP_REQUEST_LIMIT
  IpLimit,       \* CREATEUS_AUTH_OTP_IP_REQUEST_LIMIT
  FailureLimit,  \* CREATEUS_AUTH_OTP_VERIFY_FAILURE_LIMIT
  Excess         \* bound: how far calls take a counter past its limit

ASSUME LimitAssumption == {RequestLimit, IpLimit, FailureLimit} \subseteq Nat \ {0}
ASSUME ExcessAssumption == Excess \in Nat
ASSUME ThreadAssumption == IsFiniteSet(Threads)

VARIABLES
  counter,   \* the cache: each key's count, 0 if there is no such key
  expiring,  \* keys that were created with a timeout
  worker,    \* what each worker is doing
  made,      \* ghost: calls of _incr that counted in the key's window
  passed,    \* ghost: those of them that returned at most the limit
  wiped      \* ghost: times set() restarted a window that had begun again

vars == <<counter, expiring, worker, made, passed, wiped>>
cache == <<counter, expiring>>
ghosts == <<made, passed, wiped>>

RequestKey(e) == [kind |-> "otp_req_email", of |-> e]
IpKey(n) == [kind |-> "otp_req_ip", of |-> n]
FailureKey(e) == [kind |-> "otp_verify_fail", of |-> e]
Keys == {RequestKey(e) : e \in Emails} \cup {IpKey(n) : n \in Networks}
          \cup {FailureKey(e) : e \in Emails}

Limit(k) ==
  CASE k.kind = "otp_req_email" -> RequestLimit
    [] k.kind = "otp_req_ip" -> IpLimit
    [] OTHER -> FailureLimit

\* A worker is in _incr of key, at add, incr or set, or between the calls of
\* its view; next is the key that check_otp_request_rate counts after this
\* one, ok whether the counts so far were within their limits.
Idle == [pc |-> "idle"]
Counting(pc, key, next, ok) == [pc |-> pc, key |-> key, next |-> next, ok |-> ok]
Workers ==
  {Idle} \cup [pc: {"verify"}, email: Emails] \cup [pc: {"send"}]
    \cup [pc: {"add", "incr", "set"}, key: Keys,
           next: SUBSET {IpKey(n) : n \in Networks}, ok: BOOLEAN]

TypeOK ==
  /\ counter \in [Keys -> Nat]
  /\ expiring = {k \in Keys : counter[k] # 0}   \* every counter has a timeout
  /\ worker \in [Threads -> Workers]
  /\ made \in [Keys -> Nat]
  /\ passed \in [Keys -> Nat]
  /\ wiped \in [Keys -> Nat]

Become(t, w) == worker' = [worker EXCEPT ![t] = w]

----------------------------------------------------------------------------
(* _incr *)

\* _incr returns n: check_otp_request_rate goes on with the next key, whatever
\* n is, and sends if every count was within its limit.
Returns(t, n) ==
  LET w == worker[t]
      ok == w.ok /\ n <= Limit(w.key) IN
  /\ made' = [made EXCEPT ![w.key] = @ + 1]
  /\ passed' = [passed EXCEPT ![w.key] = IF n <= Limit(w.key) THEN @ + 1 ELSE @]
  /\ \/ \E k \in w.next : Become(t, Counting("add", k, w.next \ {k}, ok))
     \/ w.next = {} /\ w.key.kind # "otp_verify_fail" /\ ok /\ Become(t, [pc |-> "send"])
     \/ w.next = {} /\ (w.key.kind = "otp_verify_fail" \/ ~ok) /\ Become(t, Idle)

\* Mutant: set instead of add.
AddAlways(t) ==
  LET k == worker[t].key IN
  /\ worker[t].pc = "add"
  /\ counter' = [counter EXCEPT ![k] = 1]
  /\ expiring' = expiring \cup {k}
  /\ Returns(t, 1)
  /\ UNCHANGED wiped

\* cache.add: creates the counter, or leaves it to incr.
Add(t) ==
  LET k == worker[t].key IN
  /\ worker[t].pc = "add"
  /\ \/ /\ counter[k] = 0
        /\ counter' = [counter EXCEPT ![k] = 1]
        /\ expiring' = expiring \cup {k}
        /\ Returns(t, 1)
        /\ UNCHANGED wiped
     \/ /\ counter[k] # 0
        /\ Become(t, [worker[t] EXCEPT !.pc = "incr"])
        /\ UNCHANGED <<cache, ghosts>>

\* Mutant: incr of a missing key creates it, without a timeout.
IncrCreates(t) ==
  LET k == worker[t].key IN
  /\ worker[t].pc = "incr"
  /\ counter' = [counter EXCEPT ![k] = @ + 1]
  /\ Returns(t, counter[k] + 1)
  /\ UNCHANGED <<expiring, wiped>>

\* Mutant: ValueError although the counter is there.
IncrRaises(t) ==
  /\ worker[t].pc = "incr"
  /\ Become(t, [worker[t] EXCEPT !.pc = "set"])
  /\ UNCHANGED <<cache, ghosts>>

\* cache.incr: ValueError if the counter has expired since.
Incr(t) ==
  LET k == worker[t].key IN
  /\ worker[t].pc = "incr"
  /\ \/ /\ counter[k] # 0
        /\ counter' = [counter EXCEPT ![k] = @ + 1]
        /\ Returns(t, counter[k] + 1)
        /\ UNCHANGED <<expiring, wiped>>
     \/ /\ counter[k] = 0
        /\ Become(t, [worker[t] EXCEPT !.pc = "set"])
        /\ UNCHANGED <<cache, ghosts>>

\* cache.set restarts the window, although another call may have done so.
Set(t) ==
  LET k == worker[t].key IN
  /\ worker[t].pc = "set"
  /\ counter' = [counter EXCEPT ![k] = 1]
  /\ expiring' = expiring \cup {k}
  /\ wiped' = [wiped EXCEPT ![k] = IF counter[k] # 0 THEN @ + 1 ELSE @]
  /\ Returns(t, 1)

Expire(k) ==
  /\ counter[k] # 0
  /\ k \in expiring
  /\ counter' = [counter EXCEPT ![k] = 0]
  /\ expiring' = expiring \ {k}
  /\ made' = [made EXCEPT ![k] = 0]
  /\ passed' = [passed EXCEPT ![k] = 0]
  /\ wiped' = [wiped EXCEPT ![k] = 0]
  /\ UNCHANGED worker

----------------------------------------------------------------------------
(* The views *)

WithinBound(k) == counter[k] < Limit(k) + Excess

\* check_otp_request_rate: both counters count, the address's first.
RequestCode(t, e, n) ==
  /\ worker[t] = Idle
  /\ WithinBound(RequestKey(e)) /\ WithinBound(IpKey(n))
  /\ Become(t, Counting("add", RequestKey(e), {IpKey(n)}, TRUE))
  /\ UNCHANGED <<cache, ghosts>>

\* The project's view sends the code.
Send(t) ==
  /\ worker[t].pc = "send"
  /\ Become(t, Idle)
  /\ UNCHANGED <<cache, ghosts>>

\* Mutant: one failure too many.
BlockedLate(e) == counter[FailureKey(e)] > FailureLimit

Blocked(e) == counter[FailureKey(e)] >= FailureLimit

\* is_otp_verify_blocked lets the code be looked at.
VerifyCode(t, e) ==
  /\ worker[t] = Idle
  /\ ~Blocked(e)
  /\ Become(t, [pc |-> "verify", email |-> e])
  /\ UNCHANGED <<cache, ghosts>>

\* The code matches, or record_otp_verify_failure counts.
Verified(t) ==
  /\ worker[t].pc = "verify"
  /\ \/ Become(t, Idle)
     \/ Become(t, Counting("add", FailureKey(worker[t].email), {}, TRUE))
  /\ UNCHANGED <<cache, ghosts>>

----------------------------------------------------------------------------
(* Specification *)

Init ==
  /\ counter = [k \in Keys |-> 0]
  /\ expiring = {}
  /\ worker = [t \in Threads |-> Idle]
  /\ made = [k \in Keys |-> 0]
  /\ passed = [k \in Keys |-> 0]
  /\ wiped = [k \in Keys |-> 0]

Proceeds(t) == Add(t) \/ Incr(t) \/ Set(t) \/ Send(t) \/ Verified(t)

Next ==
  \/ \E t \in Threads :
       \/ \E e \in Emails, n \in Networks : RequestCode(t, e, n)
       \/ \E e \in Emails : VerifyCode(t, e)
       \/ Proceeds(t)
  \/ \E k \in Keys : Expire(k)

Spec == Init /\ [][Next]_vars

\* What has a timeout expires; a worker goes on with what it is doing.
FairSpec ==
  /\ Spec
  /\ \A k \in Keys : WF_vars(Expire(k))
  /\ \A t \in Threads : WF_vars(Proceeds(t))

----------------------------------------------------------------------------
(* Properties *)

\* The workers that are about to set k.
Setting(k) ==
  {t \in Threads : worker[t].pc = "set" /\ worker[t].key = k}

\* Unless set() wiped it, a counter has counted every call of its window
\* (_incr).
CountsEveryCall == \A k \in Keys : wiped[k] = 0 => counter[k] = made[k]

\* However calls and expiries interleave, the calls of one window that return
\* a count within the limit are at most the limit for each time the window
\* was started (_incr, check_otp_request_rate).
PassedWithinLimit == \A k \in Keys : passed[k] <= Limit(k) * (wiped[k] + 1)

\* A window that has begun is wiped at most once by each worker but the one
\* that began it: by those whose counter expired under them (_incr).
WipesBounded ==
  \A k \in Keys :
    counter[k] # 0 => wiped[k] + Cardinality(Setting(k)) < Cardinality(Threads)

\* However calls and expiries interleave, one window lets no more calls pass
\* than its limit for each worker, the price of restarting it with set()
\* (_incr, check_otp_request_rate).
PassedBounded ==
  \A k \in Keys : passed[k] <= Limit(k) * Cardinality(Threads)

\* Checking first and counting afterwards lets no more failures through than
\* there are workers between the two, as long as no restart with set() has
\* wiped the count of the window; then more may get through
\* (is_otp_verify_blocked, record_otp_verify_failure).
FailuresBounded ==
  \A e \in Emails :
    LET k == FailureKey(e) IN
    wiped[k] = 0 => made[k] < FailureLimit + Cardinality(Threads)

----------------------------------------------------------------------------
(* The inductive invariant *)

\* What has expired has no window.
NoWindow ==
  \A k \in Keys : counter[k] = 0 => made[k] = 0 /\ passed[k] = 0 /\ wiped[k] = 0

\* Since the last start of the window no more calls passed than it counts.
PassedCounted == \A k \in Keys : passed[k] <= Limit(k) * wiped[k] + counter[k]

\* The workers between is_otp_verify_blocked and the count of the failure.
Failing(e) ==
  {t \in Threads :
     \/ worker[t].pc = "verify" /\ worker[t].email = e
     \/ worker[t].pc \in {"add", "incr", "set"} /\ worker[t].key = FailureKey(e)}

FailuresCounted ==
  \A e \in Emails :
    LET k == FailureKey(e) IN
    wiped[k] = 0 =>
      made[k] + Cardinality(Failing(e)) < FailureLimit + Cardinality(Threads)

IInv ==
  /\ TypeOK
  /\ NoWindow
  /\ CountsEveryCall
  /\ PassedCounted
  /\ PassedWithinLimit
  /\ WipesBounded
  /\ FailuresCounted

----------------------------------------------------------------------------
(* Liveness *)

\* A blocked address is unblocked again, whatever else is counted meanwhile
\* (_incr).
BlockEnds == \A e \in Emails : Blocked(e) ~> ~Blocked(e)
=============================================================================
