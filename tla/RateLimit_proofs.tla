--------------------------- MODULE RateLimit_proofs ---------------------------
(***************************************************************************)
(* Proofs about RateLimit, for every number of workers, addresses and      *)
(* networks and every limit.                                               *)
(***************************************************************************)
EXTENDS RateLimit, FiniteSetTheorems, TLAPS

\* The keys whose counting a failed verification may begin with.
IpKeys == {IpKey(n) : n \in Networks}
Counters == [pc: {"add", "incr", "set"}, key: Keys, next: SUBSET IpKeys, ok: BOOLEAN]

----------------------------------------------------------------------------
(* Keys, workers and sets of workers *)

LEMMA LimitType == ASSUME NEW k \in Keys PROVE Limit(k) \in Nat \ {0}
BY LimitAssumption DEF Limit

LEMMA KeyTypes ==
  /\ \A e \in Emails : RequestKey(e) \in Keys /\ FailureKey(e) \in Keys
  /\ \A n \in Networks : IpKey(n) \in Keys
  /\ \A e \in Emails : RequestKey(e).kind # "otp_verify_fail"
  /\ \A e \in Emails : FailureKey(e) \notin IpKeys
  /\ \A e, f \in Emails : RequestKey(e) # FailureKey(f)
  /\ \A e, f \in Emails : FailureKey(e) = FailureKey(f) => e = f
BY DEF Keys, RequestKey, FailureKey, IpKey, IpKeys

\* A worker at one of the steps of _incr is counting a key.
LEMMA CounterType ==
  ASSUME NEW w \in Workers, w.pc \in {"add", "incr", "set"}
  PROVE  w \in Counters
BY DEF Workers, Counters, Idle, IpKeys

LEMMA VerifierType ==
  ASSUME NEW w \in Workers, w.pc = "verify"
  PROVE  w.email \in Emails
BY DEF Workers, Idle

LEMMA WorkerTypes ==
  /\ Idle \in Workers
  /\ Counters \subseteq Workers
  /\ [pc |-> "send"] \in Workers
  /\ \A e \in Emails : [pc |-> "verify", email |-> e] \in Workers
BY DEF Workers, Counters, IpKeys, Idle

\* Sets of workers: their size, with one more or one less.
LEMMA Sizes ==
  ASSUME NEW S \in SUBSET Threads
  PROVE  /\ Cardinality(Threads) \in Nat
         /\ Cardinality(S) \in Nat
         /\ Cardinality(S) <= Cardinality(Threads)
         /\ \A t \in Threads :
              /\ t \in S => Cardinality(S \ {t}) = Cardinality(S) - 1
              /\ t \notin S => Cardinality(S) < Cardinality(Threads)
              /\ t \notin S => S \ {t} = S
              /\ t \notin S => Cardinality(S \cup {t}) = Cardinality(S) + 1
              /\ t \in S => S \cup {t} = S
<1>1. IsFiniteSet(S) /\ Cardinality(S) <= Cardinality(Threads)
  BY ThreadAssumption, FS_Subset
<1>2. Cardinality(Threads) \in Nat /\ Cardinality(S) \in Nat
  BY <1>1, ThreadAssumption, FS_CardinalityType
<1>3. ASSUME NEW t \in Threads, t \notin S
      PROVE  Cardinality(S) < Cardinality(Threads)
  <2>1. S \subseteq Threads \ {t}
    BY <1>3
  <2>2. IsFiniteSet(Threads \ {t}) /\ Cardinality(Threads \ {t}) = Cardinality(Threads) - 1
    BY <1>3, ThreadAssumption, FS_RemoveElement
  <2>3. Cardinality(S) <= Cardinality(Threads \ {t})
    BY <2>1, <2>2, FS_Subset
  <2> QED
    BY <2>2, <2>3, <1>2
<1>4. ASSUME NEW t \in Threads
      PROVE  /\ t \in S => Cardinality(S \ {t}) = Cardinality(S) - 1
             /\ t \notin S => Cardinality(S \cup {t}) = Cardinality(S) + 1
  BY <1>1, FS_RemoveElement, FS_AddElement
<1> QED
  BY <1>1, <1>2, <1>3, <1>4

\* How a worker's step moves it in and out of the two sets.
LEMMA Moves ==
  ASSUME TypeOK, NEW t \in Threads, NEW w \in Workers, Become(t, w)
  PROVE  /\ worker' \in [Threads -> Workers]
         /\ worker'[t] = w
         /\ \A k : Setting(k)' =
              IF w.pc = "set" /\ w.key = k THEN Setting(k) \cup {t} ELSE Setting(k) \ {t}
         /\ \A e : Failing(e)' =
              IF \/ w.pc = "verify" /\ w.email = e
                 \/ w.pc \in {"add", "incr", "set"} /\ w.key = FailureKey(e)
              THEN Failing(e) \cup {t} ELSE Failing(e) \ {t}
<1>1. worker \in [Threads -> Workers]
  BY DEF TypeOK
<1>2. worker' = [worker EXCEPT ![t] = w]
  BY DEF Become
<1>3. worker' \in [Threads -> Workers] /\ worker'[t] = w
      /\ \A u \in Threads \ {t} : worker'[u] = worker[u]
  BY <1>1, <1>2
<1>4. \A k : Setting(k)' =
        IF w.pc = "set" /\ w.key = k THEN Setting(k) \cup {t} ELSE Setting(k) \ {t}
  BY <1>3 DEF Setting
<1>5. \A e : Failing(e)' =
        IF \/ w.pc = "verify" /\ w.email = e
           \/ w.pc \in {"add", "incr", "set"} /\ w.key = FailureKey(e)
        THEN Failing(e) \cup {t} ELSE Failing(e) \ {t}
  BY <1>3 DEF Failing
<1> QED
  BY <1>3, <1>4, <1>5

----------------------------------------------------------------------------
(* A call of _incr that returns *)

Numbers == NoWindow /\ CountsEveryCall /\ PassedCounted /\ PassedWithinLimit

\* What a return does to the ghosts and to the worker.
LEMMA ReturnsType ==
  ASSUME TypeOK, NEW t \in Threads, worker[t] \in Counters, NEW n \in Nat, Returns(t, n)
  PROVE  /\ made' \in [Keys -> Nat] /\ passed' \in [Keys -> Nat]
         /\ made'[worker[t].key] = made[worker[t].key] + 1
         /\ passed'[worker[t].key] =
              IF n <= Limit(worker[t].key) THEN passed[worker[t].key] + 1
                                           ELSE passed[worker[t].key]
         /\ \A k \in Keys \ {worker[t].key} : made'[k] = made[k] /\ passed'[k] = passed[k]
         /\ \E w \in Workers :
              /\ Become(t, w)
              /\ w.pc # "set"
              /\ \A e \in Emails :
                   ~ \/ w.pc = "verify" /\ w.email = e
                     \/ w.pc \in {"add", "incr", "set"} /\ w.key = FailureKey(e)
<1> DEFINE k0 == worker[t].key
<1>1. k0 \in Keys /\ worker[t].next \in SUBSET IpKeys /\ worker[t].ok \in BOOLEAN
  BY DEF Counters
<1>2. made \in [Keys -> Nat] /\ passed \in [Keys -> Nat]
  BY DEF TypeOK
<1>3. made' = [made EXCEPT ![k0] = @ + 1]
      /\ passed' = [passed EXCEPT ![k0] = IF n <= Limit(k0) THEN @ + 1 ELSE @]
  BY DEF Returns
<1>4. /\ made' \in [Keys -> Nat] /\ passed' \in [Keys -> Nat]
      /\ made'[k0] = made[k0] + 1
      /\ passed'[k0] = IF n <= Limit(k0) THEN passed[k0] + 1 ELSE passed[k0]
      /\ \A k \in Keys \ {k0} : made'[k] = made[k] /\ passed'[k] = passed[k]
  BY <1>1, <1>2, <1>3
<1>5. PICK w \in Workers : Become(t, w) /\ (w = Idle \/ w = [pc |-> "send"] \/ (w.pc = "add" /\ w.key \in IpKeys))
  <2> DEFINE ok == worker[t].ok /\ n <= Limit(k0)
  <2>1. \/ \E k \in worker[t].next :
             Become(t, Counting("add", k, worker[t].next \ {k}, ok))
        \/ Become(t, [pc |-> "send"])
        \/ Become(t, Idle)
    BY DEF Returns
  <2>2. ASSUME NEW k \in worker[t].next
        PROVE  LET w == Counting("add", k, worker[t].next \ {k}, ok) IN
               w \in Workers /\ w.pc = "add" /\ w.key \in IpKeys
    <3>1. k \in Keys /\ k \in IpKeys /\ worker[t].next \ {k} \in SUBSET IpKeys
      BY <1>1, KeyTypes DEF IpKeys
    <3>2. ok \in BOOLEAN
      BY <1>1
    <3> HIDE DEF ok
    <3> QED
      BY <3>1, <3>2, WorkerTypes DEF Counters, Counting
  <2> HIDE DEF ok
  <2> QED
    BY <2>1, <2>2, WorkerTypes
<1>6. w.pc # "set" /\ \A e \in Emails :
        ~ \/ w.pc = "verify" /\ w.email = e
          \/ w.pc \in {"add", "incr", "set"} /\ w.key = FailureKey(e)
  BY <1>5, KeyTypes DEF Idle
<1> QED
  BY <1>4, <1>5, <1>6

\* The window of the key begins with this call.
LEMMA BeginsNumbers ==
  ASSUME TypeOK, Numbers, NEW t \in Threads, worker[t] \in Counters, Returns(t, 1),
         counter[worker[t].key] = 0,
         counter' = [counter EXCEPT ![worker[t].key] = 1], UNCHANGED wiped
  PROVE  Numbers'
<1> DEFINE k0 == worker[t].key
<1>1. k0 \in Keys
  BY DEF Counters
<1>2. counter \in [Keys -> Nat] /\ made \in [Keys -> Nat] /\ passed \in [Keys -> Nat]
      /\ wiped \in [Keys -> Nat]
  BY DEF TypeOK
<1>3. /\ made'[k0] = made[k0] + 1
      /\ passed'[k0] = IF 1 <= Limit(k0) THEN passed[k0] + 1 ELSE passed[k0]
      /\ \A k \in Keys \ {k0} : made'[k] = made[k] /\ passed'[k] = passed[k]
  BY ReturnsType
<1>4. made[k0] = 0 /\ passed[k0] = 0 /\ wiped[k0] = 0
  BY <1>1 DEF Numbers, NoWindow
<1>5. counter'[k0] = 1 /\ wiped'[k0] = 0 /\ made'[k0] = 1 /\ passed'[k0] = 1
  BY <1>1, <1>2, <1>3, <1>4, LimitType
<1>6. \A k \in Keys \ {k0} : counter'[k] = counter[k] /\ wiped'[k] = wiped[k]
  BY <1>2
<1>7. Limit(k0) * 0 + 1 = 1 /\ Limit(k0) * (0 + 1) = Limit(k0) /\ 1 <= Limit(k0)
  BY <1>1, LimitType
<1>8. NoWindow' /\ CountsEveryCall'
  BY <1>3, <1>5, <1>6 DEF Numbers, NoWindow, CountsEveryCall
<1>9. PassedCounted' /\ PassedWithinLimit'
  <2>1. SUFFICES ASSUME NEW k \in Keys
                 PROVE  /\ passed'[k] <= Limit(k) * wiped'[k] + counter'[k]
                        /\ passed'[k] <= Limit(k) * (wiped'[k] + 1)
    BY DEF PassedCounted, PassedWithinLimit
  <2>2. CASE k = k0
    BY <1>5, <1>7, <2>2
  <2>3. CASE k # k0
    BY <1>3, <1>6, <2>3 DEF Numbers, PassedCounted, PassedWithinLimit
  <2> QED
    BY <2>2, <2>3
<1> QED
  BY <1>8, <1>9 DEF Numbers

\* The call counts in a window under way.
LEMMA CountsNumbers ==
  ASSUME TypeOK, Numbers, NEW t \in Threads, worker[t] \in Counters,
         Returns(t, counter[worker[t].key] + 1), counter[worker[t].key] # 0,
         counter' = [counter EXCEPT ![worker[t].key] = @ + 1], UNCHANGED wiped
  PROVE  Numbers'
<1> DEFINE k0 == worker[t].key
<1>1. k0 \in Keys
  BY DEF Counters
<1>2. counter \in [Keys -> Nat] /\ made \in [Keys -> Nat] /\ passed \in [Keys -> Nat]
      /\ wiped \in [Keys -> Nat]
  BY DEF TypeOK
<1>3. /\ made'[k0] = made[k0] + 1
      /\ passed'[k0] = IF counter[k0] + 1 <= Limit(k0) THEN passed[k0] + 1 ELSE passed[k0]
      /\ \A k \in Keys \ {k0} : made'[k] = made[k] /\ passed'[k] = passed[k]
  BY <1>1, <1>2, ReturnsType
<1>4. counter'[k0] = counter[k0] + 1 /\ wiped'[k0] = wiped[k0]
  BY <1>1, <1>2
<1>5. \A k \in Keys \ {k0} : counter'[k] = counter[k] /\ wiped'[k] = wiped[k]
  BY <1>2
<1>6. NoWindow' /\ CountsEveryCall'
  <2>1. counter[k0] \in Nat /\ made[k0] \in Nat
    BY <1>1, <1>2
  <2> QED
    BY <1>1, <1>3, <1>4, <1>5, <2>1 DEF Numbers, NoWindow, CountsEveryCall
<1>7. PassedCounted' /\ PassedWithinLimit'
  <2>1. SUFFICES ASSUME NEW k \in Keys
                 PROVE  /\ passed'[k] <= Limit(k) * wiped'[k] + counter'[k]
                        /\ passed'[k] <= Limit(k) * (wiped'[k] + 1)
    BY DEF PassedCounted, PassedWithinLimit
  <2>2. CASE k = k0
    <3> DEFINE L == Limit(k0)  W == wiped[k0]  C == counter[k0]  P == passed[k0]
    <3>1. L \in Nat /\ W \in Nat /\ C \in Nat /\ P \in Nat
      BY <1>1, <1>2, LimitType
    <3>2. L * W \in Nat /\ L * (W + 1) = L * W + L
      BY <3>1
    <3>3. P <= L * W + C /\ P <= L * (W + 1)
      BY <1>1 DEF Numbers, PassedCounted, PassedWithinLimit
    <3>4. passed'[k0] = IF C + 1 <= L THEN P + 1 ELSE P
      BY <1>3
    <3> HIDE DEF L, W, C, P
    <3>5. passed'[k0] <= L * W + (C + 1) /\ passed'[k0] <= L * (W + 1)
      BY <3>1, <3>2, <3>3, <3>4
    <3> QED
      BY <1>4, <2>2, <3>5 DEF L, W, C
  <2>3. CASE k # k0
    BY <1>3, <1>5, <2>3 DEF Numbers, PassedCounted, PassedWithinLimit
  <2> QED
    BY <2>2, <2>3
<1> QED
  BY <1>6, <1>7 DEF Numbers

\* set() wipes a window under way.
LEMMA WipesNumbers ==
  ASSUME TypeOK, Numbers, NEW t \in Threads, worker[t] \in Counters, Returns(t, 1),
         counter[worker[t].key] # 0,
         counter' = [counter EXCEPT ![worker[t].key] = 1],
         wiped' = [wiped EXCEPT ![worker[t].key] = @ + 1]
  PROVE  Numbers'
<1> DEFINE k0 == worker[t].key
<1>1. k0 \in Keys
  BY DEF Counters
<1>2. counter \in [Keys -> Nat] /\ made \in [Keys -> Nat] /\ passed \in [Keys -> Nat]
      /\ wiped \in [Keys -> Nat]
  BY DEF TypeOK
<1>3. /\ passed'[k0] = IF 1 <= Limit(k0) THEN passed[k0] + 1 ELSE passed[k0]
      /\ \A k \in Keys \ {k0} : made'[k] = made[k] /\ passed'[k] = passed[k]
  BY ReturnsType
<1>4. counter'[k0] = 1 /\ wiped'[k0] = wiped[k0] + 1 /\ wiped'[k0] # 0
  BY <1>1, <1>2
<1>5. \A k \in Keys \ {k0} : counter'[k] = counter[k] /\ wiped'[k] = wiped[k]
  BY <1>2
<1>6. NoWindow' /\ CountsEveryCall'
  BY <1>3, <1>4, <1>5 DEF Numbers, NoWindow, CountsEveryCall
<1>7. PassedCounted' /\ PassedWithinLimit'
  <2>1. SUFFICES ASSUME NEW k \in Keys
                 PROVE  /\ passed'[k] <= Limit(k) * wiped'[k] + counter'[k]
                        /\ passed'[k] <= Limit(k) * (wiped'[k] + 1)
    BY DEF PassedCounted, PassedWithinLimit
  <2>2. CASE k = k0
    <3> DEFINE L == Limit(k0)  W == wiped[k0]  P == passed[k0]
    <3>1. L \in Nat /\ 1 <= L /\ W \in Nat /\ P \in Nat
      BY <1>1, <1>2, LimitType
    <3>2. L * (W + 1) \in Nat /\ L * (W + 1 + 1) = L * (W + 1) + L
      BY <3>1
    <3>3. P <= L * (W + 1)
      BY <1>1 DEF Numbers, PassedWithinLimit
    <3>4. passed'[k0] = P + 1
      BY <1>3, <3>1
    <3> HIDE DEF L, W, P
    <3>5. passed'[k0] <= L * (W + 1) + 1 /\ passed'[k0] <= L * (W + 1 + 1)
      BY <3>1, <3>2, <3>3, <3>4
    <3> QED
      BY <1>4, <2>2, <3>5 DEF L, W
  <2>3. CASE k # k0
    BY <1>3, <1>5, <2>3 DEF Numbers, PassedCounted, PassedWithinLimit
  <2> QED
    BY <2>2, <2>3
<1> QED
  BY <1>6, <1>7 DEF Numbers

----------------------------------------------------------------------------
(* Workers on their way to set() and to the count of a failure *)

\* w is about to set k; w may still count a failure of e.
Sets(w, k) == w.pc = "set" /\ w.key = k
Fails(w, e) ==
  \/ w.pc = "verify" /\ w.email = e
  \/ w.pc \in {"add", "incr", "set"} /\ w.key = FailureKey(e)

\* The ways a step of t may change a key's wipes and those about to wipe it.
LEMMA WipesKept ==
  ASSUME TypeOK, WipesBounded, NEW t \in Threads, NEW w \in Workers, Become(t, w),
         \A k \in Keys :
           \/ counter'[k] = 0
           \/ ~ Sets(w, k) /\ wiped'[k] = 0
           \/ ~ Sets(w, k) /\ counter[k] # 0 /\ wiped'[k] = wiped[k]
           \/ ~ Sets(w, k) /\ counter[k] # 0 /\ wiped'[k] = wiped[k] + 1 /\ t \in Setting(k)
  PROVE  WipesBounded'
<1>1. SUFFICES ASSUME NEW k \in Keys, counter'[k] # 0
               PROVE  wiped'[k] + Cardinality(Setting(k)') < Cardinality(Threads)
  BY DEF WipesBounded
<1>2. ~ Sets(w, k) /\ Setting(k)' = Setting(k) \ {t}
  BY <1>1, Moves DEF Sets
<1>3. Setting(k) \in SUBSET Threads /\ Setting(k)' \in SUBSET Threads /\ t \notin Setting(k)'
  BY <1>2 DEF Setting
<1>4. /\ Cardinality(Threads) \in Nat
      /\ Cardinality(Setting(k)) \in Nat
      /\ Cardinality(Setting(k)') \in Nat
      /\ Cardinality(Setting(k)') < Cardinality(Threads)
      /\ t \in Setting(k) => Cardinality(Setting(k)') = Cardinality(Setting(k)) - 1
      /\ t \notin Setting(k) => Cardinality(Setting(k)') = Cardinality(Setting(k))
  BY <1>2, <1>3, Sizes
<1>5. wiped[k] \in Nat
  BY DEF TypeOK
<1>6. counter[k] # 0 => wiped[k] + Cardinality(Setting(k)) < Cardinality(Threads)
  BY DEF WipesBounded
<1> QED
  BY <1>1, <1>2, <1>4, <1>5, <1>6

\* The ways a step of t may change an address's failures and those under way.
LEMMA FailuresKept ==
  ASSUME TypeOK, FailuresCounted, NEW t \in Threads, NEW w \in Workers, Become(t, w),
         \A e \in Emails :
           LET k == FailureKey(e) IN
           \/ wiped'[k] # 0
           \/ /\ wiped'[k] = wiped[k] /\ made'[k] = made[k]
              /\ Fails(w, e) => t \in Failing(e)
           \/ /\ wiped'[k] = wiped[k] /\ made'[k] = made[k] + 1
              /\ ~ Fails(w, e) /\ t \in Failing(e)
           \/ made'[k] \in Nat /\ made'[k] < FailureLimit
  PROVE  FailuresCounted'
<1> DEFINE T == Cardinality(Threads)
<1>1. SUFFICES ASSUME NEW e \in Emails, wiped'[FailureKey(e)] = 0
               PROVE  made'[FailureKey(e)] + Cardinality(Failing(e)') < FailureLimit + T
  BY DEF FailuresCounted
<1> DEFINE k == FailureKey(e)  F == Cardinality(Failing(e))  G == Cardinality(Failing(e)')
<1>2. Failing(e)' = IF Fails(w, e) THEN Failing(e) \cup {t} ELSE Failing(e) \ {t}
  BY Moves DEF Fails
<1>3. Failing(e) \in SUBSET Threads /\ Failing(e)' \in SUBSET Threads
  BY DEF Failing
<1>4. /\ T \in Nat /\ F \in Nat /\ G \in Nat /\ G <= T
      /\ ~ Fails(w, e) /\ t \in Failing(e) => G = F - 1
      /\ ~ Fails(w, e) /\ t \notin Failing(e) => G = F
      /\ Fails(w, e) /\ t \in Failing(e) => G = F
  BY <1>2, <1>3, Sizes
<1>5. FailureLimit \in Nat /\ made[k] \in Nat
  BY LimitAssumption, KeyTypes DEF TypeOK
<1>6. wiped[k] = 0 => made[k] + F < FailureLimit + T
  BY DEF FailuresCounted
<1>7. CASE wiped'[k] = wiped[k] /\ made'[k] = made[k] /\ (Fails(w, e) => t \in Failing(e))
  <2>1. G <= F
    BY <1>4, <1>7
  <2> QED
    BY <1>1, <1>4, <1>5, <1>6, <1>7, <2>1
<1>8. CASE /\ wiped'[k] = wiped[k] /\ made'[k] = made[k] + 1
           /\ ~ Fails(w, e) /\ t \in Failing(e)
  BY <1>1, <1>4, <1>5, <1>6, <1>8
<1>9. CASE made'[k] < FailureLimit /\ made'[k] \in Nat
  BY <1>4, <1>5, <1>9
<1> QED
  BY <1>1, <1>7, <1>8, <1>9

----------------------------------------------------------------------------
(* Steps that leave the cache alone *)

\* What the cache and its counts keep.
LEMMA Quiet ==
  ASSUME Numbers, UNCHANGED <<cache, ghosts>>
  PROVE  /\ Numbers'
         /\ UNCHANGED <<counter, expiring, made, passed, wiped>>
BY DEF cache, ghosts, Numbers, NoWindow, CountsEveryCall, PassedCounted, PassedWithinLimit

LEMMA QuietStep ==
  ASSUME IInv, UNCHANGED <<cache, ghosts>>,
         NEW t \in Threads, NEW w \in Workers, Become(t, w),
         \A k \in Keys : Sets(w, k) => counter[k] = 0,
         \A e \in Emails :
           Fails(w, e) => t \in Failing(e) \/ ~ Blocked(e)
  PROVE  IInv'
<1>1. Numbers' /\ UNCHANGED <<counter, expiring, made, passed, wiped>>
  BY Quiet DEF IInv, Numbers
<1>2. TypeOK'
  <2>1. worker' \in [Threads -> Workers]
    BY Moves DEF IInv
  <2> QED
    BY <1>1, <2>1 DEF IInv, TypeOK
<1>3. WipesBounded'
  <2>1. \A k \in Keys :
          \/ counter'[k] = 0
          \/ ~ Sets(w, k) /\ counter[k] # 0 /\ wiped'[k] = wiped[k]
    BY <1>1
  <2> QED
    BY <2>1, WipesKept DEF IInv
<1>4. FailuresCounted'
  <2>1. ASSUME NEW e \in Emails, wiped[FailureKey(e)] = 0, ~ Blocked(e)
        PROVE  made[FailureKey(e)] \in Nat /\ made[FailureKey(e)] < FailureLimit
    <3>1. FailureKey(e) \in Keys /\ FailureLimit \in Nat
      BY KeyTypes, LimitAssumption
    <3>2. counter[FailureKey(e)] = made[FailureKey(e)] /\ counter[FailureKey(e)] \in Nat
      BY <2>1, <3>1 DEF IInv, CountsEveryCall, TypeOK
    <3> QED
      BY <2>1, <3>1, <3>2 DEF Blocked
  <2>2. \A e \in Emails :
          LET k == FailureKey(e) IN
          \/ wiped'[k] # 0
          \/ /\ wiped'[k] = wiped[k] /\ made'[k] = made[k]
             /\ Fails(w, e) => t \in Failing(e)
          \/ made'[k] \in Nat /\ made'[k] < FailureLimit
    BY <1>1, <2>1
  <2> QED
    BY <2>2, FailuresKept DEF IInv
<1> QED
  BY <1>1, <1>2, <1>3, <1>4 DEF IInv, Numbers

LEMMA RequestCodeKeeps ==
  ASSUME IInv, NEW t \in Threads, NEW e \in Emails, NEW n \in Networks, RequestCode(t, e, n)
  PROVE  IInv'
<1> DEFINE w == Counting("add", RequestKey(e), {IpKey(n)}, TRUE)
<1>1. w \in Workers /\ w.pc = "add" /\ w.key = RequestKey(e)
  BY KeyTypes, WorkerTypes DEF Counters, Counting, IpKeys
<1>2. Become(t, w) /\ UNCHANGED <<cache, ghosts>>
  BY DEF RequestCode
<1> HIDE DEF w
<1>3. (\A k \in Keys : ~ Sets(w, k)) /\ (\A f \in Emails : ~ Fails(w, f))
  BY <1>1, KeyTypes DEF Sets, Fails
<1> QED
  BY <1>1, <1>2, <1>3, QuietStep

LEMMA SendKeeps ==
  ASSUME IInv, NEW t \in Threads, Send(t)
  PROVE  IInv'
<1>1. Become(t, Idle) /\ UNCHANGED <<cache, ghosts>>
  BY DEF Send
<1>2. (\A k \in Keys : ~ Sets(Idle, k)) /\ (\A f \in Emails : ~ Fails(Idle, f))
  BY DEF Sets, Fails, Idle
<1> QED
  BY <1>1, <1>2, WorkerTypes, QuietStep

LEMMA VerifyCodeKeeps ==
  ASSUME IInv, NEW t \in Threads, NEW e \in Emails, VerifyCode(t, e)
  PROVE  IInv'
<1> DEFINE w == [pc |-> "verify", email |-> e]
<1>1. w \in Workers /\ w.pc = "verify" /\ w.email = e
  BY WorkerTypes
<1>2. Become(t, w) /\ ~ Blocked(e) /\ UNCHANGED <<cache, ghosts>>
  BY DEF VerifyCode
<1> HIDE DEF w
<1>3. (\A k \in Keys : ~ Sets(w, k)) /\ (\A f \in Emails : Fails(w, f) => f = e)
  BY <1>1 DEF Sets, Fails
<1> QED
  BY <1>1, <1>2, <1>3, QuietStep

LEMMA VerifiedKeeps ==
  ASSUME IInv, NEW t \in Threads, Verified(t)
  PROVE  IInv'
<1> DEFINE e == worker[t].email
           w == Counting("add", FailureKey(e), {}, TRUE)
<1>1. worker[t] \in Workers /\ worker[t].pc = "verify" /\ e \in Emails
  BY VerifierType DEF Verified, IInv, TypeOK
<1>2. t \in Failing(e) /\ UNCHANGED <<cache, ghosts>>
  BY <1>1 DEF Failing, Verified
<1>3. CASE Become(t, Idle)
  <2>1. (\A k \in Keys : ~ Sets(Idle, k)) /\ (\A f \in Emails : ~ Fails(Idle, f))
    BY DEF Sets, Fails, Idle
  <2> QED
    BY <1>2, <1>3, <2>1, WorkerTypes, QuietStep
<1>4. CASE Become(t, w)
  <2>1. w \in Workers /\ w.pc = "add" /\ w.key = FailureKey(e)
    BY <1>1, KeyTypes, WorkerTypes DEF Counters, Counting
  <2> HIDE DEF w
  <2>2. (\A k \in Keys : ~ Sets(w, k)) /\ (\A f \in Emails : Fails(w, f) => f = e)
    BY <1>1, <2>1, KeyTypes DEF Sets, Fails
  <2> QED
    BY <1>2, <1>4, <2>1, <2>2, QuietStep
<1> QED
  BY <1>3, <1>4 DEF Verified

----------------------------------------------------------------------------
(* The steps of _incr *)

\* A return, however it has counted.
LEMMA ReturnKeeps ==
  ASSUME IInv, Numbers', NEW t \in Threads, worker[t] \in Counters,
         NEW n \in Nat, Returns(t, n),
         counter' \in [Keys -> Nat], wiped' \in [Keys -> Nat],
         expiring' = {k \in Keys : counter'[k] # 0},
         \A k \in Keys \ {worker[t].key} : counter'[k] = counter[k] /\ wiped'[k] = wiped[k],
         LET k0 == worker[t].key IN
           \/ wiped'[k0] = 0 /\ wiped[k0] = 0
           \/ counter[k0] # 0 /\ wiped'[k0] = wiped[k0]
           \/ counter[k0] # 0 /\ wiped'[k0] = wiped[k0] + 1 /\ t \in Setting(k0)
  PROVE  IInv'
<1> DEFINE k0 == worker[t].key
<1>1. k0 \in Keys /\ worker[t].pc \in {"add", "incr", "set"}
  BY DEF Counters
<1>2. TypeOK
  BY DEF IInv
<1>3. /\ made' \in [Keys -> Nat] /\ passed' \in [Keys -> Nat]
      /\ made'[k0] = made[k0] + 1
      /\ \A k \in Keys \ {k0} : made'[k] = made[k]
  BY <1>2, ReturnsType
<1>4. PICK w \in Workers :
        /\ Become(t, w)
        /\ w.pc # "set"
        /\ \A e \in Emails : ~ Fails(w, e)
  BY <1>2, ReturnsType DEF Fails
<1>5. worker' \in [Threads -> Workers]
  BY <1>2, <1>4, Moves
<1>6. TypeOK'
  BY <1>3, <1>5 DEF TypeOK
<1>7. WipesBounded'
  <2>1. \A k \in Keys : ~ Sets(w, k)
    BY <1>4 DEF Sets
  <2>2. ASSUME NEW k \in Keys
        PROVE  \/ counter'[k] = 0
               \/ ~ Sets(w, k) /\ wiped'[k] = 0
               \/ ~ Sets(w, k) /\ counter[k] # 0 /\ wiped'[k] = wiped[k]
               \/ ~ Sets(w, k) /\ counter[k] # 0 /\ wiped'[k] = wiped[k] + 1 /\ t \in Setting(k)
    <3>1. CASE k = k0
      BY <2>1, <3>1
    <3>2. CASE k # k0
      BY <2>1, <3>2
    <3> QED
      BY <3>1, <3>2
  <2> QED
    BY <1>2, <1>4, <2>2, WipesKept DEF IInv
<1>8. FailuresCounted'
  <2>1. ASSUME NEW e \in Emails
        PROVE  LET k == FailureKey(e) IN
               \/ wiped'[k] # 0
               \/ /\ wiped'[k] = wiped[k] /\ made'[k] = made[k]
                  /\ Fails(w, e) => t \in Failing(e)
               \/ /\ wiped'[k] = wiped[k] /\ made'[k] = made[k] + 1
                  /\ ~ Fails(w, e) /\ t \in Failing(e)
    <3> DEFINE k == FailureKey(e)
    <3>1. k \in Keys /\ ~ Fails(w, e)
      BY <1>4, KeyTypes
    <3>2. CASE k = k0
      <4>1. t \in Failing(e)
        BY <1>1, <3>2 DEF Failing
      <4>2. wiped[k0] \in Nat
        BY <1>1, <1>2 DEF TypeOK
      <4>3. wiped'[k0] = wiped[k0] \/ wiped'[k0] # 0
        BY <4>2
      <4> QED
        BY <1>3, <3>1, <3>2, <4>1, <4>3
    <3>3. CASE k # k0
      BY <1>3, <3>1, <3>3
    <3> QED
      BY <3>2, <3>3
  <2> QED
    BY <1>2, <1>4, <2>1, FailuresKept DEF IInv
<1> QED
  BY <1>6, <1>7, <1>8 DEF IInv, Numbers

\* A worker goes on within _incr.
LEMMA GoesOn ==
  ASSUME IInv, UNCHANGED <<cache, ghosts>>, NEW t \in Threads, worker[t] \in Counters,
         NEW pc \in {"incr", "set"}, Become(t, [worker[t] EXCEPT !.pc = pc]),
         pc = "set" => counter[worker[t].key] = 0
  PROVE  IInv'
<1> DEFINE w == [worker[t] EXCEPT !.pc = pc]
<1>1. w \in Counters /\ w.pc = pc /\ w.key = worker[t].key
  BY DEF Counters
<1>2. w \in Workers /\ worker[t].pc \in {"add", "incr", "set"}
  BY <1>1, WorkerTypes DEF Counters
<1>3. Become(t, w)
  OBVIOUS
<1> HIDE DEF w
<1>4. \A k \in Keys : Sets(w, k) => counter[k] = 0
  BY <1>1 DEF Sets
<1>5. \A e \in Emails : Fails(w, e) => t \in Failing(e)
  BY <1>1, <1>2 DEF Fails, Failing
<1> QED
  BY <1>2, <1>3, <1>4, <1>5, QuietStep

LEMMA Counter ==
  ASSUME TypeOK, NEW t \in Threads, worker[t].pc \in {"add", "incr", "set"}
  PROVE  worker[t] \in Counters /\ worker[t].key \in Keys
<1>1. worker[t] \in Workers
  BY DEF TypeOK
<1>2. worker[t] \in Counters
  BY <1>1, CounterType
<1> QED
  BY <1>2 DEF Counters

LEMMA AddKeeps ==
  ASSUME IInv, NEW t \in Threads, Add(t)
  PROVE  IInv'
<1> DEFINE k == worker[t].key
<1>1. TypeOK /\ Numbers /\ worker[t] \in Counters /\ k \in Keys
  BY Counter DEF Add, IInv, Numbers
<1>2. CASE /\ counter[k] = 0
           /\ counter' = [counter EXCEPT ![k] = 1]
           /\ expiring' = expiring \cup {k}
           /\ Returns(t, 1)
           /\ UNCHANGED wiped
  <2>1. Numbers'
    BY <1>1, <1>2, BeginsNumbers
  <2>2. counter' \in [Keys -> Nat] /\ wiped' \in [Keys -> Nat]
        /\ expiring' = {j \in Keys : counter'[j] # 0}
    BY <1>1, <1>2 DEF TypeOK
  <2>3. \A j \in Keys \ {k} : counter'[j] = counter[j] /\ wiped'[j] = wiped[j]
    BY <1>1, <1>2 DEF TypeOK
  <2>4. wiped'[k] = 0 /\ wiped[k] = 0
    BY <1>1, <1>2 DEF Numbers, NoWindow
  <2> QED
    BY <1>1, <1>2, <2>1, <2>2, <2>3, <2>4, ReturnKeeps
<1>3. CASE /\ Become(t, [worker[t] EXCEPT !.pc = "incr"])
           /\ UNCHANGED <<cache, ghosts>>
  BY <1>1, <1>3, GoesOn
<1> QED
  BY <1>2, <1>3 DEF Add

LEMMA IncrKeeps ==
  ASSUME IInv, NEW t \in Threads, Incr(t)
  PROVE  IInv'
<1> DEFINE k == worker[t].key
<1>1. TypeOK /\ Numbers /\ worker[t] \in Counters /\ k \in Keys
  BY Counter DEF Incr, IInv, Numbers
<1>2. CASE /\ counter[k] # 0
           /\ counter' = [counter EXCEPT ![k] = @ + 1]
           /\ Returns(t, counter[k] + 1)
           /\ UNCHANGED <<expiring, wiped>>
  <2>1. Numbers'
    BY <1>1, <1>2, CountsNumbers
  <2>2. counter' \in [Keys -> Nat] /\ wiped' \in [Keys -> Nat] /\ counter[k] + 1 \in Nat
        /\ expiring' = {j \in Keys : counter'[j] # 0}
    BY <1>1, <1>2 DEF TypeOK
  <2>3. \A j \in Keys \ {k} : counter'[j] = counter[j] /\ wiped'[j] = wiped[j]
    BY <1>1, <1>2 DEF TypeOK
  <2> QED
    BY <1>1, <1>2, <2>1, <2>2, <2>3, ReturnKeeps
<1>3. CASE /\ counter[k] = 0
           /\ Become(t, [worker[t] EXCEPT !.pc = "set"])
           /\ UNCHANGED <<cache, ghosts>>
  BY <1>1, <1>3, GoesOn
<1> QED
  BY <1>2, <1>3 DEF Incr

LEMMA SetKeeps ==
  ASSUME IInv, NEW t \in Threads, Set(t)
  PROVE  IInv'
<1> DEFINE k == worker[t].key
<1>1. TypeOK /\ Numbers /\ worker[t] \in Counters /\ k \in Keys
  BY Counter DEF Set, IInv, Numbers
<1>2. /\ counter' = [counter EXCEPT ![k] = 1]
      /\ expiring' = expiring \cup {k}
      /\ wiped' = [wiped EXCEPT ![k] = IF counter[k] # 0 THEN @ + 1 ELSE @]
      /\ Returns(t, 1)
  BY DEF Set
<1>3. counter' \in [Keys -> Nat] /\ wiped' \in [Keys -> Nat]
      /\ expiring' = {j \in Keys : counter'[j] # 0}
  BY <1>1, <1>2 DEF TypeOK
<1>4. \A j \in Keys \ {k} : counter'[j] = counter[j] /\ wiped'[j] = wiped[j]
  BY <1>1, <1>2 DEF TypeOK
<1>5. CASE counter[k] = 0
  <2>1. wiped' = wiped
    BY <1>1, <1>2, <1>5 DEF TypeOK
  <2>2. Numbers'
    BY <1>1, <1>2, <1>5, <2>1, BeginsNumbers
  <2>3. wiped'[k] = 0 /\ wiped[k] = 0
    BY <1>1, <1>5, <2>1 DEF Numbers, NoWindow
  <2> QED
    BY <1>1, <1>2, <1>3, <1>4, <2>2, <2>3, ReturnKeeps
<1>6. CASE counter[k] # 0
  <2>1. wiped' = [wiped EXCEPT ![k] = @ + 1]
    BY <1>2, <1>6
  <2>2. Numbers'
    BY <1>1, <1>2, <1>6, <2>1, WipesNumbers
  <2>3. wiped'[k] = wiped[k] + 1 /\ t \in Setting(k)
    BY <1>1, <2>1 DEF TypeOK, Set, Setting
  <2> QED
    BY <1>1, <1>2, <1>3, <1>4, <1>6, <2>2, <2>3, ReturnKeeps
<1> QED
  BY <1>5, <1>6

LEMMA ExpireKeeps ==
  ASSUME IInv, NEW k \in Keys, Expire(k)
  PROVE  IInv'
<1>1. TypeOK
  BY DEF IInv
<1>2. TypeOK'
  BY <1>1 DEF TypeOK, Expire
<1>3. /\ counter'[k] = 0 /\ made'[k] = 0 /\ passed'[k] = 0 /\ wiped'[k] = 0
      /\ \A j \in Keys \ {k} : /\ counter'[j] = counter[j] /\ made'[j] = made[j]
                               /\ passed'[j] = passed[j] /\ wiped'[j] = wiped[j]
      /\ worker' = worker
  BY <1>1 DEF TypeOK, Expire
<1>4. NoWindow' /\ CountsEveryCall'
  BY <1>3 DEF IInv, NoWindow, CountsEveryCall
<1>5. PassedCounted' /\ PassedWithinLimit'
  <2>1. SUFFICES ASSUME NEW j \in Keys
                 PROVE  /\ passed'[j] <= Limit(j) * wiped'[j] + counter'[j]
                        /\ passed'[j] <= Limit(j) * (wiped'[j] + 1)
    BY DEF PassedCounted, PassedWithinLimit
  <2>2. CASE j = k
    <3>1. Limit(k) \in Nat /\ Limit(k) * 0 = 0 /\ Limit(k) * (0 + 1) = Limit(k)
      BY LimitType
    <3> QED
      BY <1>3, <2>2, <3>1
  <2>3. CASE j # k
    BY <1>3, <2>3 DEF IInv, PassedCounted, PassedWithinLimit
  <2> QED
    BY <2>2, <2>3
<1>6. WipesBounded'
  BY <1>3 DEF IInv, WipesBounded, Setting
<1>7. FailuresCounted'
  <2>1. SUFFICES ASSUME NEW e \in Emails, wiped'[FailureKey(e)] = 0
                 PROVE  made'[FailureKey(e)] + Cardinality(Failing(e)')
                          < FailureLimit + Cardinality(Threads)
    BY DEF FailuresCounted
  <2>2. Failing(e)' = Failing(e) /\ Failing(e) \in SUBSET Threads
    BY <1>3 DEF Failing
  <2>3. CASE FailureKey(e) = k
    <3>1. Cardinality(Failing(e)) \in Nat /\ Cardinality(Threads) \in Nat
          /\ Cardinality(Failing(e)) <= Cardinality(Threads)
      BY <2>2, Sizes
    <3>2. FailureLimit \in Nat \ {0}
      BY LimitAssumption
    <3> QED
      BY <1>3, <2>2, <2>3, <3>1, <3>2
  <2>4. CASE FailureKey(e) # k
    BY <1>3, <2>1, <2>2, <2>4, KeyTypes DEF IInv, FailuresCounted
  <2> QED
    BY <2>3, <2>4
<1> QED
  BY <1>2, <1>4, <1>5, <1>6, <1>7 DEF IInv

----------------------------------------------------------------------------
(* The theorems *)

LEMMA InitHolds == Init => IInv
<1> SUFFICES ASSUME Init PROVE IInv
  OBVIOUS
<1>1. TypeOK
  BY WorkerTypes DEF Init, TypeOK
<1>2. NoWindow /\ CountsEveryCall /\ WipesBounded
  BY DEF Init, NoWindow, CountsEveryCall, WipesBounded
<1>3. PassedCounted /\ PassedWithinLimit
  <2>1. SUFFICES ASSUME NEW k \in Keys
                 PROVE  /\ passed[k] <= Limit(k) * wiped[k] + counter[k]
                        /\ passed[k] <= Limit(k) * (wiped[k] + 1)
    BY DEF PassedCounted, PassedWithinLimit
  <2>2. passed[k] = 0 /\ wiped[k] = 0 /\ counter[k] = 0
    BY DEF Init
  <2>3. Limit(k) \in Nat /\ Limit(k) * 0 = 0 /\ Limit(k) * (0 + 1) = Limit(k)
    BY LimitType
  <2> QED
    BY <2>2, <2>3
<1>4. FailuresCounted
  <2>1. \A e \in Emails : Failing(e) = {}
    BY DEF Failing, Init, Idle
  <2>2. Cardinality({}) = 0 /\ Cardinality(Threads) \in Nat /\ FailureLimit \in Nat \ {0}
    BY FS_EmptySet, Sizes, LimitAssumption
  <2>3. \A e \in Emails : made[FailureKey(e)] = 0
    BY KeyTypes DEF Init
  <2> QED
    BY <2>1, <2>2, <2>3 DEF FailuresCounted
<1> QED
  BY <1>1, <1>2, <1>3, <1>4 DEF IInv

LEMMA StepKeeps == IInv /\ [Next]_vars => IInv'
<1> SUFFICES ASSUME IInv, [Next]_vars PROVE IInv'
  OBVIOUS
<1>1. ASSUME NEW t \in Threads, NEW e \in Emails, NEW n \in Networks, RequestCode(t, e, n)
      PROVE  IInv'
  BY <1>1, RequestCodeKeeps
<1>2. ASSUME NEW t \in Threads, NEW e \in Emails, VerifyCode(t, e)
      PROVE  IInv'
  BY <1>2, VerifyCodeKeeps
<1>3. ASSUME NEW t \in Threads, Proceeds(t)
      PROVE  IInv'
  BY <1>3, AddKeeps, IncrKeeps, SetKeeps, SendKeeps, VerifiedKeeps DEF Proceeds
<1>4. ASSUME NEW k \in Keys, Expire(k)
      PROVE  IInv'
  BY <1>4, ExpireKeeps
<1>5. CASE UNCHANGED vars
  BY <1>5 DEF vars, IInv, TypeOK, NoWindow, CountsEveryCall, PassedCounted, PassedWithinLimit,
              WipesBounded, Setting, FailuresCounted, Failing
<1> QED
  BY <1>1, <1>2, <1>3, <1>4, <1>5 DEF Next

\* The inductive invariant of the rate limits: it adds to the properties below
\* that an expired counter has no window (NoWindow), what the limit is counted
\* against (PassedCounted) and the failures still on their way to the counter
\* (FailuresCounted).
THEOREM Invariance == Spec => []IInv
BY InitHolds, StepKeeps, PTL DEF Spec

\* Every counter the code leaves in the cache has a timeout: nothing it does
\* creates one that never expires (_incr).
THEOREM TypeCorrect == Spec => []TypeOK
<1>1. IInv => TypeOK
  BY DEF IInv
<1> QED
  BY <1>1, Invariance, PTL

\* A window lets at most its limit through for each time it was started, and
\* is restarted fewer times than there are workers (_incr).
THEOREM LimitHolds == Spec => []PassedBounded
<1>1. IInv => PassedBounded
  <2> SUFFICES ASSUME IInv, NEW k \in Keys
               PROVE  passed[k] <= Limit(k) * Cardinality(Threads)
    BY DEF PassedBounded
  <2>1. passed[k] \in Nat /\ wiped[k] \in Nat /\ counter[k] \in Nat
    BY DEF IInv, TypeOK
  <2>2. Limit(k) \in Nat
    BY LimitType
  <2>3. Cardinality(Threads) \in Nat /\ Cardinality(Setting(k)) \in Nat
    BY Sizes DEF Setting
  <2>4. CASE counter[k] = 0
    <3>1. passed[k] = 0
      BY <2>4 DEF IInv, NoWindow
    <3> QED
      BY <3>1, <2>2, <2>3
  <2>5. CASE counter[k] # 0
    <3>1. wiped[k] + 1 <= Cardinality(Threads)
      BY <2>5, <2>1, <2>3 DEF IInv, WipesBounded
    <3>2. Limit(k) * (wiped[k] + 1) <= Limit(k) * Cardinality(Threads)
      BY <3>1, <2>1, <2>2, <2>3
    <3>3. passed[k] <= Limit(k) * (wiped[k] + 1)
      BY DEF IInv, PassedWithinLimit
    <3> QED
      BY <3>2, <3>3, <2>1, <2>2, <2>3
  <2> QED
    BY <2>4, <2>5
<1> QED
  BY <1>1, Invariance, PTL

\* Looking first and counting afterwards, the workers go past the limit of
\* failed verifications by less than their number, as long as nothing has
\* wiped the count (is_otp_verify_blocked, record_otp_verify_failure).
THEOREM OvershootIsBounded == Spec => []FailuresBounded
<1>1. IInv => FailuresBounded
  <2>1. SUFFICES ASSUME IInv, NEW e \in Emails, wiped[FailureKey(e)] = 0
                 PROVE  made[FailureKey(e)] < FailureLimit + Cardinality(Threads)
    BY DEF FailuresBounded
  <2>2. made[FailureKey(e)] + Cardinality(Failing(e)) < FailureLimit + Cardinality(Threads)
    BY <2>1 DEF IInv, FailuresCounted
  <2>3. Failing(e) \in SUBSET Threads /\ made[FailureKey(e)] \in Nat
    BY <2>1, KeyTypes DEF Failing, IInv, TypeOK
  <2>4. Cardinality(Failing(e)) \in Nat /\ Cardinality(Threads) \in Nat
    BY <2>3, Sizes
  <2>5. FailureLimit \in Nat
    BY LimitAssumption
  <2> QED
    BY <2>2, <2>3, <2>4, <2>5
<1> QED
  BY <1>1, Invariance, PTL
=============================================================================
