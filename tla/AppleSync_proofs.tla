-------------------------- MODULE AppleSync_proofs --------------------------
(***************************************************************************)
(* Proofs about AppleSync, for every number of accounts, subscriptions and *)
(* workers and every value of the bounds.                                  *)
(***************************************************************************)
EXTENDS AppleSync, WellFoundedInduction, TLAPS

----------------------------------------------------------------------------
(* Lemmas about the operators *)

\* A nonempty set of natural numbers has a least element.
LEMMA LeastNat ==
  ASSUME NEW T \in SUBSET Nat, T # {}
  PROVE  \E x \in T : \A y \in T : x <= y
<1> DEFINE R == {p \in Nat \X Nat : p[1] < p[2]}
<1>1. IsWellFoundedOn(R, Nat)
  BY NatLessThanWellFounded DEF OpToRel
<1>2. PICK x \in T : \A y \in T : <<y, x>> \notin R
  <2> HIDE DEF R
  <2> QED  BY <1>1, WFMin
<1>3. \A y \in T : ~ (y < x)
  BY <1>2
<1> QED  BY <1>3

\* find_subscription_by_external_id returns a row of that subscription
\* whenever there is one.
LEMMA FirstLinkedIsLinked ==
  ASSUME TypeOK, NEW o, Linked(o) # {}
  PROVE  FirstLinked(o) \in Linked(o)
<1> DEFINE Keys == {rows[u].pk : u \in Linked(o)}
<1>1. Linked(o) \subseteq Users /\ \A u \in Users : rows[u].pk \in Nat
  BY DEF TypeOK, SubscriptionRows, Linked
<1>2. Keys \in SUBSET Nat /\ Keys # {}
  BY <1>1
<1>3. PICK k \in Keys : \A j \in Keys : k <= j
  <2> HIDE DEF Keys
  <2> QED  BY <1>2, LeastNat
<1>4. \E u \in Linked(o) : \A x \in Linked(o) : rows[u].pk <= rows[x].pk
  BY <1>3
<1> QED  BY <1>4 DEF FirstLinked

LEMMA DefaultTypes ==
  /\ NoObservation \in Observations
  /\ NoRow \in SubscriptionRows
  /\ Idle \in Tasks
<1>1. NoObservation \in Observations
  BY DEF NoObservation, Observations, StoreStates
<1>2. NoRow \in SubscriptionRows
  BY DEF NoRow, NewRow, SubscriptionRows, SubscriptionStatuses
<1> QED  BY <1>1, <1>2 DEF Idle, Tasks, LogStatuses, SubscriptionStatuses

LEMMA NewRowType ==
  ASSUME NEW u \in Users, NEW o \in Origs
  PROVE  NewRow(u, o) \in SubscriptionRows
BY DEF NewRow, SubscriptionRows, SubscriptionStatuses

\* apply_state yields a row of the same user, key and subscription.
LEMMA ApplyStateType ==
  ASSUME NEW r \in SubscriptionRows, NEW obs \in Observations
  PROVE  /\ ApplyState(r, obs) \in SubscriptionRows
         /\ ApplyState(r, obs).pk = r.pk
         /\ ApplyState(r, obs).user = r.user
         /\ ApplyState(r, obs).ext = r.ext
         /\ ApplyState(r, obs).status = StateToStatus[obs.state]
         /\ r.started > 0 => ApplyState(r, obs).started = r.started
<1>1. StateToStatus[obs.state] \in SubscriptionStatuses
  BY DEF StateToStatus, Observations, StoreStates, SubscriptionStatuses
<1>2. /\ ApplyState(r, obs).pk = r.pk
      /\ ApplyState(r, obs).user = r.user
      /\ ApplyState(r, obs).ext = r.ext
  BY DEF ApplyState, SubscriptionRows
<1>3. ApplyState(r, obs).status = StateToStatus[obs.state]
  BY DEF ApplyState, SubscriptionRows
<1>4. r.started > 0 => ApplyState(r, obs).started = r.started
  BY DEF ApplyState, SubscriptionRows
<1>5. ApplyState(r, obs) \in SubscriptionRows
  <2>1. /\ (IF obs.tx > 0 THEN obs.tx ELSE r.tx) \in Nat
        /\ (IF r.started = 0 /\ obs.tx > 0 THEN obs.start ELSE r.started) \in Nat
        /\ (IF obs.tx > 0 /\ obs.revoked THEN obs.tx ELSE r.revoked) \in Nat
        /\ (IF obs.renewal > 0 THEN obs.renewal ELSE r.renewal) \in Nat
    BY DEF SubscriptionRows, Observations
  <2> QED  BY <1>1, <2>1 DEF ApplyState, SubscriptionRows
<1> QED  BY <1>2, <1>3, <1>4, <1>5

\* Idempotent in effect (entitlement.py:98): applying an observation to the
\* row it has just produced changes nothing.
THEOREM ApplyStateIdempotent ==
  ASSUME NEW r \in SubscriptionRows, NEW obs \in Observations
  PROVE  ApplyState(ApplyState(r, obs), obs) = ApplyState(r, obs)
BY DEF ApplyState, SubscriptionRows, Observations

\* A subscription is in its own group.
LEMMA InItsGroup == \A o : o \in Group(o)
BY DEF Group

\* An entry is told about the group of its subscription.
LEMMA EntrySaid ==
  ASSUME TypeOK, NEW v \in 1 .. Len(history)
  PROVE  /\ history[v] \in Entries /\ history[v].orig \in Origs
         /\ v \in Said(history[v].orig)
<1>1. history[v] \in Entries
  BY DEF TypeOK
<1> QED  BY <1>1, InItsGroup DEF Said, Entries

\* What is known of an entry told about the group of o.
LEMMA SaidFacts ==
  ASSUME TypeOK, HistoryOK, NEW o, NEW v \in Said(o)
  PROVE  /\ v \in 1 .. Len(history) /\ v \in Nat /\ v > 0
         /\ history[v] \in Entries
         /\ history[v].txid \in Said(o) /\ history[v].first \in Said(o)
<1>1. v \in 1 .. Len(history) /\ history[v].orig \in Group(o) /\ Len(history) \in Nat
  BY DEF TypeOK, Said
<1>2. history[v] \in Entries
  BY <1>1 DEF TypeOK
<1>3. ASSUME NEW j \in {history[v].txid, history[v].first}
      PROVE  j \in Said(o)
  <2>1. j \in 1 .. v /\ history[j].orig = history[v].orig
    BY <1>1 DEF HistoryOK
  <2> QED  BY <1>1, <2>1 DEF Said
<1> QED  BY <1>1, <1>2, <1>3

LEMMA ObserveType ==
  ASSUME TypeOK, HistoryOK, NEW o, NEW v \in Said(o),
         NEW tv \in Said(o) \cup {0}, NEW rv \in Said(o) \cup {0}
  PROVE  /\ Observe(v, tv, rv) \in Observations
         /\ Observed(o, Observe(v, tv, rv))
         /\ Observe(v, tv, rv).tx = tv
         /\ Observe(v, tv, rv).state = history[v].state
<1>1. \A i \in Said(o) : i \in Nat /\ i > 0
  BY SaidFacts
<1>2. \A i \in Said(o) :
        /\ history[i].txid \in Said(o) /\ history[i].first \in Said(o)
        /\ history[i].state \in StoreStates
        /\ history[i].revoked \in BOOLEAN
        /\ history[i].renewed \in BOOLEAN
  BY SaidFacts DEF Entries
<1>3. CASE tv = 0
  <2>1. ~ (tv > 0)
    BY <1>3
  <2>2. Observe(v, tv, rv) =
          [state |-> history[v].state, tx |-> 0, txid |-> 0, revoked |-> FALSE,
           renewed |-> FALSE, start |-> 0, renewal |-> rv]
    BY <1>3, <2>1 DEF Observe
  <2>3. rv \in Nat
    BY <1>1
  <2>4. Observe(v, tv, rv) \in Observations
    <3>1. PICK i, j : i = history[v].state /\ i \in StoreStates /\ j = rv /\ j \in Nat
      BY <1>2, <2>3
    <3> QED  BY <2>2, <3>1 DEF Observations
  <2>5. Observed(o, Observe(v, tv, rv))
    BY <2>2 DEF Observed
  <2> QED  BY <1>3, <2>2, <2>4, <2>5
<1>4. CASE tv \in Said(o)
  <2> DEFINE st == IF history[tv].orig \in Dated THEN history[tv].first
                   ELSE history[tv].txid
  <2>1. tv > 0 /\ tv # 0 /\ st \in Said(o)
    BY <1>1, <1>2, <1>4
  <2>2. Observe(v, tv, rv) =
          [state |-> history[v].state, tx |-> tv, txid |-> history[tv].txid,
           revoked |-> history[tv].revoked, renewed |-> history[tv].renewed,
           start |-> st, renewal |-> rv]
    BY <1>2, <1>4, <2>1 DEF Observe
  <2> HIDE DEF st
  <2>3. Observe(v, tv, rv) \in Observations
    BY <1>1, <1>2, <1>4, <2>1, <2>2 DEF Observations
  <2>4. Observed(o, Observe(v, tv, rv))
    BY <1>4, <2>1, <2>2 DEF Observed
  <2> QED  BY <2>2, <2>3, <2>4
<1> QED  BY <1>3, <1>4

----------------------------------------------------------------------------
(* Frame lemmas: what a step leaves alone *)

\* The task a step gives worker w, when it only changes that task.
LEMMA AdvanceType ==
  ASSUME TypeOK, NEW w \in Workers, NEW t \in Tasks, Advance(w, t)
  PROVE  /\ task' \in [Workers -> Tasks]
         /\ task'[w] = t
         /\ \A x \in Workers \ {w} : task'[x] = task[x]
BY DEF TypeOK, Advance

\* A task is judged by the history, the table and what was handled.
LEMMA SoundTaskStaysSound ==
  ASSUME NEW t, TaskOK(t), UNCHANGED <<history, rows>>, handled \subseteq handled'
  PROVE  TaskOK(t)'
<1>1. ActivationOK(t)'
  BY DEF TaskOK, ActivationOK, FreshSince, Said
<1>2. NotificationOK(t)'
  BY DEF TaskOK, NotificationOK
<1>3. SyncOK(t)'
  BY DEF TaskOK, SyncOK, Copy, FromApple, Said
<1>4. SavingOK(t)'
  BY DEF TaskOK, SavingOK, Observed, Copy, FromApple, Said
<1> QED  BY <1>1, <1>2, <1>3, <1>4 DEF TaskOK

\* A step of worker w that changes neither table nor history keeps the
\* invariant if it leaves w with a sound task.
LEMMA OneTaskChanges ==
  ASSUME IInv, NEW w \in Workers,
         UNCHANGED <<history, rows>>, handled \subseteq handled',
         \A x \in Workers \ {w} : task'[x] = task[x],
         TaskOK(task[w])'
  PROVE  (HistoryOK /\ RowsOK /\ \A x \in Workers : TaskOK(task[x]))'
<1>1. HistoryOK' /\ RowsOK'
  BY DEF IInv, HistoryOK, RowsOK, FromApple, Said
<1>2. ASSUME NEW x \in Workers, x # w
      PROVE  TaskOK(task[x])'
  <2>1. PICK t : t = task[x] /\ task'[x] = t /\ TaskOK(t)
    BY <1>2 DEF IInv
  <2>2. TaskOK(t)'
    BY <2>1, SoundTaskStaysSound
  <2> QED  BY <2>1, <2>2
<1> QED  BY <1>1, <1>2

\* Facts about worker w that every step of it starts from.
LEMMA TaskFacts ==
  ASSUME IInv, NEW w \in Workers
  PROVE  /\ TypeOK /\ HistoryOK /\ RowsOK
         /\ task[w] \in Tasks
         /\ TaskOK(task[w])
         /\ Len(history) \in Nat
BY DEF IInv, TypeOK

\* A step that leaves history and table alone keeps the invariant if what it
\* writes is well typed, it settles and acknowledges only what was handled,
\* and it leaves w with a sound task.
LEMMA StepKeepsIInv ==
  ASSUME IInv, NEW w \in Workers, NEW t \in Tasks, Advance(w, t), TaskOK(task[w])',
         UNCHANGED <<history, store>>,
         log' \in [Notes -> LogStatuses], faults' \in Nat,
         acked' \subseteq Notes, told' \in [Users -> Signals],
         fired' \in [Notes -> Nat],
         handled \subseteq handled', handled' \subseteq Notes,
         AckedMeansHandled', SettledMeansHandled'
  PROVE  IInv'
<1>1. TypeOK BY DEF IInv
<1>2. /\ task' \in [Workers -> Tasks]
      /\ \A x \in Workers \ {w} : task'[x] = task[x]
  BY <1>1, AdvanceType
<1>3. (HistoryOK /\ RowsOK /\ \A x \in Workers : TaskOK(task[x]))'
  BY <1>2, OneTaskChanges DEF store
<1>4. TypeOK'
  BY <1>1, <1>2 DEF TypeOK, store
<1> QED  BY <1>3, <1>4 DEF IInv

\* As StepKeepsIInv, for a step that settles and acknowledges nothing.
LEMMA TaskStepKeepsIInv ==
  ASSUME IInv, NEW w \in Workers, NEW t \in Tasks, Advance(w, t), TaskOK(task[w])',
         UNCHANGED <<history, store, acked, told, fired>>,
         log' \in [Notes -> LogStatuses], faults' \in Nat,
         \A n \in Notes : log'[n] \in Settled => log[n] = log'[n],
         handled \subseteq handled', handled' \subseteq Notes
  PROVE  IInv'
<1>1. AckedMeansHandled' /\ SettledMeansHandled'
  BY DEF IInv, AckedMeansHandled, SettledMeansHandled
<1>2. /\ acked' \subseteq Notes
      /\ told' \in [Users -> Signals]
      /\ fired' \in [Notes -> Nat]
  BY DEF IInv, TypeOK
<1> QED  BY <1>1, <1>2, StepKeepsIInv

\* Nothing but a task changed, and that one is over.
LEMMA DoneKeepsIInv ==
  ASSUME IInv, NEW w \in Workers, Done(w),
         UNCHANGED <<history, store, acked, ghosts>>,
         log' \in [Notes -> LogStatuses], faults' \in Nat,
         \A n \in Notes : log'[n] \in Settled => log[n] = log'[n]
  PROVE  IInv'
<1>1. Idle \in Tasks /\ Advance(w, Idle) /\ task'[w] = Idle
  BY DefaultTypes, AdvanceType DEF Done, IInv
<1>2. TaskOK(task[w])'
  BY <1>1 DEF Idle, TaskOK, ActivationOK, NotificationOK, SyncOK, SavingOK
<1>3. handled' \subseteq Notes /\ UNCHANGED <<told, fired, handled>>
  BY DEF IInv, TypeOK, ghosts
<1> QED  BY <1>1, <1>2, <1>3, TaskStepKeepsIInv DEF ghosts

\* A delivery under way is that of a notification of the model.
LEMMA NoteOfTask ==
  ASSUME IInv, NEW w \in Workers, task[w].kind = "notify"
  PROVE  task[w].ver \in Notes
<1>1. task[w].ver \in 1 .. Len(history)
  BY TaskFacts DEF TaskOK, NotificationOK
<1> QED  BY <1>1, TaskFacts, BoundAssumption DEF HistoryOK, Notes, Versions

----------------------------------------------------------------------------
(* Requests arrive *)

LEMMA ActivateKeepsIInv ==
  ASSUME IInv, NEW w \in Workers, NEW u \in Users, NEW v \in Versions,
         Activate(w, u, v)
  PROVE  IInv'
<1>1. PICK o, n, t :
        /\ o = history[v].orig
        /\ n = Len(history)
        /\ t = [Idle EXCEPT !.pc = "fetch", !.kind = "activate", !.user = u,
                            !.orig = o, !.ver = v, !.since = n]
        /\ Advance(w, t)
  BY DEF Activate
<1>2. n \in Nat /\ v \in 1 .. n /\ v \in Nat
  BY <1>1, TaskFacts DEF Activate
<1>3. o \in Origs /\ v \in Said(o)
  BY <1>1, <1>2, TaskFacts, EntrySaid
<1>4. Len(history)' = n /\ Said(o)' = Said(o)
  BY <1>1 DEF Activate, Said
<1>5. t \in Tasks
  BY <1>1, <1>2, <1>3, DefaultTypes DEF Tasks
<1>6. task'[w] = t
  BY <1>1, <1>5, TaskFacts, AdvanceType
<1>7. /\ t.pc = "fetch" /\ t.kind = "activate" /\ t.user = u /\ t.orig = o
      /\ t.ver = v /\ t.since = n
  BY <1>1 DEF Idle
<1>8. TaskOK(t)'
  <2>1. ActivationOK(t)'
    BY <1>2, <1>3, <1>4, <1>7 DEF ActivationOK
  <2> QED  BY <1>7, <2>1 DEF TaskOK, NotificationOK, SyncOK, SavingOK
<1> QED  BY <1>1, <1>5, <1>6, <1>8, TaskStepKeepsIInv, TaskFacts
            DEF Activate, TypeOK, ghosts

LEMMA ReceiveKeepsIInv ==
  ASSUME IInv, NEW w \in Workers, NEW n \in Notes, ReceiveNotification(w, n)
  PROVE  IInv'
<1>1. PICK o, place, obs, t :
        /\ o = history[n].orig
        /\ place = IF n \in Bare THEN "settle" ELSE "find"
        /\ obs = IF n \in Bare THEN NoObservation ELSE Observe(n, n, n)
        /\ t = [Idle EXCEPT !.pc = place, !.kind = "notify", !.orig = o, !.ver = n,
                            !.obs = obs, !.outcome = "IGNORED"]
        /\ Advance(w, t)
  BY DEF ReceiveNotification
<1>2. Len(history) \in Nat /\ n \in 1 .. Len(history) /\ n \in Nat
  BY TaskFacts DEF ReceiveNotification
<1>3. o \in Origs /\ n \in Said(o)
  BY <1>1, <1>2, TaskFacts, EntrySaid
<1>4. /\ Observe(n, n, n) \in Observations
      /\ Observed(o, Observe(n, n, n))
  BY <1>3, TaskFacts, ObserveType
<1>5. /\ obs \in Observations /\ place \in {"settle", "find"}
      /\ place = "find" => Observed(o, obs)
      /\ place = "settle" => n \in Bare
  BY <1>1, <1>4, DefaultTypes
<1>6. history' = history /\ handled' = handled
  BY DEF ReceiveNotification, ghosts
<1>7. place = "find" => Observed(o, obs)'
  BY <1>5, <1>6 DEF Observed, Said
<1>8. /\ t.pc = place /\ t.kind = "notify" /\ t.orig = o /\ t.ver = n /\ t.obs = obs
  BY <1>1 DEF Idle
<1>9. t \in Tasks
  BY <1>1, <1>2, <1>3, <1>5, DefaultTypes DEF Tasks, LogStatuses
<1>10. task'[w] = t
  BY <1>1, <1>9, TaskFacts, AdvanceType
<1>11. TaskOK(t)'
  <2>1. NotificationOK(t)'
    BY <1>2, <1>3, <1>5, <1>6, <1>8 DEF NotificationOK
  <2>2. SavingOK(t)'
    BY <1>5, <1>7, <1>8 DEF SavingOK
  <2> QED  BY <1>8, <2>1, <2>2 DEF TaskOK, ActivationOK, SyncOK
<1>12. /\ log' \in [Notes -> LogStatuses]
       /\ \A m \in Notes : log'[m] \in Settled => log[m] = log'[m]
  BY TaskFacts DEF ReceiveNotification, TypeOK, LogStatuses, Settled
<1> QED  BY <1>1, <1>9, <1>10, <1>11, <1>12, TaskStepKeepsIInv, TaskFacts
            DEF ReceiveNotification, TypeOK, ghosts

LEMMA DuplicateKeepsIInv ==
  ASSUME IInv, NEW w \in Workers, NEW n \in Notes, DuplicateDelivery(w, n)
  PROVE  IInv'
<1>1. n \in handled \cup Bare
  BY DEF IInv, SettledMeansHandled, DuplicateDelivery, AlreadySettled
<1>2. TypeOK'
  BY DEF IInv, TypeOK, DuplicateDelivery, store, ghosts
<1>3. (HistoryOK /\ RowsOK /\ \A x \in Workers : TaskOK(task[x]))'
  <2>1. UNCHANGED <<history, rows, handled, task>> /\ TaskOK(task[w])
    BY DEF IInv, DuplicateDelivery, store, ghosts
  <2>2. PICK t : t = task[w] /\ t = task'[w] /\ TaskOK(t)
    BY <2>1
  <2>3. TaskOK(t)'
    BY <2>1, <2>2, SoundTaskStaysSound
  <2> QED  BY <2>1, <2>2, <2>3, OneTaskChanges
<1>4. AckedMeansHandled' /\ SettledMeansHandled'
  BY <1>1 DEF IInv, AckedMeansHandled, SettledMeansHandled, DuplicateDelivery, ghosts
<1> QED  BY <1>2, <1>3, <1>4 DEF IInv

LEMMA StartSweepKeepsIInv ==
  ASSUME IInv, NEW w \in Workers, StartSweep(w)
  PROVE  IInv'
<1>1. PICK q \in SUBSET {u \in Users : rows[u].pk > 0} :
        Advance(w, [Idle EXCEPT !.pc = "next", !.kind = "sync", !.queue = q])
  BY DEF StartSweep
<1> DEFINE t == [Idle EXCEPT !.pc = "next", !.kind = "sync", !.queue = q]
<1>2. t \in Tasks
  BY DefaultTypes DEF Tasks
<1>3. task'[w] = t /\ rows' = rows
  BY <1>1, <1>2, TaskFacts, AdvanceType DEF StartSweep, store
<1>4. TaskOK(task[w])'
  BY <1>3 DEF Idle, TaskOK, ActivationOK, NotificationOK, SyncOK, SavingOK
<1> HIDE DEF t
<1> QED  BY <1>1, <1>2, <1>4, TaskStepKeepsIInv, TaskFacts
            DEF StartSweep, TypeOK, ghosts, t

\* What sync_subscription and handle_notification read is a copy.
LEMMA ReadRowIsCopy ==
  ASSUME IInv, NEW o \in Origs, Linked(o) # {}
  PROVE  /\ rows[FirstLinked(o)] \in SubscriptionRows
         /\ rows[FirstLinked(o)].ext = o
         /\ Copy(rows[FirstLinked(o)])
         /\ rows[FirstLinked(o)].user = FirstLinked(o)
<1>1. FirstLinked(o) \in Linked(o)
  BY FirstLinkedIsLinked DEF IInv
<1>2. /\ FirstLinked(o) \in Users
      /\ rows[FirstLinked(o)].pk > 0
      /\ rows[FirstLinked(o)].ext = o
  BY <1>1 DEF Linked
<1> QED  BY <1>2 DEF IInv, TypeOK, RowsOK, Copy

LEMMA SyncNextKeepsIInv ==
  ASSUME IInv, NEW w \in Workers, SyncNext(w)
  PROVE  IInv'
<1>1. PICK u, o, r, t :
        /\ u \in task[w].queue
        /\ o = rows[u].ext
        /\ r = rows[FirstLinked(o)]
        /\ t = [task[w] EXCEPT !.pc = "fetch", !.orig = o, !.row = r,
                               !.queue = @ \ {u}]
        /\ Advance(w, t)
  BY DEF SyncNext
<1>2. task[w].pc = "next" /\ task[w].kind = "sync"
  BY TaskFacts DEF SyncNext, TaskOK, ActivationOK, NotificationOK, SavingOK, Tasks
<1>3. u \in Users /\ rows[u].pk > 0
  BY <1>1, <1>2, TaskFacts DEF TaskOK, SyncOK
<1>4. o \in Origs /\ u \in Linked(o)
  BY <1>1, <1>3 DEF IInv, RowsOK, FromApple, Linked
<1>5. r \in SubscriptionRows /\ r.ext = o /\ Copy(r)
  BY <1>1, <1>4, ReadRowIsCopy
<1>6. t \in Tasks
  BY <1>1, <1>4, <1>5, TaskFacts DEF Tasks
<1>7. task'[w] = t /\ UNCHANGED <<rows, history>>
  BY <1>1, <1>6, TaskFacts, AdvanceType DEF SyncNext, store
<1>8. TaskOK(task[w])'
  <2>1. /\ t.pc = "fetch" /\ t.kind = "sync" /\ t.orig = o /\ t.row = r
        /\ t.queue \subseteq task[w].queue /\ t.ver = 0
    BY <1>1, <1>2, TaskFacts DEF Tasks, TaskOK, SyncOK
  <2>2. Copy(r)'
    BY <1>5, <1>7 DEF Copy, FromApple, Said
  <2>3. t.queue \subseteq {x \in Users : rows'[x].pk > 0}
    BY <1>2, <1>7, <2>1, TaskFacts DEF TaskOK, SyncOK
  <2> QED  BY <1>5, <1>7, <2>1, <2>2, <2>3
              DEF TaskOK, ActivationOK, NotificationOK, SyncOK, SavingOK
<1> QED  BY <1>1, <1>6, <1>8, TaskStepKeepsIInv, TaskFacts
            DEF SyncNext, TypeOK, ghosts

----------------------------------------------------------------------------
(* The App Store Server API *)

\* What Fetch makes of the answer: an observation of the group's newest entry
\* of some subscription.
LEMMA FetchObserves ==
  ASSUME IInv, NEW w \in Workers, Fetch(w)
  PROVE  \E v \in Said(task[w].orig), tv \in Said(task[w].orig) \cup {0},
            rv \in Said(task[w].orig) \cup {0} :
           /\ v \in Newest
           /\ task[w].kind = "activate" => tv > 0
           /\ Advance(w, [task[w] EXCEPT
                            !.pc  = IF task[w].kind = "activate" THEN "link" ELSE "save",
                            !.obs = Observe(v, tv, rv)])
<1> DEFINE o == task[w].orig
<1>1. PICK items \in SUBSET {v \in Newest : history[v].orig \in Group(o)} :
        \E answer \in [items -> Shapes] :
        \E v \in Selected(o, answer) :
          Advance(w, [task[w] EXCEPT
            !.pc  = IF task[w].kind = "activate" THEN "link" ELSE "save",
            !.obs = Observe(v, IF answer[v].tx THEN v ELSE task[w].ver,
                            IF answer[v].renewal THEN v ELSE 0)])
  BY DEF Fetch
<1>2. PICK answer \in [items -> Shapes] :
        \E v \in Selected(o, answer) :
          Advance(w, [task[w] EXCEPT
            !.pc  = IF task[w].kind = "activate" THEN "link" ELSE "save",
            !.obs = Observe(v, IF answer[v].tx THEN v ELSE task[w].ver,
                            IF answer[v].renewal THEN v ELSE 0)])
  BY <1>1
<1>3. PICK v \in Selected(o, answer) :
        Advance(w, [task[w] EXCEPT
          !.pc  = IF task[w].kind = "activate" THEN "link" ELSE "save",
          !.obs = Observe(v, IF answer[v].tx THEN v ELSE task[w].ver,
                          IF answer[v].renewal THEN v ELSE 0)])
  BY <1>2
<1>4. v \in items
  BY <1>2, <1>3 DEF Selected
<1>5. v \in Newest /\ v \in Said(o)
  BY <1>1, <1>4 DEF Newest, Said
<1>6. /\ task[w].ver \in Said(o) \cup {0}
      /\ task[w].kind = "activate" => task[w].ver \in Said(o)
  <2>1. task[w].pc = "fetch"
    BY DEF Fetch
  <2>2. task[w].kind \in {"activate", "sync"}
    BY <2>1, TaskFacts DEF TaskOK, NotificationOK, SavingOK, Tasks
  <2> QED  BY <2>2, TaskFacts DEF TaskOK, ActivationOK, SyncOK
<1>7. \A x \in Said(o) : x > 0
  BY SaidFacts, TaskFacts
<1> DEFINE tv == IF answer[v].tx THEN v ELSE task[w].ver
           rv == IF answer[v].renewal THEN v ELSE 0
<1>8. /\ tv \in Said(o) \cup {0} /\ rv \in Said(o) \cup {0}
      /\ task[w].kind = "activate" => tv > 0
  BY <1>5, <1>6, <1>7
<1> QED  BY <1>3, <1>5, <1>8

LEMMA FetchKeepsIInv ==
  ASSUME IInv, NEW w \in Workers, Fetch(w)
  PROVE  IInv'
<1>1. PICK o, v, tv, rv, obs, t :
        /\ o = task[w].orig
        /\ v \in Said(o) /\ tv \in Said(o) \cup {0} /\ rv \in Said(o) \cup {0}
        /\ v \in Newest
        /\ task[w].kind = "activate" => tv > 0
        /\ obs = Observe(v, tv, rv)
        /\ t = [task[w] EXCEPT
                  !.pc  = IF task[w].kind = "activate" THEN "link" ELSE "save",
                  !.obs = obs]
        /\ Advance(w, t)
  BY FetchObserves
<1>2. task[w].pc = "fetch" /\ task[w] \in Tasks /\ task[w].orig = o
  BY <1>1, TaskFacts DEF Fetch
<1>3. obs \in Observations /\ Observed(o, obs) /\ obs.tx = tv
      /\ obs.state = history[v].state
  BY <1>1, TaskFacts, ObserveType
<1>4. UNCHANGED <<history, rows>> /\ Said(o)' = Said(o)
  BY DEF Fetch, store, Said
<1>5. Observed(o, obs)'
  BY <1>3, <1>4 DEF Observed
<1>6. CASE task[w].kind = "activate"
  <2>1. /\ o \in Origs /\ task[w].ver \in Said(o)
        /\ task[w].since \in 1 .. Len(history) /\ task[w].user \in Users
    BY <1>1, <1>6, TaskFacts DEF TaskOK, ActivationOK
  <2>2. t = [task[w] EXCEPT !.pc = "link", !.obs = obs]
    BY <1>1, <1>6
  <2>3. /\ t \in Tasks
        /\ t.pc = "link" /\ t.kind = "activate" /\ t.orig = o /\ t.obs = obs
        /\ t.user = task[w].user /\ t.ver = task[w].ver /\ t.since = task[w].since
    BY <1>2, <1>3, <1>6, <2>2 DEF Tasks
  <2>4. task'[w] = t
    BY <1>1, <2>3, TaskFacts, AdvanceType
  <2>5. FreshSince(o, t.since, obs)'
    <3>1. \A j \in v + 1 .. t.since : history[j].orig # history[v].orig
      <4>1. Len(history) \in Nat /\ v \in Nat /\ t.since \in 1 .. Len(history)
        BY <1>1, <2>1, <2>3, TaskFacts, SaidFacts
      <4>2. \A j \in v + 1 .. t.since : j \in v + 1 .. Len(history)
        BY <4>1
      <4> QED  BY <1>1, <4>2 DEF Newest
    <3> QED  BY <1>1, <1>3, <1>4, <3>1 DEF FreshSince
  <2>6. TaskOK(t)'
    <3>1. ActivationOK(t)'
      BY <1>1, <1>3, <1>4, <1>6, <2>1, <2>3, <2>5 DEF ActivationOK
    <3>2. SavingOK(t)'
      BY <1>5, <2>3 DEF SavingOK
    <3> QED  BY <2>3, <3>1, <3>2 DEF TaskOK, NotificationOK, SyncOK
  <2> QED  BY <1>1, <2>3, <2>4, <2>6, TaskStepKeepsIInv, TaskFacts
              DEF Fetch, TypeOK, ghosts
<1>7. CASE task[w].kind = "sync"
  <2>1. /\ task[w].row.ext = o /\ Copy(task[w].row)
        /\ task[w].queue \subseteq {x \in Users : rows[x].pk > 0}
        /\ task[w].ver = 0
    BY <1>1, <1>2, <1>7, TaskFacts DEF TaskOK, SyncOK
  <2>2. t = [task[w] EXCEPT !.pc = "save", !.obs = obs]
    BY <1>1, <1>7
  <2>3. /\ t \in Tasks
        /\ t.pc = "save" /\ t.kind = "sync" /\ t.orig = o /\ t.obs = obs
        /\ t.row = task[w].row /\ t.queue = task[w].queue /\ t.ver = task[w].ver
    BY <1>2, <1>3, <1>7, <2>2 DEF Tasks
  <2>4. task'[w] = t
    BY <1>1, <2>3, TaskFacts, AdvanceType
  <2>5. Copy(t.row)'
    BY <1>4, <2>1, <2>3 DEF Copy, FromApple, Said
  <2>6. TaskOK(t)'
    BY <1>4, <1>5, <2>1, <2>3, <2>5
       DEF TaskOK, ActivationOK, NotificationOK, SyncOK, SavingOK
  <2> QED  BY <1>1, <2>3, <2>4, <2>6, TaskStepKeepsIInv, TaskFacts
              DEF Fetch, TypeOK, ghosts
<1>8. task[w].kind \in {"activate", "sync"}
  BY <1>2, TaskFacts DEF TaskOK, NotificationOK, SavingOK, Tasks
<1> QED  BY <1>6, <1>7, <1>8

----------------------------------------------------------------------------
(* The entitlement engine *)

LEMMA LinkKeepsIInv ==
  ASSUME IInv, NEW w \in Workers, Link(w)
  PROVE  IInv'
<1>1. PICK s, o, r, t :
        /\ s = task[w]
        /\ o = s.orig
        /\ r = IF Linked(o) = {} THEN NewRow(s.user, o) ELSE rows[FirstLinked(o)]
        /\ t = IF Linked(o) = {} \/ FirstLinked(o) = s.user
               THEN [s EXCEPT !.pc = "save", !.row = r] ELSE Idle
        /\ Advance(w, t)
  BY DEF Link
<1>2. s.pc = "link" /\ s.kind = "activate" /\ s \in Tasks
  BY <1>1, TaskFacts DEF Link, TaskOK, NotificationOK, SyncOK, SavingOK, Tasks
<1>3. /\ s.user \in Users /\ o \in Origs
      /\ ActivationOK(s) /\ Observed(o, s.obs)
  BY <1>1, <1>2, TaskFacts DEF TaskOK, ActivationOK, SavingOK
<1>4. CASE Linked(o) = {} \/ FirstLinked(o) = s.user
  <2>1. /\ r \in SubscriptionRows
        /\ r.ext = o
        /\ r.user = s.user
        /\ (r.pk = 0 /\ r = NewRow(s.user, o)) \/ Copy(r)
    <3>1. CASE Linked(o) = {}
      BY <1>1, <1>3, <3>1, NewRowType DEF NewRow
    <3>2. CASE Linked(o) # {}
      BY <1>1, <1>3, <1>4, <3>2, ReadRowIsCopy
    <3> QED  BY <3>1, <3>2
  <2>2. t = [s EXCEPT !.pc = "save", !.row = r]
    BY <1>1, <1>4
  <2>3. /\ t \in Tasks
        /\ t.pc = "save" /\ t.kind = "activate" /\ t.row = r /\ t.orig = o
        /\ t.user = s.user /\ t.ver = s.ver /\ t.since = s.since /\ t.obs = s.obs
    <3>1. s.orig = o
      BY <1>1
    <3> QED  BY <1>2, <2>1, <2>2, <3>1 DEF Tasks
  <2>4. task'[w] = t /\ UNCHANGED <<rows, history>>
    BY <1>1, <2>3, TaskFacts, AdvanceType DEF Link, store
  <2>5. ActivationOK(t)'
    BY <1>1, <1>2, <1>3, <2>1, <2>3, <2>4 DEF ActivationOK, FreshSince, Said
  <2>6. SavingOK(t)'
    <3>1. Observed(o, s.obs)'
      BY <1>3, <2>4 DEF Observed, Said
    <3>2. (r.pk = 0 /\ r = NewRow(s.user, o)) \/ Copy(r)'
      BY <2>1, <2>4 DEF Copy, FromApple, Said
    <3> QED  BY <2>1, <2>3, <3>1, <3>2 DEF SavingOK
  <2>7. TaskOK(task[w])'
    BY <2>3, <2>4, <2>5, <2>6 DEF TaskOK, NotificationOK, SyncOK
  <2> QED  BY <1>1, <2>3, <2>7, TaskStepKeepsIInv, TaskFacts
              DEF Link, TypeOK, ghosts
<1>5. CASE ~ (Linked(o) = {} \/ FirstLinked(o) = s.user)
  BY <1>1, <1>5, DoneKeepsIInv, TaskFacts DEF Link, Done, TypeOK
<1> QED  BY <1>4, <1>5

LEMMA FindKeepsIInv ==
  ASSUME IInv, NEW w \in Workers, FindForNotification(w)
  PROVE  IInv'
<1>1. PICK s, o, r, t :
        /\ s = task[w]
        /\ o = s.orig
        /\ r = rows[FirstLinked(o)]
        /\ t = IF Linked(o) = {}
               THEN [s EXCEPT !.pc = "settle", !.outcome = "IGNORED"]
               ELSE [s EXCEPT !.pc = "save", !.row = r, !.outcome = "PROCESSED"]
        /\ Advance(w, t)
  BY DEF FindForNotification
<1>2. s.pc = "find" /\ s.kind = "notify" /\ s \in Tasks
  BY <1>1, TaskFacts
     DEF FindForNotification, TaskOK, ActivationOK, SyncOK, SavingOK, Tasks
<1>3. /\ o \in Origs /\ s.ver \in 1 .. Len(history) /\ Observed(o, s.obs)
      /\ s.ver \in Notes
  BY <1>1, <1>2, TaskFacts, NoteOfTask DEF TaskOK, NotificationOK, SavingOK
<1>4. UNCHANGED <<rows, history, acked, store, log, told, fired, faults>>
  BY DEF FindForNotification, store
<1>5. CASE Linked(o) = {}
  <2>1. t = [s EXCEPT !.pc = "settle", !.outcome = "IGNORED"]
    BY <1>1, <1>5
  <2>2. /\ t \in Tasks
        /\ t.pc = "settle" /\ t.kind = "notify" /\ t.orig = o /\ t.ver = s.ver
    <3>1. s.orig = o
      BY <1>1
    <3> QED  BY <1>2, <2>1, <3>1 DEF Tasks, LogStatuses
  <2>3. task'[w] = t
    BY <1>1, <2>2, TaskFacts, AdvanceType
  <2>4. handled' = handled \cup {s.ver}
    BY <1>1, <1>5 DEF FindForNotification
  <2>5. TaskOK(task[w])'
    BY <1>3, <1>4, <2>2, <2>3, <2>4
       DEF TaskOK, ActivationOK, NotificationOK, SyncOK, SavingOK
  <2> QED  BY <1>1, <1>3, <1>4, <2>2, <2>4, <2>5, TaskStepKeepsIInv, TaskFacts
              DEF TypeOK
<1>6. CASE Linked(o) # {}
  <2>1. t = [s EXCEPT !.pc = "save", !.row = r, !.outcome = "PROCESSED"]
    BY <1>1, <1>6
  <2>2. r \in SubscriptionRows /\ r.ext = o /\ Copy(r)
    BY <1>1, <1>3, <1>6, ReadRowIsCopy
  <2>3. /\ t \in Tasks
        /\ t.pc = "save" /\ t.kind = "notify" /\ t.orig = o /\ t.ver = s.ver
        /\ t.row = r /\ t.obs = s.obs
    <3>1. s.orig = o
      BY <1>1
    <3> QED  BY <1>2, <2>1, <2>2, <3>1 DEF Tasks, LogStatuses
  <2>4. task'[w] = t /\ handled' = handled
    BY <1>1, <1>6, <2>3, TaskFacts, AdvanceType DEF FindForNotification
  <2>5. Observed(o, s.obs)' /\ Copy(r)'
    BY <1>3, <1>4, <2>2 DEF Observed, Copy, FromApple, Said
  <2>6. TaskOK(task[w])'
    BY <1>3, <1>4, <2>2, <2>3, <2>4, <2>5
       DEF TaskOK, ActivationOK, NotificationOK, SyncOK, SavingOK
  <2> QED  BY <1>1, <1>4, <2>3, <2>4, <2>6, TaskStepKeepsIInv, TaskFacts
              DEF TypeOK
<1> QED  BY <1>5, <1>6

\* apply_state keeps a row's promise to repeat the App Store: when it starts
\* from a row that does, or from a new one and a transaction.
LEMMA ApplyStateFromApple ==
  ASSUME IInv, NEW o \in Origs, NEW r \in SubscriptionRows,
         NEW obs \in Observations, Observed(o, obs),
         FromApple(o, r) \/ (obs.tx > 0 /\ \E u \in Users : r = NewRow(u, o))
  PROVE  FromApple(o, ApplyState(r, obs))
<1> DEFINE a == ApplyState(r, obs)
<1>1. \A i \in Said(o) : i \in Nat /\ i > 0
  BY TaskFacts, SaidFacts DEF IInv
<1>2. /\ a.tx = IF obs.tx > 0 THEN obs.tx ELSE r.tx
      /\ a.started = IF r.started = 0 /\ obs.tx > 0 THEN obs.start ELSE r.started
      /\ a.revoked = IF obs.tx > 0 /\ obs.revoked THEN obs.tx ELSE r.revoked
      /\ a.renewal = IF obs.renewal > 0 THEN obs.renewal ELSE r.renewal
      /\ a.status = StateToStatus[obs.state]
  BY DEF ApplyState, SubscriptionRows
<1> HIDE DEF a
<1>3. \E v \in Said(o) : a.status = StateToStatus[history[v].state]
  BY <1>2 DEF Observed
<1>4. obs.tx > 0 => /\ obs.tx \in Said(o) /\ obs.start \in Said(o)
                    /\ obs.revoked = history[obs.tx].revoked
  BY DEF Observed
<1>5. obs.renewal > 0 => obs.renewal \in Said(o)
  BY DEF Observed
<1>6. CASE FromApple(o, r)
  <2>1. /\ r.tx \in Said(o) /\ r.started \in Said(o) /\ r.renewal \in Said(o) \cup {0}
        /\ r.revoked > 0 => r.revoked \in Said(o) /\ history[r.revoked].revoked
    BY <1>6 DEF FromApple
  <2>2. a.tx \in Said(o) /\ a.renewal \in Said(o) \cup {0} /\ a.started \in Said(o)
    BY <1>1, <1>2, <1>4, <1>5, <2>1
  <2>3. a.revoked > 0 => a.revoked \in Said(o) /\ history[a.revoked].revoked
    BY <1>2, <1>4, <2>1
  <2> QED  BY <1>3, <2>2, <2>3 DEF FromApple, a
<1>7. CASE obs.tx > 0 /\ \E u \in Users : r = NewRow(u, o)
  <2>1. r.tx = 0 /\ r.started = 0 /\ r.renewal = 0 /\ r.revoked = 0
    BY <1>7 DEF NewRow
  <2>2. a.tx \in Said(o) /\ a.renewal \in Said(o) \cup {0} /\ a.started \in Said(o)
    BY <1>2, <1>4, <1>5, <1>7, <2>1
  <2>3. a.revoked > 0 => a.revoked \in Said(o) /\ history[a.revoked].revoked
    BY <1>2, <1>4, <2>1
  <2> QED  BY <1>3, <2>2, <2>3 DEF FromApple, a
<1> QED  BY <1>6, <1>7

\* A commit of worker w, of a new row or over one with the same key,
\* subscription and start, disturbs no other worker's copy.
LEMMA CommitKeepsIInv ==
  ASSUME IInv, NEW w \in Workers, NEW s \in Tasks, s = task[w], s.pc = "save",
         NEW r \in SubscriptionRows, r.user \in Users, r.pk > 0,
         FromApple(r.ext, r),
         rows[r.user].pk > 0 => /\ rows[r.user].pk = r.pk
                                /\ rows[r.user].ext = r.ext
                                /\ rows[r.user].started = r.started,
         Commit(w, r, s.obs), nextPk' \in Nat \ {0}
  PROVE  IInv'
<1>1. /\ TypeOK /\ HistoryOK /\ RowsOK /\ TaskOK(s)
      /\ UNCHANGED <<history, log, acked, told, fired, faults>>
      /\ rows' = [rows EXCEPT ![r.user] = r]
      /\ rows \in [Users -> SubscriptionRows]
  BY TaskFacts DEF Commit, TypeOK
<1>2. PICK t : /\ t = [s EXCEPT !.pc = "signal", !.row = r,
                                !.isNew = s.row.pk = 0, !.prev = s.row.status]
               /\ Advance(w, t)
  BY DEF Commit
<1>3. /\ t \in Tasks
      /\ t.pc = "signal" /\ t.kind = s.kind /\ t.user = s.user
      /\ t.orig = s.orig /\ t.ver = s.ver /\ t.since = s.since
      /\ t.queue = s.queue
  <2>1. s.row.status \in SubscriptionStatuses /\ (s.row.pk = 0) \in BOOLEAN
    BY DEF Tasks, SubscriptionRows
  <2> QED  BY <1>2, <2>1 DEF Tasks
<1>4. /\ task' \in [Workers -> Tasks] /\ task'[w] = t
      /\ \A x \in Workers \ {w} : task'[x] = task[x]
  BY <1>1, <1>2, <1>3, AdvanceType
<1>5. /\ handled \subseteq handled' /\ handled' \subseteq Notes
      /\ s.kind = "notify" => s.ver \in handled'
  <2>1. s.kind = "notify" => s.ver \in Notes
    BY NoteOfTask
  <2> QED  BY <1>1, <2>1 DEF Commit, TypeOK
<1>6. TypeOK'
  <2>1. rows' \in [Users -> SubscriptionRows]
    BY <1>1
  <2>2. ledger' \in [Versions -> Nat]
    <3>1. s.obs.tx \in Nat
      BY DEF Tasks, Observations
    <3>2. ledger \in [Versions -> Nat]
      BY <1>1 DEF TypeOK
    <3> QED  BY <3>1, <3>2 DEF Commit
  <2> QED  BY <1>1, <1>4, <1>5, <2>1, <2>2 DEF TypeOK
<1>7. HistoryOK' /\ RowsOK'
  <2>1. HistoryOK'
    BY <1>1 DEF HistoryOK
  <2>2. ASSUME NEW u \in Users, rows'[u].pk > 0
        PROVE  rows'[u].user = u /\ FromApple(rows[u].ext, rows[u])'
    <3>1. CASE u = r.user
      BY <1>1, <3>1 DEF FromApple, Said
    <3>2. CASE u # r.user
      <4>1. rows'[u] = rows[u]
        BY <1>1, <3>2
      <4>2. rows[u].user = u /\ FromApple(rows[u].ext, rows[u])
        BY <1>1, <2>2, <4>1 DEF RowsOK
      <4>3. history' = history
        BY <1>1
      <4> QED  BY <4>1, <4>2, <4>3 DEF FromApple, Said
    <3> QED  BY <3>1, <3>2
  <2> QED  BY <2>1, <2>2 DEF RowsOK
<1>8. ASSUME NEW c, Copy(c)
      PROVE  Copy(c)'
  BY <1>1, <1>8 DEF Copy, FromApple, Said
<1>9. {x \in Users : rows[x].pk > 0} \subseteq {x \in Users : rows'[x].pk > 0}
  BY <1>1
<1>10. TaskOK(task[w])'
  <2>1. ActivationOK(t)'
    BY <1>1, <1>3 DEF TaskOK, ActivationOK, Said
  <2>2. NotificationOK(t)'
    BY <1>1, <1>3, <1>5 DEF TaskOK, NotificationOK
  <2>3. SyncOK(t)'
    BY <1>1, <1>3, <1>9 DEF TaskOK, SyncOK
  <2>4. SavingOK(t)'
    BY <1>1, <1>3 DEF TaskOK, SavingOK
  <2> QED  BY <1>4, <2>1, <2>2, <2>3, <2>4 DEF TaskOK
<1>11. ASSUME NEW x \in Workers \ {w}
       PROVE  TaskOK(task[x])'
  <2>1. TaskOK(task[x]) /\ task'[x] = task[x]
    BY <1>4 DEF IInv
  <2>2. ActivationOK(task[x])'
    BY <1>1, <2>1 DEF TaskOK, ActivationOK, FreshSince, Said
  <2>3. NotificationOK(task[x])'
    BY <1>1, <1>5, <2>1 DEF TaskOK, NotificationOK
  <2>4. SyncOK(task[x])'
    <3>1. PICK c : c = task[x].row
      OBVIOUS
    <3>2. Copy(c) => Copy(c)'
      BY <1>8
    <3> QED  BY <1>1, <1>9, <2>1, <3>1, <3>2 DEF TaskOK, SyncOK
  <2>5. SavingOK(task[x])'
    <3>1. PICK c : c = task[x].row
      OBVIOUS
    <3>2. Copy(c) => Copy(c)'
      BY <1>8
    <3>3. task[x].pc \in {"find", "link", "save"} => Observed(task[x].orig, task[x].obs)'
      BY <1>1, <2>1 DEF TaskOK, SavingOK, Observed, Said
    <3> QED  BY <1>1, <2>1, <3>1, <3>2, <3>3 DEF TaskOK, SavingOK
  <2> QED  BY <2>2, <2>3, <2>4, <2>5 DEF TaskOK
<1>12. AckedMeansHandled' /\ SettledMeansHandled'
  BY <1>1, <1>5 DEF IInv, AckedMeansHandled, SettledMeansHandled
<1> QED  BY <1>6, <1>7, <1>10, <1>11, <1>12 DEF IInv

LEMMA InsertKeepsIInv ==
  ASSUME IInv, NEW w \in Workers, Insert(w)
  PROVE  IInv'
<1>1. PICK s, a, r : /\ s = task[w]
                     /\ a = ApplyState(s.row, s.obs)
                     /\ r = [a EXCEPT !.pk = nextPk]
  OBVIOUS
<1>2. /\ s \in Tasks /\ s.row \in SubscriptionRows /\ s.obs \in Observations
      /\ s.pc = "save" /\ s.row.pk = 0 /\ rows[s.row.user].pk = 0
      /\ TaskOK(s)
      /\ nextPk \in Nat \ {0}
  BY <1>1, TaskFacts DEF Insert, Tasks, TypeOK
<1>3. /\ s.row.ext = s.orig /\ s.kind = "activate"
      /\ s.row = NewRow(s.user, s.orig) /\ Observed(s.orig, s.obs)
      /\ s.user \in Users /\ s.orig \in Origs /\ s.obs.tx > 0
  <2>1. ~ Copy(s.row)
    BY <1>2 DEF Copy
  <2> QED  BY <1>2, <2>1 DEF TaskOK, SavingOK, ActivationOK
<1>4. FromApple(s.orig, a)
  BY <1>1, <1>2, <1>3, ApplyStateFromApple
<1>5. a \in SubscriptionRows /\ a.user = s.user /\ a.ext = s.orig
  BY <1>1, <1>2, <1>3, ApplyStateType DEF NewRow
<1>6. /\ r \in SubscriptionRows /\ r.user = s.user /\ r.ext = s.orig /\ r.pk = nextPk
      /\ r.pk > 0
      /\ r.status = a.status /\ r.tx = a.tx /\ r.renewal = a.renewal
      /\ r.started = a.started /\ r.revoked = a.revoked
  BY <1>1, <1>2, <1>5 DEF SubscriptionRows
<1>7. FromApple(r.ext, r)
  BY <1>4, <1>6 DEF FromApple
<1>8. Commit(w, r, s.obs) /\ nextPk' \in Nat \ {0}
  BY <1>1, <1>2 DEF Insert
<1>9. r.user \in Users /\ ~ (rows[r.user].pk > 0)
  BY <1>2, <1>3, <1>6 DEF NewRow
<1>10. s = task[w] /\ s.pc = "save" /\ s \in Tasks /\ r \in SubscriptionRows /\ r.pk > 0
  BY <1>1, <1>2, <1>6
<1> QED  BY <1>7, <1>8, <1>9, <1>10, CommitKeepsIInv

LEMMA UpdateKeepsIInv ==
  ASSUME IInv, NEW w \in Workers, Update(w)
  PROVE  IInv'
<1>1. PICK s, r : s = task[w] /\ r = ApplyState(s.row, s.obs)
  OBVIOUS
<1>2. /\ s \in Tasks /\ s.row \in SubscriptionRows /\ s.obs \in Observations
      /\ s.pc = "save" /\ s.row.pk > 0
      /\ TaskOK(s)
      /\ nextPk \in Nat \ {0}
  BY <1>1, TaskFacts DEF Update, Tasks, TypeOK
<1>3. /\ Copy(s.row) /\ s.row.ext = s.orig /\ Observed(s.orig, s.obs)
  <2>1. s.row.pk # 0
    BY <1>2
  <2> QED  BY <1>2, <2>1 DEF TaskOK, SavingOK
<1>4. /\ s.orig \in Origs /\ FromApple(s.orig, s.row) /\ s.row.started > 0
  BY <1>3, TaskFacts, SaidFacts DEF Copy, FromApple
<1>5. FromApple(s.orig, r)
  BY <1>1, <1>2, <1>3, <1>4, ApplyStateFromApple
<1>6. /\ r \in SubscriptionRows /\ r.user = s.row.user /\ r.ext = s.orig
      /\ r.pk = s.row.pk /\ r.started = s.row.started
  BY <1>1, <1>2, <1>3, <1>4, ApplyStateType
<1>7. /\ r.user \in Users /\ rows[r.user].pk = r.pk
      /\ rows[r.user].ext = r.ext /\ rows[r.user].started = r.started
  BY <1>3, <1>6 DEF Copy
<1>8. Commit(w, r, s.obs) /\ nextPk' \in Nat \ {0}
  BY <1>1, <1>2 DEF Update
<1> QED  BY <1>1, <1>2, <1>5, <1>6, <1>7, <1>8, CommitKeepsIInv

LEMMA InsertConflictKeepsIInv ==
  ASSUME IInv, NEW w \in Workers, InsertConflict(w)
  PROVE  IInv'
BY DoneKeepsIInv, TaskFacts DEF InsertConflict, TypeOK

----------------------------------------------------------------------------
(* Signals, outcomes and failures *)

LEMMA SignalType == \A obs \in Observations : SignalFor(obs) \in Signals
BY DEF SignalFor, Observations, StoreStates, Signals

\* What a request, a sweep or a failed task goes on with is sound.
LEMMA NextTaskOK ==
  ASSUME IInv, NEW w \in Workers
  PROVE  /\ NextRow(task[w]) \in Tasks /\ TaskOK(NextRow(task[w]))
         /\ Abort(task[w]) \in Tasks /\ TaskOK(Abort(task[w]))
<1>1. PICK s : s = task[w] /\ s \in Tasks /\ TaskOK(s) /\ s.queue \subseteq Users
  BY TaskFacts DEF Tasks
<1>2. NextRow(s) \in Tasks
  <2>1. [Idle EXCEPT !.pc = "next", !.kind = "sync", !.queue = s.queue] \in Tasks
    BY <1>1, DefaultTypes DEF Tasks
  <2> QED  BY <2>1, DefaultTypes DEF NextRow
<1>3. TaskOK(NextRow(s))
  <2>1. CASE s.kind = "sync" /\ s.queue # {}
    BY <1>1, <2>1
       DEF NextRow, Idle, TaskOK, ActivationOK, NotificationOK, SyncOK, SavingOK
  <2>2. CASE ~ (s.kind = "sync" /\ s.queue # {})
    BY <2>2
       DEF NextRow, Idle, TaskOK, ActivationOK, NotificationOK, SyncOK, SavingOK
  <2> QED  BY <2>1, <2>2
<1>4. Abort(s) \in Tasks
  BY <1>1, DefaultTypes DEF Abort, Tasks
<1>5. TaskOK(Abort(s))
  <2>1. CASE s.kind = "notify"
    <3>1. PICK t : t = [s EXCEPT !.pc = "fail"] /\ t = Abort(s)
      BY <2>1 DEF Abort
    <3>2. /\ t.pc = "fail" /\ t.kind = "notify" /\ t.orig = s.orig /\ t.ver = s.ver
      BY <1>1, <2>1, <3>1 DEF Tasks
    <3> QED  BY <1>1, <2>1, <3>1, <3>2
                DEF TaskOK, ActivationOK, NotificationOK, SyncOK, SavingOK
  <2>2. CASE s.kind # "notify"
    BY <2>2 DEF Abort, Idle, TaskOK, ActivationOK, NotificationOK, SyncOK, SavingOK
  <2> QED  BY <2>1, <2>2
<1> QED  BY <1>1, <1>2, <1>3, <1>4, <1>5

LEMMA FetchFailsKeepsIInv ==
  ASSUME IInv, NEW w \in Workers, FetchFails(w)
  PROVE  IInv'
<1>1. PICK t : t = NextRow(task[w]) /\ t \in Tasks /\ TaskOK(t) /\ Advance(w, t)
  BY NextTaskOK DEF FetchFails
<1>2. UNCHANGED <<history, store, rows, log, acked, told, fired, handled>>
  BY DEF FetchFails, store, ghosts
<1>3. TaskOK(task[w])'
  BY <1>1, <1>2, TaskFacts, AdvanceType, SoundTaskStaysSound
<1> QED  BY <1>1, <1>2, <1>3, TaskStepKeepsIInv, TaskFacts DEF FetchFails, TypeOK

LEMMA RaiseKeepsIInv ==
  ASSUME IInv, NEW w \in Workers, Raise(w)
  PROVE  IInv'
<1>1. PICK t : t = Abort(task[w]) /\ t \in Tasks /\ TaskOK(t) /\ Advance(w, t)
  BY NextTaskOK DEF Raise
<1>2. UNCHANGED <<history, store, rows, log, acked, told, fired, handled>>
  BY DEF Raise, store, ghosts
<1>3. TaskOK(task[w])'
  BY <1>1, <1>2, TaskFacts, AdvanceType, SoundTaskStaysSound
<1> QED  BY <1>1, <1>2, <1>3, TaskStepKeepsIInv, TaskFacts DEF Raise, TypeOK

LEMMA CrashKeepsIInv ==
  ASSUME IInv, NEW w \in Workers, Crash(w)
  PROVE  IInv'
<1>1. faults' \in Nat /\ log' = log /\ log \in [Notes -> LogStatuses]
  BY TaskFacts DEF Crash, TypeOK
<1> QED  BY <1>1, DoneKeepsIInv DEF Crash

LEMMA SendType ==
  ASSUME IInv, NEW w \in Workers, Send(w)
  PROVE  /\ told' \in [Users -> Signals] /\ fired' \in [Notes -> Nat]
         /\ handled' = handled
<1>1. SignalFor(task[w].obs) \in Signals
  BY TaskFacts, SignalType DEF Tasks
<1>2. told \in [Users -> Signals] /\ fired \in [Notes -> Nat]
  BY DEF IInv, TypeOK
<1>3. told' \in [Users -> Signals]
  BY <1>1, <1>2 DEF Send
<1>4. fired' \in [Notes -> Nat]
  <2>1. \A n \in Notes : fired[n] + 1 \in Nat
    BY <1>2
  <2>2. PICK n : /\ n = task[w].ver
                 /\ \/ fired' = fired
                    \/ fired' = [fired EXCEPT ![n] = @ + 1]
    BY DEF Send
  <2> QED  BY <1>2, <2>1, <2>2
<1> QED  BY <1>3, <1>4 DEF Send

LEMMA FireSignalKeepsIInv ==
  ASSUME IInv, NEW w \in Workers, FireSignal(w)
  PROVE  IInv'
<1>1. /\ told' \in [Users -> Signals] /\ fired' \in [Notes -> Nat]
      /\ UNCHANGED <<history, store, rows, log, acked, handled, faults>>
  BY SendType DEF FireSignal, store
<1>2. PICK s, t : /\ s = task[w]
                  /\ t = IF s.kind = "notify" THEN [s EXCEPT !.pc = "settle"]
                         ELSE NextRow(task[w])
                  /\ Advance(w, t)
  BY DEF FireSignal
<1>3. t \in Tasks /\ TaskOK(t)
  <2>1. CASE s.kind = "notify"
    <3>1. s \in Tasks /\ TaskOK(s) /\ s.pc = "signal"
      BY <1>2, TaskFacts DEF FireSignal
    <3>2. /\ t \in Tasks
          /\ t.pc = "settle" /\ t.kind = "notify" /\ t.orig = s.orig /\ t.ver = s.ver
      BY <1>2, <2>1, <3>1 DEF Tasks
    <3> QED  BY <2>1, <3>1, <3>2
                DEF TaskOK, ActivationOK, NotificationOK, SyncOK, SavingOK
  <2>2. CASE s.kind # "notify"
    BY <1>2, <2>2, NextTaskOK
  <2> QED  BY <2>1, <2>2
<1>4. TaskOK(task[w])'
  BY <1>1, <1>2, <1>3, TaskFacts, AdvanceType, SoundTaskStaysSound
<1>5. AckedMeansHandled' /\ SettledMeansHandled'
  BY <1>1 DEF IInv, AckedMeansHandled, SettledMeansHandled
<1> QED  BY <1>1, <1>2, <1>3, <1>4, <1>5, StepKeepsIInv, TaskFacts DEF TypeOK

LEMMA ReceiverRaisesKeepsIInv ==
  ASSUME IInv, NEW w \in Workers, ReceiverRaises(w)
  PROVE  IInv'
<1>1. /\ told' \in [Users -> Signals] /\ fired' \in [Notes -> Nat]
      /\ UNCHANGED <<history, store, rows, log, acked, handled>>
      /\ faults' \in Nat
  BY SendType, TaskFacts DEF ReceiverRaises, store, TypeOK
<1>2. PICK t : t = Abort(task[w]) /\ t \in Tasks /\ TaskOK(t) /\ Advance(w, t)
  BY NextTaskOK DEF ReceiverRaises
<1>3. TaskOK(task[w])'
  BY <1>1, <1>2, TaskFacts, AdvanceType, SoundTaskStaysSound
<1>4. AckedMeansHandled' /\ SettledMeansHandled'
  BY <1>1 DEF IInv, AckedMeansHandled, SettledMeansHandled
<1> QED  BY <1>1, <1>2, <1>3, <1>4, StepKeepsIInv, TaskFacts DEF TypeOK

LEMMA SettleKeepsIInv ==
  ASSUME IInv, NEW w \in Workers, Settle(w)
  PROVE  IInv'
<1>1. PICK n : n = task[w].ver
  OBVIOUS
<1>2. task[w].kind = "notify" /\ task[w].pc = "settle"
  BY TaskFacts DEF Settle, TaskOK, ActivationOK, SyncOK, SavingOK, Tasks
<1>3. n \in Notes /\ n \in handled \cup Bare
  BY <1>1, <1>2, TaskFacts, NoteOfTask DEF TaskOK, NotificationOK
<1>4. UNCHANGED <<history, store, told, fired, handled, faults>>
  BY DEF Settle, ghosts
<1>5. /\ log' \in [Notes -> LogStatuses]
      /\ \A m \in Notes \ {n} : log'[m] = log[m]
  <2>1. log \in [Notes -> LogStatuses] /\ task[w].outcome \in LogStatuses
    BY TaskFacts DEF TypeOK, Tasks
  <2> QED  BY <1>1, <2>1 DEF Settle, SetLog
<1>6. acked' = acked \cup {n}
  BY <1>1 DEF Settle
<1>7. AckedMeansHandled' /\ SettledMeansHandled'
  BY <1>3, <1>4, <1>5, <1>6 DEF IInv, AckedMeansHandled, SettledMeansHandled
<1>8. Advance(w, Idle) /\ Idle \in Tasks /\ task'[w] = Idle
  BY DefaultTypes, TaskFacts, AdvanceType DEF Settle, Done
<1>9. TaskOK(task[w])'
  BY <1>8 DEF Idle, TaskOK, ActivationOK, NotificationOK, SyncOK, SavingOK
<1> QED  BY <1>3, <1>4, <1>5, <1>6, <1>7, <1>8, <1>9, StepKeepsIInv, TaskFacts
            DEF TypeOK

LEMMA LogFailureKeepsIInv ==
  ASSUME IInv, NEW w \in Workers, LogFailure(w)
  PROVE  IInv'
<1>1. /\ log' \in [Notes -> LogStatuses]
      /\ \A n \in Notes : log'[n] \in Settled => log[n] = log'[n]
  BY TaskFacts DEF LogFailure, SetLog, TypeOK, LogStatuses, Settled
<1> QED  BY <1>1, DoneKeepsIInv, TaskFacts DEF LogFailure, TypeOK

----------------------------------------------------------------------------
(* The App Store moves on *)

\* The history only grows.
LEMMA HistoryGrows ==
  ASSUME IInv, NEW o \in Origs, AppStoreChanges(o)
  PROVE  /\ history' \in Seq(Entries)
         /\ HistoryOK'
         /\ Len(history) \in Nat /\ Len(history') = Len(history) + 1
         /\ history'[Len(history) + 1] \in Entries
         /\ history' = Append(history, history'[Len(history) + 1])
         /\ \A i \in 1 .. Len(history) : history'[i] = history[i]
         /\ \A p : Said(p) \subseteq Said(p)'
<1> DEFINE n == Len(history) + 1
<1>1. /\ history \in Seq(Entries) /\ HistoryOK
      /\ Len(history) \in Nat /\ n \in Nat /\ n <= MaxVersion
  BY DEF IInv, TypeOK, AppStoreChanges
<1>2. PICK e : /\ e \in IF Latest(o) = {} THEN {Purchase(o, n)}
                        ELSE UNION {Following(history[v], n) : v \in Latest(o)}
               /\ history' = Append(history, e)
  BY DEF AppStoreChanges
<1>3. /\ e \in Entries
      /\ \A j \in {e.txid, e.first} :
           j = n \/ (j \in 1 .. Len(history) /\ history[j].orig = e.orig)
  <2>1. CASE Latest(o) = {}
    <3>1. e = Purchase(o, n)
      BY <1>2, <2>1
    <3>2. /\ e = [orig |-> o, state |-> "ACTIVE", txid |-> n, first |-> n,
                   revoked |-> FALSE, renewed |-> FALSE]
          /\ "ACTIVE" \in StoreStates /\ FALSE \in BOOLEAN
      BY <3>1 DEF Purchase, StoreStates
    <3>3. PICK m \in Nat : m = n
      BY <1>1
    <3> QED  BY <3>2, <3>3 DEF Entries
  <2>2. CASE Latest(o) # {}
    <3>1. PICK v \in Latest(o) : e \in Following(history[v], n)
      BY <1>2, <2>2
    <3>2. v \in 1 .. Len(history)
      BY <3>1 DEF Latest, Newest
    <3>3. PICK l : l = history[v] /\ l \in Entries
      BY <1>1, <3>2
    <3>4. \A j \in {l.txid, l.first} : j \in 1 .. Len(history) /\ history[j].orig = l.orig
      BY <1>1, <3>2, <3>3 DEF HistoryOK
    <3>5. /\ e \in [orig: {l.orig}, state: StoreStates, txid: {l.txid, n},
                     first: {l.first}, revoked: BOOLEAN, renewed: BOOLEAN]
      BY <3>1, <3>3 DEF Following
    <3>6. e \in Entries
      BY <1>1, <3>3, <3>5 DEF Entries
    <3>7. e.orig = l.orig /\ e.txid \in {l.txid, n} /\ e.first = l.first
      BY <3>5
    <3> QED  BY <3>4, <3>6, <3>7
  <2> QED  BY <2>1, <2>2
<1> HIDE DEF n
<1>4. /\ history' \in Seq(Entries) /\ Len(history') = n /\ history'[n] = e
      /\ \A i \in 1 .. Len(history) : history'[i] = history[i]
  BY <1>1, <1>2, <1>3 DEF n
<1>5. HistoryOK'
  <2>1. ASSUME NEW i \in 1 .. n, NEW j \in {history'[i].txid, history'[i].first}
        PROVE  j \in 1 .. i /\ history'[j].orig = history'[i].orig
    <3>1. CASE i = n
      BY <1>1, <1>3, <1>4, <2>1, <3>1 DEF n
    <3>2. CASE i # n
      <4>1. i \in 1 .. Len(history) /\ history'[i] = history[i]
        BY <1>1, <1>4, <3>2 DEF n
      <4>2. j \in 1 .. i /\ history[j].orig = history[i].orig
        BY <1>1, <2>1, <4>1 DEF HistoryOK
      <4>3. j \in 1 .. Len(history)
        BY <1>1, <4>1, <4>2
      <4> QED  BY <1>4, <4>1, <4>2, <4>3
    <3> QED  BY <3>1, <3>2
  <2> QED  BY <1>1, <1>4, <2>1 DEF HistoryOK
<1>6. \A p : Said(p) \subseteq Said(p)'
  BY <1>1, <1>4 DEF Said, n
<1> QED  BY <1>1, <1>2, <1>3, <1>4, <1>5, <1>6 DEF n

LEMMA AppStoreChangesKeepsIInv ==
  ASSUME IInv, NEW o \in Origs, AppStoreChanges(o)
  PROVE  IInv'
<1>1. /\ history' \in Seq(Entries) /\ HistoryOK'
      /\ Len(history) \in Nat /\ Len(history') = Len(history) + 1
      /\ \A i \in 1 .. Len(history) : history'[i] = history[i]
  BY HistoryGrows
<1>2. UNCHANGED <<rows, nextPk, ledger, log, acked, told, fired, handled, task, faults>>
  BY DEF AppStoreChanges, store, ghosts
<1>3. TypeOK'
  BY <1>1, <1>2 DEF IInv, TypeOK
<1>4. ASSUME NEW p
      PROVE  \A i \in Said(p) : i \in Said(p)' /\ history'[i] = history[i]
  BY <1>1, HistoryGrows DEF Said
<1>5. ASSUME NEW p, NEW r, FromApple(p, r)
      PROVE  FromApple(p, r)'
  BY <1>4, <1>5 DEF FromApple
<1>6. RowsOK'
  <2>1. ASSUME NEW u \in Users, rows'[u].pk > 0
        PROVE  rows'[u].user = u /\ FromApple(rows[u].ext, rows[u])'
    <3>1. PICK r : r = rows[u] /\ r = rows'[u]
      BY <1>2
    <3>2. r.user = u /\ FromApple(r.ext, r)
      BY <1>2, <2>1, <3>1 DEF IInv, RowsOK
    <3>3. FromApple(r.ext, r)'
      BY <1>5, <3>2
    <3> QED  BY <3>1, <3>2, <3>3 DEF FromApple, Said
  <2> QED  BY <2>1 DEF RowsOK
<1>7. ASSUME NEW x \in Workers
      PROVE  TaskOK(task[x])'
  <2>1. PICK t : t = task[x] /\ t = task'[x] /\ TaskOK(t)
    BY <1>2 DEF IInv
  <2>2. ActivationOK(t)'
    <3>1. CASE t.kind # "activate"
      BY <3>1 DEF ActivationOK
    <3>2. CASE t.kind = "activate"
      <4>1. /\ t.pc \in {"fetch", "link", "save", "signal"}
            /\ t.user \in Users /\ t.orig \in Origs
            /\ t.pc = "save" => t.row.user = t.user
            /\ t.ver \in Said(t.orig)
            /\ t.since \in 1 .. Len(history)
            /\ t.pc \in {"link", "save"} =>
                 t.obs.tx > 0 /\ FreshSince(t.orig, t.since, t.obs)
        BY <2>1, <3>2 DEF TaskOK, ActivationOK
      <4>2. t.ver \in Said(t.orig)' /\ t.since \in 1 .. Len(history')
        BY <1>1, <1>4, <4>1
      <4>3. ASSUME FreshSince(t.orig, t.since, t.obs)
            PROVE  FreshSince(t.orig, t.since, t.obs)'
        <5>1. PICK i \in Said(t.orig) :
                /\ t.obs.state = history[i].state
                /\ \A j \in i + 1 .. t.since : history[j].orig # history[i].orig
          BY <4>3 DEF FreshSince
        <5>2. i \in Said(t.orig)' /\ history'[i] = history[i] /\ i \in 1 .. Len(history)
          BY <1>4, <5>1 DEF Said
        <5>3. \A j \in i + 1 .. t.since : history'[j] = history[j]
          BY <1>1, <4>1, <5>2
        <5> QED  BY <5>1, <5>2, <5>3 DEF FreshSince
      <4> QED  BY <4>1, <4>2, <4>3 DEF ActivationOK
    <3> QED  BY <3>1, <3>2
  <2>3. NotificationOK(t)'
    <3>1. t.kind = "notify" => t.ver \in 1 .. Len(history')
      BY <1>1, <2>1 DEF TaskOK, NotificationOK
    <3> QED  BY <1>2, <2>1, <3>1 DEF TaskOK, NotificationOK
  <2>4. Copy(t.row) => Copy(t.row)'
    BY <1>2, <1>5 DEF Copy
  <2>5. SyncOK(t)'
    BY <1>2, <2>1, <2>4 DEF TaskOK, SyncOK
  <2>6. Observed(t.orig, t.obs) => Observed(t.orig, t.obs)'
    BY <1>4 DEF Observed
  <2>7. SavingOK(t)'
    BY <2>1, <2>4, <2>6 DEF TaskOK, SavingOK
  <2> QED  BY <2>1, <2>2, <2>3, <2>5, <2>7 DEF TaskOK
<1>8. AckedMeansHandled' /\ SettledMeansHandled'
  BY <1>2 DEF IInv, AckedMeansHandled, SettledMeansHandled
<1> QED  BY <1>1, <1>3, <1>6, <1>7, <1>8 DEF IInv

----------------------------------------------------------------------------
(* The invariant *)

LEMMA InitIInv ==
  ASSUME Init
  PROVE  IInv
<1>1. TypeOK
  <2>1. history \in Seq(Entries) /\ rows \in [Users -> SubscriptionRows]
    BY DefaultTypes DEF Init
  <2>2. ledger \in [Versions -> Nat]
    BY DEF Init
  <2>3. log \in [Notes -> LogStatuses] /\ told \in [Users -> Signals]
        /\ fired \in [Notes -> Nat]
    BY DEF Init, LogStatuses, Signals
  <2>4. task \in [Workers -> Tasks]
    BY DefaultTypes DEF Init
  <2> QED  BY <2>1, <2>2, <2>3, <2>4 DEF Init, TypeOK
<1>2. HistoryOK
  <2>1. Len(history) = 0
    BY DEF Init
  <2> QED  BY <2>1, BoundAssumption DEF HistoryOK
<1>3. RowsOK
  BY DEF Init, RowsOK, NoRow, NewRow
<1>4. \A w \in Workers : TaskOK(task[w])
  BY DEF Init, Idle, TaskOK, ActivationOK, NotificationOK, SyncOK, SavingOK
<1>5. AckedMeansHandled /\ SettledMeansHandled
  BY DEF Init, AckedMeansHandled, SettledMeansHandled, Settled
<1> QED  BY <1>1, <1>2, <1>3, <1>4, <1>5 DEF IInv

LEMMA StutterKeepsIInv ==
  ASSUME IInv, UNCHANGED vars
  PROVE  IInv'
<1>1. TypeOK' /\ HistoryOK'
  BY DEF IInv, TypeOK, HistoryOK, vars
<1>2. RowsOK'
  BY DEF IInv, RowsOK, FromApple, Said, vars
<1>3. ASSUME NEW w \in Workers
      PROVE  TaskOK(task[w])'
  <2>1. PICK t : t = task[w] /\ t = task'[w] /\ TaskOK(t)
    BY DEF IInv, vars
  <2>2. TaskOK(t)'
    BY <2>1 DEF vars, TaskOK, ActivationOK, NotificationOK, SyncOK, SavingOK,
                FreshSince, Observed, Copy, FromApple, Said
  <2> QED  BY <2>1, <2>2 DEF TaskOK
<1>4. AckedMeansHandled' /\ SettledMeansHandled'
  BY DEF IInv, AckedMeansHandled, SettledMeansHandled, vars
<1> QED  BY <1>1, <1>2, <1>3, <1>4 DEF IInv

LEMMA NextKeepsIInv ==
  ASSUME IInv, [Next]_vars
  PROVE  IInv'
<1>1. CASE \E o \in Origs : AppStoreChanges(o)
  BY <1>1, AppStoreChangesKeepsIInv
<1>2. CASE \E w \in Web : Arrive(w)
  <2>1. PICK w \in Workers : Arrive(w)
    BY <1>2 DEF Workers
  <2>2. PICK n \in Notes :
          \/ \E u \in Users : Activate(w, u, n)
          \/ DuplicateDelivery(w, n)
          \/ ReceiveNotification(w, n)
    BY <2>1 DEF Arrive
  <2>3. n \in Versions
    BY DEF Notes
  <2> QED  BY <2>2, <2>3, ActivateKeepsIInv, DuplicateKeepsIInv, ReceiveKeepsIInv
<1>3. CASE \E w \in Jobs : StartSweep(w)
  BY <1>3, StartSweepKeepsIInv DEF Workers
<1>4. ASSUME NEW w \in Workers, Continue(w)
      PROVE  IInv'
  BY <1>4, SyncNextKeepsIInv, FetchKeepsIInv, LinkKeepsIInv, FindKeepsIInv,
     InsertKeepsIInv, InsertConflictKeepsIInv, UpdateKeepsIInv,
     FireSignalKeepsIInv, SettleKeepsIInv, LogFailureKeepsIInv DEF Continue
<1>5. ASSUME NEW w \in Workers, Fail(w)
      PROVE  IInv'
  BY <1>5, FetchFailsKeepsIInv, RaiseKeepsIInv, ReceiverRaisesKeepsIInv,
     CrashKeepsIInv DEF Fail
<1>6. CASE UNCHANGED vars
  BY <1>6, StutterKeepsIInv
<1> QED  BY <1>1, <1>2, <1>3, <1>4, <1>5, <1>6 DEF Next

\* IInv is an inductive invariant of the specification.
THEOREM Invariance == Spec => []IInv
<1>1. Init => IInv
  BY InitIInv
<1>2. IInv /\ [Next]_vars => IInv'
  BY NextKeepsIInv
<1> QED  BY <1>1, <1>2, PTL DEF Spec

----------------------------------------------------------------------------
(* Safety *)

\* Every variable keeps its type: no request leaves a row, a log entry or a
\* copy in memory in a state the models do not have.
THEOREM TypeCorrect == Spec => []TypeOK
<1>1. IInv => TypeOK
  BY DEF IInv
<1> QED  BY <1>1, Invariance, PTL

\* A saved row only ever repeats what the App Store said of the group of its
\* subscription, with any number of accounts, groups, deliveries and sweeps at
\* once, and whatever _select_snapshot falls back on.
THEOREM RowsRepeatApple == Spec => []RowsFromApple
<1>1. IInv => RowsFromApple
  BY DEF IInv, RowsOK, RowsFromApple
<1> QED  BY <1>1, Invariance, PTL

\* No activation is about to save a state older than its own request.
THEOREM ActivationIsFresh == Spec => []FreshActivation
<1>1. IInv => FreshActivation
  BY DEF IInv, TaskOK, ActivationOK, FreshSince, FreshActivation
<1> QED  BY <1>1, Invariance, PTL

\* No notification is answered 200 and dropped, whatever raises or dies.
THEOREM NoNotificationDropped == Spec => []AckedMeansHandled
<1>1. IInv => AckedMeansHandled
  BY DEF IInv
<1> QED  BY <1>1, Invariance, PTL

----------------------------------------------------------------------------
(* What a step may never do *)

\* Row r is saved by worker w: an insert for an activating user without a
\* row, or an update with a copy's key, subscription and start.
Saves(w, r) ==
  /\ r.user \in Users /\ r.pk > 0
  /\ rows' = [rows EXCEPT ![r.user] = r]
  /\ UNCHANGED history
  /\ \A x \in Workers \ {w} : task'[x] = task[x]
  /\ task[w].kind = "activate" => r.user = task[w].user
  /\ rows[r.user].pk > 0 =>
       /\ rows[r.user].pk = r.pk
       /\ rows[r.user].ext = r.ext
       /\ rows[r.user].started = r.started

LEMMA InsertSaves ==
  ASSUME IInv, NEW w \in Workers, Insert(w)
  PROVE  \E r : Saves(w, r)
<1>1. PICK s, a, r : /\ s = task[w]
                     /\ a = ApplyState(s.row, s.obs)
                     /\ r = [a EXCEPT !.pk = nextPk]
  OBVIOUS
<1>2. /\ s \in Tasks /\ s.row \in SubscriptionRows /\ s.obs \in Observations
      /\ s.pc = "save" /\ s.row.pk = 0 /\ rows[s.row.user].pk = 0
      /\ TaskOK(s) /\ nextPk \in Nat \ {0}
  BY <1>1, TaskFacts DEF Insert, Tasks, TypeOK
<1>3. s.kind = "activate" /\ s.user \in Users /\ s.row = NewRow(s.user, s.orig)
  <2>1. ~ Copy(s.row)
    BY <1>2 DEF Copy
  <2> QED  BY <1>2, <2>1 DEF TaskOK, SavingOK, ActivationOK
<1>4. a \in SubscriptionRows /\ a.user = s.user
  BY <1>1, <1>2, <1>3, ApplyStateType DEF NewRow
<1>5. r.user = s.user /\ r.pk = nextPk /\ r.pk > 0
  BY <1>1, <1>2, <1>4 DEF SubscriptionRows
<1>6. ~ (rows[r.user].pk > 0)
  BY <1>2, <1>3, <1>5 DEF NewRow
<1>7. /\ rows' = [rows EXCEPT ![r.user] = r]
      /\ UNCHANGED history
      /\ \A x \in Workers \ {w} : task'[x] = task[x]
  BY <1>1, TaskFacts DEF Insert, Commit, Advance, TypeOK
<1> QED  BY <1>1, <1>3, <1>5, <1>6, <1>7 DEF Saves

LEMMA UpdateSaves ==
  ASSUME IInv, NEW w \in Workers, Update(w)
  PROVE  \E r : Saves(w, r)
<1>1. PICK s, r : s = task[w] /\ r = ApplyState(s.row, s.obs)
  OBVIOUS
<1>2. /\ s \in Tasks /\ s.row \in SubscriptionRows /\ s.obs \in Observations
      /\ s.pc = "save" /\ s.row.pk > 0 /\ TaskOK(s)
  BY <1>1, TaskFacts DEF Update, Tasks
<1>3. Copy(s.row)
  <2>1. s.row.pk # 0
    BY <1>2
  <2> QED  BY <1>2, <2>1 DEF TaskOK, SavingOK
<1>4. s.row.started > 0
  BY <1>3, TaskFacts, SaidFacts DEF Copy, FromApple
<1>5. /\ r.user = s.row.user /\ r.ext = s.row.ext
      /\ r.pk = s.row.pk /\ r.started = s.row.started
  BY <1>1, <1>2, <1>4, ApplyStateType
<1>6. /\ r.user \in Users /\ r.pk > 0 /\ rows[r.user].pk = r.pk
      /\ rows[r.user].ext = r.ext /\ rows[r.user].started = r.started
  BY <1>3, <1>5 DEF Copy
<1>7. s.kind = "activate" => r.user = s.user
  BY <1>2, <1>5 DEF TaskOK, ActivationOK
<1>8. /\ rows' = [rows EXCEPT ![r.user] = r]
      /\ UNCHANGED history
      /\ \A x \in Workers \ {w} : task'[x] = task[x]
  BY <1>1, TaskFacts DEF Update, Commit, Advance, TypeOK
<1> QED  BY <1>1, <1>6, <1>7, <1>8 DEF Saves

\* The table changes in no other way.
LEMMA OnlySavesChangeRows ==
  ASSUME IInv, [Next]_vars
  PROVE  UNCHANGED rows \/ \E w \in Workers : \E r : Saves(w, r)
<1>1. CASE \E o \in Origs : AppStoreChanges(o)
  BY <1>1 DEF AppStoreChanges, store
<1>2. CASE \E w \in Web : Arrive(w)
  BY <1>2 DEF Arrive, Activate, DuplicateDelivery, ReceiveNotification, store
<1>3. CASE \E w \in Jobs : StartSweep(w)
  BY <1>3 DEF StartSweep, store
<1>4. ASSUME NEW w \in Workers, Continue(w)
      PROVE  UNCHANGED rows \/ \E r : Saves(w, r)
  <2>1. CASE Insert(w) \/ Update(w)
    BY <2>1, InsertSaves, UpdateSaves
  <2>2. CASE SyncNext(w) \/ Fetch(w) \/ Link(w) \/ FindForNotification(w)
             \/ InsertConflict(w)
    BY <2>2 DEF SyncNext, Fetch, Link, FindForNotification, InsertConflict, store
  <2>3. CASE FireSignal(w) \/ Settle(w) \/ LogFailure(w)
    BY <2>3 DEF FireSignal, Settle, LogFailure, store
  <2> QED  BY <1>4, <2>1, <2>2, <2>3 DEF Continue
<1>5. ASSUME NEW w \in Workers, Fail(w)
      PROVE  UNCHANGED rows
  BY <1>5 DEF Fail, FetchFails, Raise, ReceiverRaises, Crash, store
<1>6. CASE UNCHANGED vars
  BY <1>6 DEF vars
<1> QED  BY <1>1, <1>2, <1>3, <1>4, <1>5, <1>6 DEF Next

\* With stale copies saved whole by any number of workers, no row is ever
\* linked to another subscription or given another key.
THEOREM LinksStay == Spec => LinkNeverMoves
<1>1. ASSUME IInv, [Next]_vars, NEW u \in Users, rows[u].pk > 0
      PROVE  rows'[u].pk = rows[u].pk /\ rows'[u].ext = rows[u].ext
  <2>1. CASE UNCHANGED rows
    BY <2>1
  <2>2. ASSUME NEW w \in Workers, NEW r, Saves(w, r)
        PROVE  rows'[u].pk = rows[u].pk /\ rows'[u].ext = rows[u].ext
    BY <1>1, <2>2 DEF Saves, IInv, TypeOK
  <2> QED  BY <1>1, <2>1, <2>2, OnlySavesChangeRows
<1>2. IInv /\ [Next]_vars =>
        [\A u \in Users : rows[u].pk > 0 =>
           rows'[u].pk = rows[u].pk /\ rows'[u].ext = rows[u].ext]_vars
  BY <1>1
<1> QED  BY <1>2, Invariance, PTL DEF Spec, LinkNeverMoves

\* An activation writes the row of its own user or none at all, also when the
\* subscription belongs to somebody else.
THEOREM ActivationsKeepToTheirUser == Spec => OwnRowOnly
<1>1. ASSUME IInv, [Next]_vars, NEW w \in Workers,
             task[w].kind = "activate", task'[w] # task[w],
             NEW u \in Users \ {task[w].user}
      PROVE  rows'[u] = rows[u]
  <2>1. CASE UNCHANGED rows
    BY <2>1
  <2>2. ASSUME NEW x \in Workers, NEW r, Saves(x, r)
        PROVE  rows'[u] = rows[u]
    <3>1. x = w
      BY <1>1, <2>2 DEF Saves
    <3> QED  BY <1>1, <2>2, <3>1 DEF Saves, IInv, TypeOK
  <2> QED  BY <1>1, <2>1, <2>2, OnlySavesChangeRows
<1>2. IInv /\ [Next]_vars =>
        [\A w \in Workers :
           task[w].kind = "activate" /\ task'[w] # task[w] =>
             \A u \in Users \ {task[w].user} : rows'[u] = rows[u]]_vars
  BY <1>1
<1> QED  BY <1>2, Invariance, PTL DEF Spec, OwnRowOnly

\* A user without a subscription has no start of one.
BlankUntilSaved == \A u \in Users : rows[u].pk > 0 \/ rows[u].started = 0

LEMMA AbsentRowsAreBlank == Spec => []BlankUntilSaved
<1>1. Init => BlankUntilSaved
  BY DEF Init, BlankUntilSaved, NoRow, NewRow
<1>2. IInv /\ BlankUntilSaved /\ [Next]_vars => BlankUntilSaved'
  <2> SUFFICES ASSUME IInv, BlankUntilSaved, [Next]_vars
               PROVE  BlankUntilSaved'
    OBVIOUS
  <2>1. CASE UNCHANGED rows
    BY <2>1 DEF BlankUntilSaved
  <2>2. ASSUME NEW w \in Workers, NEW r, Saves(w, r)
        PROVE  BlankUntilSaved'
    BY <2>2 DEF Saves, BlankUntilSaved, IInv, TypeOK
  <2> QED  BY <2>1, <2>2, OnlySavesChangeRows
<1> QED  BY <1>1, <1>2, Invariance, PTL DEF Spec

\* started_at, once set, survives every later renewal, retry and stale copy.
THEOREM StartNeverMoves == Spec => StartedOnce
<1>1. ASSUME IInv, BlankUntilSaved, [Next]_vars, NEW u \in Users, rows[u].started > 0
      PROVE  rows'[u].started = rows[u].started
  <2>1. CASE UNCHANGED rows
    BY <2>1
  <2>2. ASSUME NEW w \in Workers, NEW r, Saves(w, r)
        PROVE  rows'[u].started = rows[u].started
    <3>1. rows[u].pk > 0
      BY <1>1 DEF BlankUntilSaved
    <3> QED  BY <1>1, <2>2, <3>1 DEF Saves, IInv, TypeOK
  <2> QED  BY <1>1, <2>1, <2>2, OnlySavesChangeRows
<1>2. IInv /\ BlankUntilSaved /\ [Next]_vars =>
        [\A u \in Users :
           rows[u].started > 0 => rows'[u].started = rows[u].started]_vars
  BY <1>1
<1> QED  BY <1>2, Invariance, AbsentRowsAreBlank, PTL DEF Spec, StartedOnce

----------------------------------------------------------------------------
(* AppleSync implements Subscriptions *)

\* Only the App Store changes what it says of the subscriptions.
LEMMA OnlyAppStoreChangesHistory ==
  ASSUME [Next]_vars
  PROVE  UNCHANGED history \/ \E o \in Origs : AppStoreChanges(o)
<1>1. CASE \E w \in Web : Arrive(w)
  BY <1>1 DEF Arrive, Activate, DuplicateDelivery, ReceiveNotification
<1>2. CASE \E w \in Jobs : StartSweep(w)
  BY <1>2 DEF StartSweep
<1>3. ASSUME NEW w \in Workers, Continue(w)
      PROVE  UNCHANGED history
  BY <1>3 DEF Continue, SyncNext, Fetch, Link, FindForNotification, Insert, Update,
              InsertConflict, Commit, FireSignal, Settle, LogFailure
<1>4. ASSUME NEW w \in Workers, Fail(w)
      PROVE  UNCHANGED history
  BY <1>4 DEF Fail, FetchFails, Raise, ReceiverRaises, Crash
<1>5. CASE UNCHANGED vars
  BY <1>5 DEF vars
<1> QED  BY <1>1, <1>2, <1>3, <1>4, <1>5 DEF Next

Shown == [u \in Users |-> View(rows[u])]

LEMMA ReportIsReport ==
  ASSUME IInv, IInv', NEW o \in Origs, AppStoreChanges(o)
  PROVE  Promise!Next
<1>1. /\ Len(history') = Len(history) + 1
      /\ history'[Len(history) + 1] \in Entries
      /\ history' = Append(history, history'[Len(history) + 1])
  BY HistoryGrows
<1>2. UNCHANGED Shown
  BY DEF AppStoreChanges, store, Shown, View
<1> QED  BY <1>1, <1>2 DEF Promise!Next, Promise!Report, Shown

LEMMA SaveShowsReported ==
  ASSUME IInv, IInv', NEW w \in Workers, NEW r, Saves(w, r)
  PROVE  Promise!Next
<1> DEFINE u == r.user
<1>1. u \in Users /\ r.pk > 0 /\ rows' = [rows EXCEPT ![u] = r] /\ UNCHANGED history
  BY DEF Saves
<1>2. rows \in [Users -> SubscriptionRows] /\ rows'[u] = r /\ r \in SubscriptionRows
  BY <1>1 DEF IInv, TypeOK
<1>3. FromApple(r.ext, r)
  BY <1>1, <1>2 DEF IInv, RowsOK, FromApple, Said
<1>4. View(r) = [sub |-> r.ext, start |-> r.started, status |-> r.status]
  BY <1>1, <1>2 DEF View, SubscriptionRows
<1>5. r.ext \in Origs /\ View(r) \in Promise!Views(r.ext)
  <2>1. r.ext \in Origs /\ Promise!On(r.ext) = Said(r.ext)
    BY <1>3 DEF FromApple, Promise!On, Said
  <2> QED  BY <1>3, <1>4, <2>1 DEF FromApple, Promise!Views
<1>6. Shown' = [Shown EXCEPT ![u] = View(r)]
  BY <1>1, <1>2 DEF Shown, View
<1>7. CASE rows[u].pk = 0
  <2>1. Shown[u] = NoView
    BY <1>1, <1>7 DEF Shown, View
  <2>2. Promise!Subscribe(u)
    BY <1>1, <1>5, <1>6, <2>1 DEF Promise!Subscribe, Shown
  <2> QED  BY <1>1, <2>2 DEF Promise!Next
<1>8. CASE rows[u].pk # 0
  <2>1. rows[u].pk > 0 /\ rows[u].ext = r.ext /\ rows[u].started = r.started
    BY <1>1, <1>2, <1>8 DEF Saves, SubscriptionRows
  <2>2. Shown[u] = [sub |-> r.ext, start |-> r.started, status |-> rows[u].status]
    BY <1>1, <1>8, <2>1 DEF Shown, View
  <2>3. Shown[u] # NoView
    BY <1>5, <2>2, NoOrigAssumption DEF NoView
  <2>4. View(r) \in Promise!Views(Shown[u].sub) /\ View(r).start = Shown[u].start
    BY <1>4, <1>5, <2>2
  <2>5. Promise!Refresh(u)
    BY <1>1, <1>6, <2>3, <2>4 DEF Promise!Refresh, Shown
  <2> QED  BY <1>1, <2>5 DEF Promise!Next
<1> QED  BY <1>7, <1>8

\* Whatever interleaves, fails or is delivered twice, a project sees only what
\* the abstract specification allows: one subscription and one start per
\* account for ever, and no status the App Store has not reported.
THEOREM Implementation == Spec => KeepsPromise
<1>1. Init => Promise!Init
  BY DEF Init, Promise!Init, NoRow, NewRow, View
<1>2. IInv /\ IInv' /\ [Next]_vars => [Promise!Next]_<<history, Shown>>
  <2> SUFFICES ASSUME IInv, IInv', [Next]_vars
               PROVE  Promise!Next \/ UNCHANGED <<history, Shown>>
    OBVIOUS
  <2>1. CASE \E o \in Origs : AppStoreChanges(o)
    BY <2>1, ReportIsReport
  <2>2. CASE \E w \in Workers : \E r : Saves(w, r)
    BY <2>2, SaveShowsReported
  <2>3. CASE UNCHANGED <<history, rows>>
    BY <2>3 DEF Shown, View
  <2> QED  BY <2>1, <2>2, <2>3, OnlySavesChangeRows, OnlyAppStoreChangesHistory
<1>3. IInv /\ IInv' /\ [Next]_vars
        => [Promise!Next]_<<history, [u \in Users |-> View(rows[u])]>>
  BY <1>2 DEF Shown
<1> QED  BY <1>1, <1>3, Invariance, PTL DEF Spec, KeepsPromise, Promise!Spec
============================================================================
