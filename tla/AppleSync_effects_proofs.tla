---------------------- MODULE AppleSync_effects_proofs ----------------------
(***************************************************************************)
(* Proofs about what a save of AppleSync brings with it: its row in the    *)
(* ledger, its signals and the end of its notification.                    *)
(***************************************************************************)
EXTENDS AppleSync_proofs, FiniteSetTheorems

----------------------------------------------------------------------------
(* What a step does to the rows and their copies *)

\* Nobody but w does anything.
Alone(w) == \A x \in Workers \ {w} : task'[x] = task[x]

\* Worker w goes on with a row it has read, or a new one, and with an
\* observation it has just made, or has had.
Looks(w) ==
  LET s == task[w]
      t == task'[w]
  IN /\ UNCHANGED <<history, store>>
     /\ t.pc \in {"fetch", "find", "link", "save"}
     /\ \/ t.row.pk = 0
        \/ s.pc = "fetch" /\ t.row = s.row
        \/ \E u \in Users : rows[u].pk > 0 /\ t.row = rows[u]
     /\ \/ t.pc = "fetch"
        \/ s.pc \in {"find", "link"} /\ t.obs = s.obs /\ t.orig = s.orig
        \/ \E v, tv, rv : t.obs = Observe(v, tv, rv)

\* Worker w has no copy and no observation to save any more.
Rests(w) ==
  /\ UNCHANGED <<history, store>>
  /\ task'[w].pc \notin {"fetch", "find", "link", "save"}

\* Worker w commits its copy with its observation.
Commits(w) ==
  LET s == task[w]
      r == task'[w].row
  IN /\ UNCHANGED history
     /\ s.pc = "save" /\ task'[w].pc = "signal"
     /\ r.user \in Users
     /\ r.tx = IF s.obs.tx > 0 THEN s.obs.tx ELSE s.row.tx
     /\ rows' = [rows EXCEPT ![r.user] = r]
     /\ s.row.pk > 0 \/ s.obs.tx > 0
     /\ ledger' = IF HasLedger /\ s.obs.tx > 0
                  THEN [ledger EXCEPT ![s.obs.txid] = s.obs.tx] ELSE ledger

\* A task with a step of w left to take changes into t.
LEMMA AdvanceAlone ==
  ASSUME IInv, NEW w \in Workers, NEW t \in Tasks, Advance(w, t)
  PROVE  task'[w] = t /\ Alone(w)
BY TaskFacts, AdvanceType DEF Alone

\* Each place of the code is of one kind of request.
LEMMA KindOfPlace ==
  ASSUME IInv, NEW w \in Workers
  PROVE  /\ task[w].pc = "idle" => task[w].kind = "none"
         /\ task[w].pc = "next" => task[w].kind = "sync"
         /\ task[w].pc = "link" => task[w].kind = "activate"
         /\ task[w].pc = "fetch" => task[w].kind \in {"activate", "sync"}
         /\ task[w].pc \in {"find", "settle", "fail"} => task[w].kind = "notify"
         /\ task[w].pc \in {"save", "signal"} => task[w].kind # "none"
BY TaskFacts DEF TaskOK, ActivationOK, NotificationOK, SyncOK, SavingOK, Tasks

\* The transaction an observation carries is one the App Store has told of.
LEMMA SoundObservation ==
  ASSUME IInv, NEW w \in Workers, task[w].pc \in {"find", "link", "save"}
  PROVE  /\ task[w].obs \in Observations
         /\ task[w].obs.tx > 0 => task[w].obs.tx \in 1 .. Len(history)
<1>1. PICK s : s = task[w] /\ s \in Tasks /\ TaskOK(s)
  BY TaskFacts
<1>2. Observed(s.orig, s.obs) /\ s.obs \in Observations
  BY <1>1 DEF TaskOK, SavingOK, Tasks
<1>3. s.obs.tx > 0 => s.obs.tx \in 1 .. Len(history)
  BY <1>2 DEF Observed, Said
<1> QED  BY <1>1, <1>2, <1>3

LEMMA ActivateLooks ==
  ASSUME IInv, NEW w \in Workers, NEW u \in Users, NEW v \in Versions,
         Activate(w, u, v)
  PROVE  Looks(w) /\ Alone(w)
<1>1. PICK o, n, t :
        /\ o = history[v].orig /\ n = Len(history)
        /\ t = [Idle EXCEPT !.pc = "fetch", !.kind = "activate", !.user = u,
                            !.orig = o, !.ver = v, !.since = n]
        /\ Advance(w, t)
  BY DEF Activate
<1>2. n \in Nat /\ v \in Nat /\ o \in Origs
  BY <1>1, TaskFacts, EntrySaid DEF Activate
<1>3. t \in Tasks /\ t.pc = "fetch" /\ t.row = NoRow
  BY <1>1, <1>2, DefaultTypes DEF Tasks, Idle
<1>4. task'[w] = t /\ Alone(w)
  BY <1>1, <1>3, AdvanceAlone
<1> QED  BY <1>3, <1>4 DEF Looks, Activate, NoRow, NewRow

LEMMA ReceiveLooksOrRests ==
  ASSUME IInv, NEW w \in Workers, NEW n \in Notes, ReceiveNotification(w, n)
  PROVE  (Looks(w) \/ Rests(w)) /\ Alone(w)
<1>1. PICK o, place, obs, t :
        /\ o = history[n].orig
        /\ place = IF n \in Bare THEN "settle" ELSE "find"
        /\ obs = IF n \in Bare THEN NoObservation ELSE Observe(n, n, n)
        /\ t = [Idle EXCEPT !.pc = place, !.kind = "notify", !.orig = o, !.ver = n,
                            !.obs = obs, !.outcome = "IGNORED"]
        /\ Advance(w, t)
  BY DEF ReceiveNotification
<1>2. n \in Nat /\ o \in Origs /\ n \in Said(o)
  BY <1>1, TaskFacts, EntrySaid DEF ReceiveNotification
<1>3. Observe(n, n, n) \in Observations
  BY <1>2, TaskFacts, ObserveType
<1>4. /\ obs \in Observations /\ place \in {"settle", "find"}
      /\ place = "find" => obs = Observe(n, n, n)
  BY <1>1, <1>3, DefaultTypes
<1>5. /\ t \in Tasks /\ t.pc = place /\ t.row = NoRow /\ t.obs = obs
  BY <1>1, <1>2, <1>4, DefaultTypes DEF Tasks, Idle, LogStatuses
<1>6. task'[w] = t /\ Alone(w)
  BY <1>1, <1>5, AdvanceAlone
<1>7. UNCHANGED <<history, store>>
  BY DEF ReceiveNotification
<1>8. CASE place = "find"
  BY <1>4, <1>5, <1>6, <1>7, <1>8 DEF Looks, NoRow, NewRow
<1>9. CASE place = "settle"
  BY <1>5, <1>6, <1>7, <1>9 DEF Rests
<1> QED  BY <1>4, <1>6, <1>8, <1>9

LEMMA StartSweepRests ==
  ASSUME IInv, NEW w \in Workers, StartSweep(w)
  PROVE  Rests(w) /\ Alone(w)
<1>1. PICK q \in SUBSET Users :
        Advance(w, [Idle EXCEPT !.pc = "next", !.kind = "sync", !.queue = q])
  BY DEF StartSweep
<1> DEFINE t == [Idle EXCEPT !.pc = "next", !.kind = "sync", !.queue = q]
<1>2. t \in Tasks /\ t.pc = "next"
  BY DefaultTypes DEF Tasks, Idle
<1>3. task'[w] = t /\ Alone(w)
  BY <1>1, <1>2, AdvanceAlone
<1> QED  BY <1>2, <1>3 DEF Rests, StartSweep

LEMMA SyncNextLooks ==
  ASSUME IInv, NEW w \in Workers, SyncNext(w)
  PROVE  Looks(w) /\ Alone(w)
<1>1. PICK u, o, r, t :
        /\ u \in task[w].queue
        /\ o = rows[u].ext
        /\ r = rows[FirstLinked(o)]
        /\ t = [task[w] EXCEPT !.pc = "fetch", !.orig = o, !.row = r,
                               !.queue = @ \ {u}]
        /\ Advance(w, t)
  BY DEF SyncNext
<1>2. task[w].pc = "next" /\ task[w].kind = "sync"
  BY KindOfPlace DEF SyncNext
<1>3. u \in Users /\ rows[u].pk > 0
  BY <1>1, <1>2, TaskFacts DEF TaskOK, SyncOK
<1>4. o \in Origs /\ u \in Linked(o)
  BY <1>1, <1>3 DEF IInv, RowsOK, FromApple, Linked
<1>5. /\ r \in SubscriptionRows
      /\ FirstLinked(o) \in Users /\ rows[FirstLinked(o)].pk > 0
  BY <1>1, <1>4, ReadRowIsCopy, TaskFacts, FirstLinkedIsLinked DEF Linked
<1>6. t \in Tasks /\ t.pc = "fetch" /\ t.row = r
  BY <1>1, <1>4, <1>5, TaskFacts DEF Tasks
<1>7. task'[w] = t /\ Alone(w)
  BY <1>1, <1>6, AdvanceAlone
<1> QED  BY <1>1, <1>2, <1>5, <1>6, <1>7 DEF Looks, SyncNext

LEMMA FetchLooks ==
  ASSUME IInv, NEW w \in Workers, Fetch(w)
  PROVE  Looks(w) /\ Alone(w)
<1>1. PICK s : s = task[w]
  OBVIOUS
<1>2. PICK v \in Said(s.orig), tv \in Said(s.orig) \cup {0},
           rv \in Said(s.orig) \cup {0} :
        Advance(w, [s EXCEPT !.pc  = IF s.kind = "activate" THEN "link" ELSE "save",
                             !.obs = Observe(v, tv, rv)])
  BY <1>1, FetchObserves
<1>3. PICK obs, place, t :
        /\ s = task[w]
        /\ obs = Observe(v, tv, rv)
        /\ place = IF s.kind = "activate" THEN "link" ELSE "save"
        /\ t = [s EXCEPT !.pc = place, !.obs = obs]
        /\ Advance(w, t)
  BY <1>1, <1>2
<1>4. s.pc = "fetch" /\ s \in Tasks /\ UNCHANGED <<history, store>>
  BY <1>3, TaskFacts DEF Fetch
<1>5. obs \in Observations /\ place \in {"link", "save"}
  BY <1>2, <1>3, TaskFacts, ObserveType
<1>6. t \in Tasks /\ t.pc = place /\ t.row = s.row /\ t.obs = obs
  BY <1>3, <1>4, <1>5 DEF Tasks
<1>7. task'[w] = t /\ Alone(w)
  BY <1>3, <1>6, AdvanceAlone
<1> QED  BY <1>3, <1>4, <1>5, <1>6, <1>7 DEF Looks

LEMMA LinkLooksOrRests ==
  ASSUME IInv, NEW w \in Workers, Link(w)
  PROVE  (Looks(w) \/ Rests(w)) /\ Alone(w)
<1>1. PICK s, o, r, t :
        /\ s = task[w]
        /\ o = s.orig
        /\ r = IF Linked(o) = {} THEN NewRow(s.user, o) ELSE rows[FirstLinked(o)]
        /\ t = IF Linked(o) = {} \/ FirstLinked(o) = s.user
               THEN [s EXCEPT !.pc = "save", !.row = r] ELSE Idle
        /\ Advance(w, t)
  BY DEF Link
<1>2. /\ s.pc = "link" /\ s.kind = "activate" /\ s \in Tasks
      /\ s.user \in Users /\ o \in Origs
      /\ UNCHANGED <<history, store>>
  BY <1>1, KindOfPlace, TaskFacts DEF Link, TaskOK, ActivationOK
<1>3. CASE Linked(o) = {} \/ FirstLinked(o) = s.user
  <2>1. /\ r \in SubscriptionRows
        /\ r.pk = 0 \/ \E u \in Users : rows[u].pk > 0 /\ r = rows[u]
    <3>1. CASE Linked(o) = {}
      BY <1>1, <1>2, <3>1, NewRowType DEF NewRow
    <3>2. CASE Linked(o) # {}
      <4>1. FirstLinked(o) \in Users /\ rows[FirstLinked(o)].pk > 0
        BY <3>2, TaskFacts, FirstLinkedIsLinked DEF Linked
      <4> QED  BY <1>1, <1>2, <3>2, <4>1, ReadRowIsCopy
    <3> QED  BY <3>1, <3>2
  <2>2. t = [s EXCEPT !.pc = "save", !.row = r]
    BY <1>1, <1>3
  <2>3. /\ t \in Tasks /\ t.pc = "save" /\ t.row = r /\ t.orig = s.orig
        /\ t.obs = s.obs
    BY <1>2, <2>1, <2>2 DEF Tasks
  <2>4. task'[w] = t /\ Alone(w)
    BY <1>1, <2>3, AdvanceAlone
  <2> QED  BY <1>1, <1>2, <2>1, <2>3, <2>4 DEF Looks
<1>4. CASE ~ (Linked(o) = {} \/ FirstLinked(o) = s.user)
  <2>1. t = Idle /\ Idle \in Tasks /\ Idle.pc = "idle"
    BY <1>1, <1>4, DefaultTypes DEF Idle
  <2>2. task'[w] = Idle /\ Alone(w)
    BY <1>1, <2>1, AdvanceAlone
  <2> QED  BY <1>1, <1>2, <2>1, <2>2 DEF Rests
<1> QED  BY <1>3, <1>4

LEMMA FindLooksOrRests ==
  ASSUME IInv, NEW w \in Workers, FindForNotification(w)
  PROVE  (Looks(w) \/ Rests(w)) /\ Alone(w)
<1>1. PICK s, o, r, t :
        /\ s = task[w]
        /\ o = s.orig
        /\ r = rows[FirstLinked(o)]
        /\ t = IF Linked(o) = {}
               THEN [s EXCEPT !.pc = "settle", !.outcome = "IGNORED"]
               ELSE [s EXCEPT !.pc = "save", !.row = r, !.outcome = "PROCESSED"]
        /\ Advance(w, t)
  BY DEF FindForNotification
<1>2. /\ s.pc = "find" /\ s.kind = "notify" /\ s \in Tasks /\ o \in Origs
      /\ UNCHANGED <<history, store>>
  BY <1>1, KindOfPlace, TaskFacts
     DEF FindForNotification, TaskOK, NotificationOK, store
<1>3. CASE Linked(o) = {}
  <2>1. t = [s EXCEPT !.pc = "settle", !.outcome = "IGNORED"]
    BY <1>1, <1>3
  <2>2. t \in Tasks /\ t.pc = "settle"
    BY <1>2, <2>1 DEF Tasks, LogStatuses
  <2>3. task'[w] = t /\ Alone(w)
    BY <1>1, <2>2, AdvanceAlone
  <2> QED  BY <1>1, <1>2, <2>2, <2>3 DEF Rests
<1>4. CASE Linked(o) # {}
  <2>1. /\ r \in SubscriptionRows
        /\ \E u \in Users : rows[u].pk > 0 /\ r = rows[u]
    <3>1. FirstLinked(o) \in Users /\ rows[FirstLinked(o)].pk > 0
      BY <1>4, TaskFacts, FirstLinkedIsLinked DEF Linked
    <3> QED  BY <1>1, <1>2, <1>4, <3>1, ReadRowIsCopy
  <2>2. t = [s EXCEPT !.pc = "save", !.row = r, !.outcome = "PROCESSED"]
    BY <1>1, <1>4
  <2>3. /\ t \in Tasks /\ t.pc = "save" /\ t.row = r /\ t.orig = s.orig
        /\ t.obs = s.obs
    BY <1>2, <2>1, <2>2 DEF Tasks, LogStatuses
  <2>4. task'[w] = t /\ Alone(w)
    BY <1>1, <2>3, AdvanceAlone
  <2> QED  BY <1>1, <1>2, <2>1, <2>3, <2>4 DEF Looks
<1> QED  BY <1>3, <1>4

\* The step of a save that worker w's copy, new or read, goes through.
LEMMA CommitIsCommits ==
  ASSUME IInv, NEW w \in Workers, NEW s \in Tasks, s = task[w], s.pc = "save",
         NEW r \in SubscriptionRows, r.user \in Users,
         r.tx = IF s.obs.tx > 0 THEN s.obs.tx ELSE s.row.tx,
         s.row.pk > 0 \/ s.obs.tx > 0,
         Commit(w, r, s.obs)
  PROVE  Commits(w) /\ Alone(w)
<1>1. PICK t : /\ t = [s EXCEPT !.pc = "signal", !.row = r,
                                !.isNew = s.row.pk = 0, !.prev = s.row.status]
               /\ Advance(w, t)
  BY DEF Commit
<1>2. t \in Tasks /\ t.pc = "signal" /\ t.row = r
  <2>1. s.row.status \in SubscriptionStatuses /\ (s.row.pk = 0) \in BOOLEAN
    BY DEF Tasks, SubscriptionRows
  <2> QED  BY <1>1, <2>1 DEF Tasks
<1>3. task'[w] = t /\ Alone(w)
  BY <1>1, <1>2, AdvanceAlone
<1>4. /\ UNCHANGED history
      /\ rows' = [rows EXCEPT ![r.user] = r]
      /\ ledger' = IF HasLedger /\ s.obs.tx > 0
                   THEN [ledger EXCEPT ![s.obs.txid] = s.obs.tx] ELSE ledger
  BY DEF Commit
<1> QED  BY <1>2, <1>3, <1>4 DEF Commits

LEMMA InsertCommits ==
  ASSUME IInv, NEW w \in Workers, Insert(w)
  PROVE  Commits(w) /\ Alone(w)
<1>1. PICK s, a, r : /\ s = task[w]
                     /\ a = ApplyState(s.row, s.obs)
                     /\ r = [a EXCEPT !.pk = nextPk]
  OBVIOUS
<1>2. /\ s \in Tasks /\ s.row \in SubscriptionRows /\ s.obs \in Observations
      /\ s.pc = "save" /\ s.row.pk = 0
      /\ TaskOK(s) /\ nextPk \in Nat \ {0}
  BY <1>1, TaskFacts DEF Insert, Tasks, TypeOK
<1>3. s.user \in Users /\ s.row = NewRow(s.user, s.orig) /\ s.obs.tx > 0
  <2>1. ~ Copy(s.row)
    BY <1>2 DEF Copy
  <2> QED  BY <1>2, <2>1 DEF TaskOK, SavingOK, ActivationOK
<1>4. a \in SubscriptionRows /\ a.user = s.user
  BY <1>1, <1>2, <1>3, ApplyStateType DEF NewRow
<1>5. a.tx = IF s.obs.tx > 0 THEN s.obs.tx ELSE s.row.tx
  BY <1>1, <1>2 DEF ApplyState, SubscriptionRows
<1>6. r \in SubscriptionRows /\ r.user \in Users /\ r.tx = a.tx
  BY <1>1, <1>2, <1>3, <1>4 DEF SubscriptionRows
<1>7. Commit(w, r, s.obs)
  BY <1>1 DEF Insert
<1>8. s = task[w] /\ s.pc = "save" /\ s \in Tasks /\ s.obs.tx > 0
      /\ r.tx = IF s.obs.tx > 0 THEN s.obs.tx ELSE s.row.tx
  BY <1>1, <1>2, <1>3, <1>5, <1>6
<1> HIDE DEF Commits, Alone
<1> QED  BY <1>6, <1>7, <1>8, CommitIsCommits

LEMMA UpdateCommits ==
  ASSUME IInv, NEW w \in Workers, Update(w)
  PROVE  Commits(w) /\ Alone(w)
<1>1. PICK s, r : s = task[w] /\ r = ApplyState(s.row, s.obs)
  OBVIOUS
<1>2. /\ s \in Tasks /\ s.row \in SubscriptionRows /\ s.obs \in Observations
      /\ s.pc = "save" /\ s.row.pk > 0 /\ TaskOK(s)
  BY <1>1, TaskFacts DEF Update, Tasks
<1>3. s.row.user \in Users
  <2>1. s.row.pk # 0
    BY <1>2
  <2> QED  BY <1>2, <2>1 DEF TaskOK, SavingOK, Copy
<1>4. r \in SubscriptionRows /\ r.user \in Users
  BY <1>1, <1>2, <1>3, ApplyStateType
<1>5. r.tx = IF s.obs.tx > 0 THEN s.obs.tx ELSE s.row.tx
  BY <1>1, <1>2 DEF ApplyState, SubscriptionRows
<1>6. Commit(w, r, s.obs)
  BY <1>1 DEF Update
<1> QED  BY <1>1, <1>2, <1>4, <1>5, <1>6, CommitIsCommits

LEMMA DoneRests ==
  ASSUME IInv, NEW w \in Workers, Done(w), UNCHANGED <<history, store>>
  PROVE  Rests(w) /\ Alone(w)
<1>1. Idle \in Tasks /\ Idle.pc = "idle"
  BY DefaultTypes DEF Idle
<1>2. task'[w] = Idle /\ Alone(w)
  BY <1>1, AdvanceAlone DEF Done
<1> QED  BY <1>1, <1>2 DEF Rests

LEMMA FailureRests ==
  ASSUME IInv, NEW w \in Workers, Fail(w)
  PROVE  Rests(w) /\ Alone(w)
<1>1. /\ NextRow(task[w]) \in Tasks /\ NextRow(task[w]).pc \in {"idle", "next"}
      /\ Abort(task[w]) \in Tasks /\ Abort(task[w]).pc \in {"idle", "fail"}
  <2>1. PICK s : s = task[w] /\ s \in Tasks
    BY TaskFacts
  <2>2. NextRow(s).pc \in {"idle", "next"}
    BY DEF NextRow, Idle
  <2>3. Abort(s).pc \in {"idle", "fail"}
    BY <2>1 DEF Abort, Idle, Tasks
  <2> QED  BY <2>1, <2>2, <2>3, NextTaskOK
<1>2. CASE FetchFails(w)
  <2>1. task'[w] = NextRow(task[w]) /\ Alone(w)
    BY <1>1, <1>2, AdvanceAlone DEF FetchFails
  <2> QED  BY <1>1, <1>2, <2>1 DEF Rests, FetchFails
<1>3. CASE Raise(w) \/ ReceiverRaises(w)
  <2>1. task'[w] = Abort(task[w]) /\ Alone(w)
    BY <1>1, <1>3, AdvanceAlone DEF Raise, ReceiverRaises
  <2> QED  BY <1>1, <1>3, <2>1 DEF Rests, Raise, ReceiverRaises
<1>4. CASE Crash(w)
  BY <1>4, DoneRests DEF Crash
<1> QED  BY <1>2, <1>3, <1>4 DEF Fail

LEMMA FireSignalRests ==
  ASSUME IInv, NEW w \in Workers, FireSignal(w)
  PROVE  Rests(w) /\ Alone(w)
<1>1. PICK t : /\ t = IF task[w].kind = "notify" THEN [task[w] EXCEPT !.pc = "settle"]
                      ELSE NextRow(task[w])
               /\ Advance(w, t)
  BY DEF FireSignal
<1>2. t \in Tasks /\ t.pc \in {"settle", "idle", "next"}
  <2>1. NextRow(task[w]) \in Tasks /\ NextRow(task[w]).pc \in {"idle", "next"}
    BY NextTaskOK DEF NextRow, Idle
  <2>2. [task[w] EXCEPT !.pc = "settle"] \in Tasks
    BY TaskFacts DEF Tasks
  <2> QED  BY <1>1, <2>1, <2>2, TaskFacts DEF Tasks
<1>3. task'[w] = t /\ Alone(w)
  BY <1>1, <1>2, AdvanceAlone
<1> QED  BY <1>2, <1>3 DEF Rests, FireSignal

\* Every step of the system is one of these, as far as rows, copies and the
\* ledger go.
LEMMA StepKinds ==
  ASSUME IInv, [Next]_vars
  PROVE  \/ \E o \in Origs : AppStoreChanges(o)
         \/ UNCHANGED <<history, store, task>>
         \/ \E w \in Workers : Alone(w) /\ (Looks(w) \/ Rests(w) \/ Commits(w))
<1>1. CASE \E w \in Web : Arrive(w)
  <2>1. PICK w \in Workers : Arrive(w)
    BY <1>1 DEF Workers
  <2>2. PICK n \in Notes :
          \/ \E u \in Users : Activate(w, u, n)
          \/ DuplicateDelivery(w, n)
          \/ ReceiveNotification(w, n)
    BY <2>1 DEF Arrive
  <2>3. CASE DuplicateDelivery(w, n)
    BY <2>3 DEF DuplicateDelivery
  <2>4. n \in Versions
    BY DEF Notes
  <2> QED  BY <2>2, <2>3, <2>4, ActivateLooks, ReceiveLooksOrRests
<1>2. CASE \E w \in Jobs : StartSweep(w)
  BY <1>2, StartSweepRests DEF Workers
<1>3. ASSUME NEW w \in Workers, Continue(w)
      PROVE  Alone(w) /\ (Looks(w) \/ Rests(w) \/ Commits(w))
  <2>1. CASE InsertConflict(w)
    BY <2>1, DoneRests DEF InsertConflict
  <2>2. CASE Settle(w)
    BY <2>2, DoneRests DEF Settle
  <2>3. CASE LogFailure(w)
    BY <2>3, DoneRests DEF LogFailure
  <2> QED  BY <1>3, <2>1, <2>2, <2>3, SyncNextLooks, FetchLooks, LinkLooksOrRests,
              FindLooksOrRests, InsertCommits, UpdateCommits, FireSignalRests
           DEF Continue
<1>4. CASE \E w \in Workers : Fail(w)
  BY <1>4, FailureRests
<1>5. CASE UNCHANGED vars
  BY <1>5 DEF vars, store
<1> QED  BY <1>1, <1>2, <1>3, <1>4, <1>5 DEF Next

----------------------------------------------------------------------------
(* The ledger *)

\* As the history grows, what is recorded stays so.
LEMMA AppStoreKeepsLedger ==
  ASSUME IInv, LedgerOK, NEW o \in Origs, AppStoreChanges(o)
  PROVE  LedgerOK'
<1>1. \A v \in 1 .. Len(history) : v \in 1 .. Len(history') /\ history'[v] = history[v]
  BY HistoryGrows
<1>2. UNCHANGED <<rows, ledger, task>>
  BY DEF AppStoreChanges, store
<1>3. LedgerTrue'
  BY <1>1, <1>2 DEF LedgerOK, LedgerTrue
<1>4. ASSUME NEW v, Recorded(v)
      PROVE  Recorded(v)'
  BY <1>1, <1>2, <1>4 DEF Recorded
<1>5. ASSUME NEW u \in Users, rows'[u].pk > 0
      PROVE  Recorded(rows[u].tx)'
  <2>1. PICK r : r = rows[u] /\ r = rows'[u]
    BY <1>2
  <2>2. Recorded(r.tx)'
    BY <1>4, <1>5, <2>1 DEF LedgerOK
  <2> QED  BY <2>1, <2>2
<1>6. ASSUME NEW w \in Workers
      PROVE  LET t == task'[w]
             IN /\ t.pc \in {"find", "link", "save"} /\ t.obs.tx > 0 =>
                     t.obs.txid = history'[t.obs.tx].txid
                /\ t.pc \in {"fetch", "save"} /\ t.row.pk > 0 =>
                     Recorded(task[w].row.tx)'
  <2>1. PICK t : t = task[w] /\ t = task'[w]
    BY <1>2
  <2>2. t.pc \in {"fetch", "save"} /\ t.row.pk > 0 => Recorded(t.row.tx)'
    BY <1>4, <2>1 DEF LedgerOK
  <2>3. t.pc \in {"find", "link", "save"} /\ t.obs.tx > 0 =>
          t.obs.tx \in 1 .. Len(history) /\ t.obs.txid = history[t.obs.tx].txid
    BY <2>1, SoundObservation DEF LedgerOK
  <2> QED  BY <1>1, <2>1, <2>2, <2>3
<1> QED  BY <1>3, <1>5, <1>6 DEF LedgerOK

LEMMA LooksKeepsLedger ==
  ASSUME IInv, LedgerOK, NEW w \in Workers, Alone(w), Looks(w)
  PROVE  LedgerOK'
<1>1. UNCHANGED <<history, rows, ledger>>
  BY DEF Looks, store
<1>2. ASSUME NEW v, Recorded(v)
      PROVE  Recorded(v)'
  BY <1>1, <1>2 DEF Recorded
<1>3. LedgerTrue'
  BY <1>1 DEF LedgerOK, LedgerTrue
<1>4. ASSUME NEW u \in Users, rows'[u].pk > 0
      PROVE  Recorded(rows[u].tx)'
  BY <1>1, <1>4 DEF LedgerOK, Recorded
<1>5. PICK s, t : s = task[w] /\ t = task'[w]
  OBVIOUS
<1>6. t.pc \in {"find", "link", "save"} /\ t.obs.tx > 0 =>
        t.obs.txid = history[t.obs.tx].txid
  <2>1. CASE s.pc \in {"find", "link"} /\ t.obs = s.obs
    BY <1>5, <2>1 DEF LedgerOK
  <2>2. CASE \E v, tv, rv : t.obs = Observe(v, tv, rv)
    BY <2>2 DEF Observe
  <2> QED  BY <1>5, <2>1, <2>2 DEF Looks
<1>7. t.pc \in {"fetch", "save"} /\ t.row.pk > 0 => Recorded(t.row.tx)
  <2>1. CASE s.pc = "fetch" /\ t.row = s.row
    BY <1>5, <2>1 DEF LedgerOK
  <2>2. CASE \E u \in Users : rows[u].pk > 0 /\ t.row = rows[u]
    BY <2>2 DEF LedgerOK
  <2> QED  BY <1>5, <2>1, <2>2 DEF Looks
<1>8. ASSUME NEW x \in Workers
      PROVE  LET c == task'[x]
             IN /\ c.pc \in {"find", "link", "save"} /\ c.obs.tx > 0 =>
                     c.obs.txid = history'[c.obs.tx].txid
                /\ c.pc \in {"fetch", "save"} /\ c.row.pk > 0 =>
                     Recorded(task[x].row.tx)'
  <2>1. CASE x = w
    BY <1>1, <1>5, <1>6, <1>7, <2>1 DEF Recorded
  <2>2. CASE x # w
    <3>1. task'[x] = task[x]
      BY <2>2 DEF Alone
    <3> QED  BY <1>1, <3>1 DEF LedgerOK, Recorded
  <2> QED  BY <2>1, <2>2
<1> QED  BY <1>3, <1>4, <1>8 DEF LedgerOK

LEMMA RestsKeepsLedger ==
  ASSUME IInv, LedgerOK, NEW w \in Workers, Alone(w), Rests(w)
  PROVE  LedgerOK'
<1>1. UNCHANGED <<history, rows, ledger>>
  BY DEF Rests, store
<1>2. LedgerTrue'
  BY <1>1 DEF LedgerOK, LedgerTrue
<1>3. ASSUME NEW u \in Users, rows'[u].pk > 0
      PROVE  Recorded(rows[u].tx)'
  BY <1>1, <1>3 DEF LedgerOK, Recorded
<1>4. ASSUME NEW x \in Workers
      PROVE  LET c == task'[x]
             IN /\ c.pc \in {"find", "link", "save"} /\ c.obs.tx > 0 =>
                     c.obs.txid = history'[c.obs.tx].txid
                /\ c.pc \in {"fetch", "save"} /\ c.row.pk > 0 =>
                     Recorded(task[x].row.tx)'
  <2>1. CASE x = w
    BY <2>1 DEF Rests
  <2>2. CASE x # w
    <3>1. task'[x] = task[x]
      BY <2>2 DEF Alone
    <3> QED  BY <1>1, <3>1 DEF LedgerOK, Recorded
  <2> QED  BY <2>1, <2>2
<1> QED  BY <1>2, <1>3, <1>4 DEF LedgerOK

\* The row and the transaction it shows are written together.
LEMMA CommitsKeepsLedger ==
  ASSUME IInv, LedgerOK, HasLedger, NEW w \in Workers, Alone(w), Commits(w)
  PROVE  LedgerOK'
<1>1. PICK s, t, obs, r : /\ s = task[w] /\ t = task'[w]
                          /\ obs = s.obs /\ r = t.row
  OBVIOUS
<1>2. /\ s.pc = "save" /\ t.pc = "signal" /\ r.user \in Users
      /\ r.tx = IF obs.tx > 0 THEN obs.tx ELSE s.row.tx
      /\ rows' = [rows EXCEPT ![r.user] = r]
      /\ s.row.pk > 0 \/ obs.tx > 0
      /\ ledger' = IF obs.tx > 0 THEN [ledger EXCEPT ![obs.txid] = obs.tx] ELSE ledger
      /\ UNCHANGED history
  BY <1>1 DEF Commits
<1>3. /\ ledger \in [Versions -> Nat] /\ rows \in [Users -> SubscriptionRows]
      /\ HistoryOK /\ Len(history) \in Nat
  BY TaskFacts DEF TypeOK
<1>4. ASSUME NEW v \in 1 .. Len(history)
      PROVE  history[v].txid \in Versions
  <2>1. history[v].txid \in 1 .. v /\ Len(history) <= MaxVersion
    BY <1>3 DEF HistoryOK
  <2> QED  BY <1>3, <2>1, BoundAssumption DEF Versions
<1>5. obs.tx > 0 => /\ obs.tx \in 1 .. Len(history) /\ obs.txid \in Versions
                    /\ obs.txid = history[obs.tx].txid
  BY <1>1, <1>2, <1>4, SoundObservation DEF LedgerOK
<1>6. ASSUME NEW k \in Versions
      PROVE  \/ ledger'[k] = ledger[k]
             \/ obs.tx > 0 /\ k = obs.txid /\ ledger'[k] = obs.tx
  BY <1>2, <1>3, <1>5
<1>7. LedgerTrue'
  <2>1. ASSUME NEW k \in Versions, ledger'[k] > 0
        PROVE  ledger'[k] \in 1 .. Len(history) /\ history[ledger'[k]].txid = k
    BY <1>5, <1>6, <2>1 DEF LedgerOK, LedgerTrue
  <2> QED  BY <1>2, <2>1 DEF LedgerTrue
<1>8. ASSUME NEW v, Recorded(v)
      PROVE  Recorded(v)'
  <2>1. v \in 1 .. Len(history) /\ ledger[history[v].txid] > 0
    BY <1>8 DEF Recorded
  <2>2. ledger'[history[v].txid] > 0
    BY <1>4, <1>6, <2>1
  <2> QED  BY <1>2, <2>1, <2>2 DEF Recorded
<1>9. Recorded(r.tx)'
  <2>1. CASE obs.tx > 0
    <3>1. ledger'[obs.txid] = obs.tx
      BY <1>2, <1>3, <1>5, <2>1
    <3> QED  BY <1>2, <1>5, <2>1, <3>1 DEF Recorded
  <2>2. CASE ~ (obs.tx > 0)
    <3>1. Recorded(s.row.tx)
      BY <1>1, <1>2, <2>2 DEF LedgerOK
    <3> QED  BY <1>2, <1>8, <2>2, <3>1
  <2> QED  BY <2>1, <2>2
<1>10. ASSUME NEW u \in Users, rows'[u].pk > 0
       PROVE  Recorded(rows[u].tx)'
  <2>1. CASE u = r.user
    <3>1. rows'[u] = r
      BY <1>2, <1>3, <2>1
    <3> QED  BY <1>9, <3>1
  <2>2. CASE u # r.user
    <3>1. PICK q : q = rows[u] /\ q = rows'[u]
      BY <1>2, <1>3, <2>2
    <3>2. Recorded(q.tx)'
      BY <1>8, <1>10, <3>1 DEF LedgerOK
    <3> QED  BY <3>1, <3>2
  <2> QED  BY <2>1, <2>2
<1>11. ASSUME NEW x \in Workers
       PROVE  LET c == task'[x]
              IN /\ c.pc \in {"find", "link", "save"} /\ c.obs.tx > 0 =>
                      c.obs.txid = history'[c.obs.tx].txid
                 /\ c.pc \in {"fetch", "save"} /\ c.row.pk > 0 =>
                      Recorded(task[x].row.tx)'
  <2>1. CASE x = w
    BY <1>1, <1>2, <2>1
  <2>2. CASE x # w
    <3>1. PICK c : c = task[x] /\ c = task'[x]
      BY <2>2 DEF Alone
    <3>2. c.pc \in {"fetch", "save"} /\ c.row.pk > 0 => Recorded(c.row.tx)'
      BY <1>8, <3>1 DEF LedgerOK
    <3> QED  BY <1>2, <3>1, <3>2 DEF LedgerOK
  <2> QED  BY <2>1, <2>2
<1> QED  BY <1>7, <1>10, <1>11 DEF LedgerOK

LEMMA NextKeepsLedger ==
  ASSUME IInv, LedgerOK, HasLedger, [Next]_vars
  PROVE  LedgerOK'
<1>1. CASE UNCHANGED <<history, store, task>>
  BY <1>1 DEF LedgerOK, LedgerTrue, Recorded, store
<1> QED  BY <1>1, StepKinds, AppStoreKeepsLedger, LooksKeepsLedger,
            RestsKeepsLedger, CommitsKeepsLedger

\* The transaction a row shows is in the ledger under its own id, however
\* stale the copies that were saved and whatever failed: apply_state's atomic
\* block writes the two together (services/entitlement.py).
THEOREM LedgerCovers == Spec => []LedgerCoversRows
<1>1. CASE ~ HasLedger
  <2>1. LedgerCoversRows
    BY <1>1 DEF LedgerCoversRows
  <2> QED  BY <2>1, PTL
<1>2. CASE HasLedger
  <2>1. Init => LedgerOK
    BY DEF Init, LedgerOK, LedgerTrue, NoRow, NewRow, Idle
  <2>2. IInv /\ LedgerOK /\ [Next]_vars => LedgerOK'
    BY <1>2, NextKeepsLedger
  <2>3. IInv /\ LedgerOK => LedgerCoversRows
    <3>1. ASSUME IInv, LedgerOK, NEW u \in Users, rows[u].pk > 0
          PROVE  LET k == history[rows[u].tx].txid
                 IN ledger[k] > 0 /\ history[ledger[k]].txid = k
      <4>1. PICK v : v = rows[u].tx /\ Recorded(v)
        BY <3>1 DEF LedgerOK
      <4>2. v \in 1 .. Len(history) /\ Len(history) \in Nat
            /\ history[v].txid \in 1 .. v /\ Len(history) <= MaxVersion
        BY <3>1, <4>1 DEF IInv, TypeOK, HistoryOK, Recorded
      <4>3. history[v].txid \in Versions
        BY <4>2, BoundAssumption DEF Versions
      <4> QED  BY <3>1, <4>1, <4>2, <4>3 DEF LedgerOK, LedgerTrue, Recorded
    <3> QED  BY <3>1 DEF LedgerCoversRows
  <2> QED  BY <2>1, <2>2, <2>3, Invariance, PTL DEF Spec
<1> QED  BY <1>1, <1>2

----------------------------------------------------------------------------
(* What a step does to the deliveries of notifications *)

\* One more signal on behalf of n is counted, or none.
Counts(n) ==
  \/ UNCHANGED fired
  \/ n \in Notes /\ fired' = [fired EXCEPT ![n] = @ + 1]

\* Worker w, with no notification in hand, receives one that is not settled.
Receives(w) ==
  LET t == task'[w]
  IN /\ UNCHANGED <<fired, faults>>
     /\ task[w].kind = "none" /\ t.kind = "notify"
     /\ t.ver \in Notes /\ log[t.ver] \notin Settled
     /\ t.pc \in {"find", "settle"} /\ t.outcome = "IGNORED"
     /\ log' = IF HasLog /\ log[t.ver] = "none"
               THEN [log EXCEPT ![t.ver] = "PENDING"] ELSE log

\* Worker w gets on with the notification it has in hand, or fails and still
\* has to say so in the log.
GetsOn(w) ==
  LET s == task[w]
      t == task'[w]
  IN /\ UNCHANGED log
     /\ s.kind = "notify" /\ t.kind = "notify" /\ t.ver = s.ver
     /\ \/ /\ UNCHANGED <<fired, faults>>
           /\ s.pc = "find" /\ t.pc = "settle" /\ t.outcome = "IGNORED"
        \/ /\ UNCHANGED <<fired, faults>>
           /\ s.pc = "find" /\ t.pc = "save" /\ t.outcome = "PROCESSED"
        \/ /\ UNCHANGED <<fired, faults>>
           /\ s.pc = "save" /\ t.pc = "signal" /\ t.outcome = s.outcome
        \/ /\ Counts(s.ver) /\ UNCHANGED faults
           /\ s.pc = "signal" /\ t.pc = "settle" /\ t.outcome = s.outcome
        \/ /\ UNCHANGED fired /\ faults' = faults + 1
           /\ s.pc \in {"find", "save", "settle"} /\ t.pc = "fail"
        \/ /\ Counts(s.ver) /\ faults' = faults + 1
           /\ s.pc = "signal" /\ t.pc = "fail"

\* Worker w is through with the notification it had in hand, or dead.
LetsGo(w) ==
  LET s == task[w]
  IN /\ UNCHANGED fired
     /\ s.kind = "notify" /\ task'[w].kind # "notify"
     /\ \/ /\ s.pc = "settle" /\ UNCHANGED faults
           /\ log' = IF HasLog THEN [log EXCEPT ![s.ver] = s.outcome] ELSE log
        \/ /\ s.pc = "fail" /\ UNCHANGED faults
           /\ log' = IF HasLog THEN [log EXCEPT ![s.ver] = "FAILED"] ELSE log
        \/ UNCHANGED log /\ faults' = faults + 1

\* The step of worker w has nothing to do with notifications.
Elsewhere(w) ==
  /\ task[w].kind # "notify" /\ task'[w].kind # "notify"
  /\ UNCHANGED <<log, fired>> /\ faults' \in {faults, faults + 1}

DeliveryStep(w) == GetsOn(w) \/ LetsGo(w) \/ Elsewhere(w)

LEMMA ActivateElsewhere ==
  ASSUME IInv, NEW w \in Workers, NEW u \in Users, NEW v, Activate(w, u, v)
  PROVE  DeliveryStep(w) /\ Alone(w)
<1>1. PICK o, n, t :
        /\ t = [Idle EXCEPT !.pc = "fetch", !.kind = "activate", !.user = u,
                            !.orig = o, !.ver = v, !.since = n]
        /\ Advance(w, t)
  BY DEF Activate
<1>2. t.kind = "activate"
  BY <1>1 DEF Idle
<1>3. task'[w] = t /\ Alone(w)
  BY <1>1, TaskFacts DEF Advance, TypeOK, Alone
<1>4. task[w].kind = "none"
  BY KindOfPlace DEF Activate
<1> QED  BY <1>2, <1>3, <1>4 DEF DeliveryStep, Elsewhere, Activate, ghosts

LEMMA ReceiveReceives ==
  ASSUME IInv, NEW w \in Workers, NEW n \in Notes, ReceiveNotification(w, n)
  PROVE  Receives(w) /\ Alone(w)
<1>1. PICK o, place, obs, t :
        /\ place = IF n \in Bare THEN "settle" ELSE "find"
        /\ o = history[n].orig
        /\ obs = IF n \in Bare THEN NoObservation ELSE Observe(n, n, n)
        /\ t = [Idle EXCEPT !.pc = place, !.kind = "notify", !.orig = o, !.ver = n,
                            !.obs = obs, !.outcome = "IGNORED"]
        /\ Advance(w, t)
  BY DEF ReceiveNotification
<1>2. t.pc = place /\ t.kind = "notify" /\ t.ver = n /\ t.outcome = "IGNORED"
  BY <1>1 DEF Idle
<1>3. task'[w] = t /\ Alone(w)
  BY <1>1, TaskFacts DEF Advance, TypeOK, Alone
<1>4. task[w].kind = "none"
  BY KindOfPlace DEF ReceiveNotification
<1>5. /\ UNCHANGED <<fired, faults>> /\ log[n] \notin Settled
      /\ log' = IF HasLog /\ log[n] = "none" THEN [log EXCEPT ![n] = "PENDING"] ELSE log
  BY DEF ReceiveNotification, AlreadySettled, ghosts
<1> QED  BY <1>1, <1>2, <1>3, <1>4, <1>5 DEF Receives

LEMMA SweepElsewhere ==
  ASSUME IInv, NEW w \in Workers, StartSweep(w)
  PROVE  DeliveryStep(w) /\ Alone(w)
<1>1. PICK q \in SUBSET Users :
        Advance(w, [Idle EXCEPT !.pc = "next", !.kind = "sync", !.queue = q])
  BY DEF StartSweep
<1> DEFINE t == [Idle EXCEPT !.pc = "next", !.kind = "sync", !.queue = q]
<1>2. t \in Tasks /\ t.kind = "sync"
  BY DefaultTypes DEF Tasks, Idle
<1>3. task'[w] = t /\ Alone(w)
  BY <1>1, <1>2, AdvanceAlone
<1>4. task[w].kind = "none"
  BY KindOfPlace DEF StartSweep
<1> QED  BY <1>2, <1>3, <1>4 DEF DeliveryStep, Elsewhere, StartSweep, ghosts

LEMMA SyncNextElsewhere ==
  ASSUME IInv, NEW w \in Workers, SyncNext(w)
  PROVE  DeliveryStep(w) /\ Alone(w)
<1>1. PICK s, u, o, r, t :
        /\ s = task[w]
        /\ t = [s EXCEPT !.pc = "fetch", !.orig = o, !.row = r, !.queue = @ \ {u}]
        /\ Advance(w, t)
  BY DEF SyncNext
<1>2. s \in Tasks /\ s.kind = "sync" /\ UNCHANGED <<log, fired, faults>>
  BY <1>1, TaskFacts, KindOfPlace DEF SyncNext, ghosts
<1>3. t.kind = "sync"
  BY <1>1, <1>2 DEF Tasks
<1>4. task'[w] = t /\ Alone(w)
  BY <1>1, TaskFacts DEF Advance, TypeOK, Alone
<1> QED  BY <1>1, <1>2, <1>3, <1>4 DEF DeliveryStep, Elsewhere

LEMMA FetchElsewhere ==
  ASSUME IInv, NEW w \in Workers, Fetch(w)
  PROVE  DeliveryStep(w) /\ Alone(w)
<1>1. PICK s, place, obs, t :
        /\ s = task[w]
        /\ t = [s EXCEPT !.pc = place, !.obs = obs]
        /\ Advance(w, t)
  BY DEF Fetch
<1>2. s \in Tasks /\ s.kind \in {"activate", "sync"} /\ UNCHANGED <<log, fired, faults>>
  BY <1>1, TaskFacts, KindOfPlace DEF Fetch, ghosts
<1>3. t.kind = s.kind
  BY <1>1, <1>2 DEF Tasks
<1>4. task'[w] = t /\ Alone(w)
  BY <1>1, TaskFacts DEF Advance, TypeOK, Alone
<1> QED  BY <1>1, <1>2, <1>3, <1>4 DEF DeliveryStep, Elsewhere

LEMMA LinkElsewhere ==
  ASSUME IInv, NEW w \in Workers, Link(w)
  PROVE  DeliveryStep(w) /\ Alone(w)
<1>1. PICK s, r, t :
        /\ s = task[w]
        /\ t = [s EXCEPT !.pc = "save", !.row = r] \/ t = Idle
        /\ Advance(w, t)
  BY DEF Link
<1>2. s \in Tasks /\ s.kind = "activate" /\ UNCHANGED <<log, fired, faults>>
  BY <1>1, TaskFacts, KindOfPlace DEF Link, ghosts
<1>3. t.kind \in {"activate", "none"}
  <2>1. CASE t = [s EXCEPT !.pc = "save", !.row = r]
    BY <1>2, <2>1 DEF Tasks
  <2>2. CASE t = Idle
    BY <2>2 DEF Idle
  <2> QED  BY <1>1, <2>1, <2>2
<1>4. task'[w] = t /\ Alone(w)
  BY <1>1, TaskFacts DEF Advance, TypeOK, Alone
<1> QED  BY <1>1, <1>2, <1>3, <1>4 DEF DeliveryStep, Elsewhere

LEMMA FindGetsOn ==
  ASSUME IInv, NEW w \in Workers, FindForNotification(w)
  PROVE  DeliveryStep(w) /\ Alone(w)
<1>1. PICK s, r, t :
        /\ s = task[w]
        /\ \/ t = [s EXCEPT !.pc = "settle", !.outcome = "IGNORED"]
           \/ t = [s EXCEPT !.pc = "save", !.row = r, !.outcome = "PROCESSED"]
        /\ Advance(w, t)
  BY DEF FindForNotification
<1>2. s \in Tasks /\ s.pc = "find" /\ s.kind = "notify" /\ UNCHANGED <<log, fired, faults>>
  BY <1>1, TaskFacts, KindOfPlace DEF FindForNotification
<1>3. /\ t.kind = "notify" /\ t.ver = s.ver
      /\ \/ t.pc = "settle" /\ t.outcome = "IGNORED"
         \/ t.pc = "save" /\ t.outcome = "PROCESSED"
  BY <1>1, <1>2 DEF Tasks
<1>4. task'[w] = t /\ Alone(w)
  BY <1>1, TaskFacts DEF Advance, TypeOK, Alone
<1> QED  BY <1>1, <1>2, <1>3, <1>4 DEF DeliveryStep, GetsOn

LEMMA SaveGetsOn ==
  ASSUME IInv, NEW w \in Workers, Insert(w) \/ Update(w)
  PROVE  DeliveryStep(w) /\ Alone(w)
<1>1. PICK s, r, new, before, t :
        /\ s = task[w]
        /\ t = [s EXCEPT !.pc = "signal", !.row = r, !.isNew = new, !.prev = before]
        /\ Advance(w, t)
  BY DEF Insert, Update, Commit
<1>2. s \in Tasks /\ s.pc = "save" /\ UNCHANGED <<log, fired, faults>>
  BY <1>1, TaskFacts DEF Insert, Update, Commit
<1>3. /\ t.kind = s.kind /\ t.ver = s.ver
      /\ t.pc = "signal" /\ t.outcome = s.outcome
  BY <1>1, <1>2 DEF Tasks
<1>4. task'[w] = t /\ Alone(w)
  BY <1>1, TaskFacts DEF Advance, TypeOK, Alone
<1> QED  BY <1>1, <1>2, <1>3, <1>4 DEF DeliveryStep, GetsOn, Elsewhere

LEMMA SendCounts ==
  ASSUME IInv, NEW w \in Workers, Send(w)
  PROVE  IF task[w].kind = "notify" THEN Counts(task[w].ver) ELSE UNCHANGED fired
BY PayloadAssumption DEF Send, Counts

LEMMA FireSignalGetsOn ==
  ASSUME IInv, NEW w \in Workers, FireSignal(w)
  PROVE  DeliveryStep(w) /\ Alone(w)
<1>1. PICK s, t :
        /\ s = task[w]
        /\ t = IF s.kind = "notify" THEN [s EXCEPT !.pc = "settle"] ELSE NextRow(s)
        /\ Advance(w, t)
  BY DEF FireSignal
<1>2. s \in Tasks /\ s.pc = "signal" /\ UNCHANGED <<log, faults>>
      /\ (IF s.kind = "notify" THEN Counts(s.ver) ELSE UNCHANGED fired)
  BY <1>1, TaskFacts, SendCounts DEF FireSignal
<1>3. task'[w] = t /\ Alone(w)
  BY <1>1, TaskFacts DEF Advance, TypeOK, Alone
<1>4. CASE s.kind = "notify"
  <2>1. /\ t.kind = "notify" /\ t.ver = s.ver
        /\ t.pc = "settle" /\ t.outcome = s.outcome
    BY <1>1, <1>2, <1>4 DEF Tasks
  <2> QED  BY <1>1, <1>2, <1>3, <1>4, <2>1 DEF DeliveryStep, GetsOn
<1>5. CASE s.kind # "notify"
  <2>1. t.kind # "notify"
    BY <1>1, <1>5 DEF NextRow, Idle
  <2> QED  BY <1>1, <1>2, <1>3, <1>5, <2>1 DEF DeliveryStep, Elsewhere
<1> QED  BY <1>4, <1>5

LEMMA DoneLetsGo ==
  ASSUME IInv, NEW w \in Workers,
         Settle(w) \/ LogFailure(w) \/ Crash(w) \/ InsertConflict(w)
  PROVE  DeliveryStep(w) /\ Alone(w)
<1>1. task'[w] = Idle /\ Idle.kind = "none" /\ Alone(w)
  BY TaskFacts DEF Settle, LogFailure, Crash, InsertConflict, Done, Advance, TypeOK,
                   Alone, Idle
<1>2. UNCHANGED fired
  BY DEF Settle, LogFailure, Crash, InsertConflict, ghosts
<1>3. CASE Settle(w) \/ LogFailure(w)
  <2>1. task[w].kind = "notify"
    BY <1>3, KindOfPlace DEF Settle, LogFailure
  <2> QED  BY <1>1, <1>2, <1>3, <2>1
              DEF DeliveryStep, LetsGo, Settle, LogFailure, SetLog
<1>4. CASE Crash(w)
  BY <1>1, <1>2, <1>4 DEF DeliveryStep, LetsGo, Elsewhere, Crash
<1>5. CASE InsertConflict(w)
  <2>1. PICK s : s = task[w] /\ s.pc = "save" /\ s.row.pk = 0 /\ TaskOK(s)
    BY <1>5, TaskFacts DEF InsertConflict
  <2>2. s.kind = "activate"
    BY <2>1 DEF TaskOK, SavingOK, Copy
  <2> QED  BY <1>1, <1>2, <1>5, <2>1, <2>2 DEF DeliveryStep, Elsewhere, InsertConflict
<1> QED  BY <1>3, <1>4, <1>5

LEMMA FailureGetsOn ==
  ASSUME IInv, NEW w \in Workers, FetchFails(w) \/ Raise(w) \/ ReceiverRaises(w)
  PROVE  DeliveryStep(w) /\ Alone(w)
<1>1. PICK s : s = task[w] /\ s \in Tasks
  BY TaskFacts
<1>2. UNCHANGED log /\ faults' = faults + 1
  BY DEF FetchFails, Raise, ReceiverRaises
<1>3. CASE FetchFails(w)
  <2>1. task'[w] = NextRow(s) /\ Alone(w)
    BY <1>1, <1>3, TaskFacts DEF FetchFails, Advance, TypeOK, Alone
  <2>2. NextRow(s).kind # "notify"
    BY DEF NextRow, Idle
  <2>3. s.kind # "notify" /\ UNCHANGED fired
    BY <1>1, <1>3, KindOfPlace DEF FetchFails, ghosts
  <2> QED  BY <1>1, <1>2, <2>1, <2>2, <2>3 DEF DeliveryStep, Elsewhere
<1>4. CASE Raise(w) \/ ReceiverRaises(w)
  <2>1. task'[w] = Abort(s) /\ Alone(w)
    BY <1>1, <1>4, TaskFacts DEF Raise, ReceiverRaises, Advance, TypeOK, Alone
  <2>2. IF s.kind = "notify"
        THEN /\ Abort(s).kind = "notify" /\ Abort(s).pc = "fail"
             /\ Abort(s).ver = s.ver
        ELSE Abort(s).kind # "notify"
    BY <1>1 DEF Abort, Idle, Tasks
  <2>3. CASE Raise(w)
    <3>1. UNCHANGED fired /\ (s.kind = "notify" => s.pc \in {"find", "save", "settle"})
      BY <1>1, <2>3, KindOfPlace DEF Raise, ghosts
    <3> QED  BY <1>1, <1>2, <2>1, <2>2, <2>3, <3>1
                DEF DeliveryStep, GetsOn, Elsewhere
  <2>4. CASE ReceiverRaises(w)
    <3>1. /\ s.pc = "signal"
          /\ IF s.kind = "notify" THEN Counts(s.ver) ELSE UNCHANGED fired
      BY <1>1, <2>4, SendCounts DEF ReceiverRaises
    <3> QED  BY <1>1, <1>2, <2>1, <2>2, <2>4, <3>1
                DEF DeliveryStep, GetsOn, Elsewhere
  <2> QED  BY <1>4, <2>3, <2>4
<1> QED  BY <1>3, <1>4

\* Every step of the system is one of these, as far as deliveries go.
LEMMA DeliverySteps ==
  ASSUME IInv, [Next]_vars
  PROVE  \/ UNCHANGED <<log, fired, task, faults>>
         \/ \E w \in Workers : /\ Alone(w)
                               /\ DeliveryStep(w) \/ (w \in Web /\ Receives(w))
<1>1. CASE \E o \in Origs : AppStoreChanges(o)
  BY <1>1 DEF AppStoreChanges, ghosts
<1>2. CASE \E w \in Web : Arrive(w)
  <2>1. PICK w \in Web : Arrive(w)
    BY <1>2
  <2>2. PICK n \in Notes :
          \/ \E u \in Users : Activate(w, u, n)
          \/ DuplicateDelivery(w, n)
          \/ ReceiveNotification(w, n)
    BY <2>1 DEF Arrive
  <2>3. CASE DuplicateDelivery(w, n)
    BY <2>3 DEF DuplicateDelivery, ghosts
  <2>4. w \in Workers
    BY DEF Workers
  <2> QED  BY <2>2, <2>3, <2>4, ActivateElsewhere, ReceiveReceives
<1>3. CASE \E w \in Jobs : StartSweep(w)
  BY <1>3, SweepElsewhere DEF Workers
<1>4. CASE \E w \in Workers : Continue(w) \/ Fail(w)
  BY <1>4, SyncNextElsewhere, FetchElsewhere, LinkElsewhere, FindGetsOn, SaveGetsOn,
     FireSignalGetsOn, DoneLetsGo, FailureGetsOn DEF Continue, Fail
<1>5. CASE UNCHANGED vars
  BY <1>5 DEF vars
<1> QED  BY <1>1, <1>2, <1>3, <1>4, <1>5 DEF Next

\* A notification that is settled and that nobody delivers is left alone: its
\* redeliveries end at the log (handle_notification).
THEOREM SettledStaysSettled == Spec => SettledIsFinal
<1>1. ASSUME IInv, [Next]_vars, NEW n \in Notes, log[n] \in Settled,
             \A w \in Workers : ~ Delivers(task[w], n)
      PROVE  /\ log'[n] = log[n] /\ fired'[n] = fired[n]
             /\ \A w \in Workers : ~ Delivers(task'[w], n)
  <2>1. CASE UNCHANGED <<log, fired, task, faults>>
    BY <1>1, <2>1
  <2>2. ASSUME NEW w \in Workers, Alone(w), DeliveryStep(w) \/ Receives(w)
        PROVE  log'[n] = log[n] /\ fired'[n] = fired[n] /\ ~ Delivers(task'[w], n)
    <3>1. /\ log \in [Notes -> LogStatuses] /\ fired \in [Notes -> Nat]
          /\ task[w].kind = "notify" => task[w].ver # n
      BY <1>1 DEF IInv, TypeOK, Delivers
    <3>2. CASE Receives(w)
      BY <1>1, <3>1, <3>2 DEF Receives, Delivers
    <3>3. CASE GetsOn(w)
      BY <1>1, <3>1, <3>3 DEF GetsOn, Counts, Delivers
    <3>4. CASE LetsGo(w)
      BY <1>1, <3>1, <3>4 DEF LetsGo, Delivers
    <3>5. CASE Elsewhere(w)
      BY <3>5 DEF Elsewhere, Delivers
    <3> QED  BY <2>2, <3>2, <3>3, <3>4, <3>5 DEF DeliveryStep
  <2> QED  BY <1>1, <2>1, <2>2, DeliverySteps DEF Alone
<1>2. IInv /\ [Next]_vars =>
        [\A n \in Notes :
           /\ log[n] \in Settled
           /\ \A w \in Workers : ~ Delivers(task[w], n)
           => /\ log'[n] = log[n]
              /\ fired'[n] = fired[n]
              /\ \A w \in Workers : ~ Delivers(task'[w], n)]_vars
  BY <1>1
<1> QED  BY <1>2, Invariance, PTL DEF Spec, SettledIsFinal

----------------------------------------------------------------------------
(* How often a notification's signals are sent *)

\* SentOK in numbers: F signals sent for a notification that the log calls l,
\* while u, s and p of W workers are before its signal, after it and failing,
\* and k failures so far.
Kept(W, F, l, u, s, p, k) ==
  /\ k - p >= 0
  /\ IF l \in Settled THEN F + u <= W * (k - p + 1) ELSE F <= W * (k - p) + s + p

LEMMA Products ==
  ASSUME NEW W \in Nat, NEW f \in Nat
  PROVE  /\ W * f \in Nat
         /\ W * (f + 1) = W * f + W
         /\ W * (f + 2) = W * f + W + W
OBVIOUS

\* What the moves of one worker do to the numbers, where the u, s and p are
\* those of the others: from nowhere or from an IGNORED notification, ...
LEMMA MovesFromElsewhere ==
  ASSUME NEW W \in Nat, NEW F \in Nat, NEW l, NEW k \in Nat,
         NEW u \in Nat, NEW s \in Nat, NEW p \in Nat, u + s + p + 1 <= W,
         Kept(W, F, l, u, s, p, k)
  PROVE  /\ Kept(W, F, l, u, s, p, k + 1)
         /\ Kept(W, F, l, u, s, p + 1, k + 1)
         /\ \A m : m \in Settled => Kept(W, F, m, u, s, p, k)
         /\ l \notin Settled =>
              \A m : m \notin Settled => /\ Kept(W, F, m, u, s, p, k)
                                        /\ Kept(W, F, m, u + 1, s, p, k)
<1>1. PICK f \in Nat : f = k - p
  BY DEF Kept
<1>2. /\ k = p + f /\ k - p + 1 = f + 1 /\ k + 1 - p = f + 1
      /\ k + 1 - (p + 1) = f /\ k + 1 - (p + 1) + 1 = f + 1 /\ k + 1 - p + 1 = f + 2
  BY <1>1
<1> QED  BY <1>1, <1>2, Products DEF Kept

\* ... before the signal, ...
LEMMA MovesFromUnsent ==
  ASSUME NEW W \in Nat, NEW F \in Nat, NEW l, NEW k \in Nat,
         NEW u \in Nat, NEW s \in Nat, NEW p \in Nat, u + s + p + 1 <= W,
         Kept(W, F, l, u + 1, s, p, k)
  PROVE  /\ Kept(W, F, l, u, s, p, k)
         /\ Kept(W, F, l, u, s + 1, p, k)
         /\ Kept(W, F + 1, l, u, s + 1, p, k)
         /\ Kept(W, F, l, u, s, p + 1, k + 1)
         /\ Kept(W, F + 1, l, u, s, p + 1, k + 1)
         /\ Kept(W, F, l, u, s, p, k + 1)
<1>1. PICK f \in Nat : f = k - p
  BY DEF Kept
<1>2. /\ k = p + f /\ k - p + 1 = f + 1 /\ k + 1 - p = f + 1
      /\ k + 1 - (p + 1) = f /\ k + 1 - (p + 1) + 1 = f + 1 /\ k + 1 - p + 1 = f + 2
  BY <1>1
<1> QED  BY <1>1, <1>2, Products DEF Kept

\* ... after it, ...
LEMMA MovesFromSent ==
  ASSUME NEW W \in Nat, NEW F \in Nat, NEW l, NEW k \in Nat,
         NEW u \in Nat, NEW s \in Nat, NEW p \in Nat, u + s + p + 1 <= W,
         Kept(W, F, l, u, s + 1, p, k)
  PROVE  /\ Kept(W, F, l, u, s, p + 1, k + 1)
         /\ \A m : m \in Settled => Kept(W, F, m, u, s, p, k)
         /\ Kept(W, F, l, u, s, p, k + 1)
<1>1. PICK f \in Nat : f = k - p
  BY DEF Kept
<1>2. /\ k = p + f /\ k - p + 1 = f + 1 /\ k + 1 - p = f + 1
      /\ k + 1 - (p + 1) = f /\ k + 1 - (p + 1) + 1 = f + 1 /\ k + 1 - p + 1 = f + 2
  BY <1>1
<1> QED  BY <1>1, <1>2, Products DEF Kept

\* ... or after a failure.
LEMMA MovesFromFailing ==
  ASSUME NEW W \in Nat, NEW F \in Nat, NEW l, NEW k \in Nat,
         NEW u \in Nat, NEW s \in Nat, NEW p \in Nat, u + s + p + 1 <= W,
         Kept(W, F, l, u, s, p + 1, k)
  PROVE  /\ \A m : m \notin Settled => Kept(W, F, m, u, s, p, k)
         /\ Kept(W, F, l, u, s, p, k + 1)
<1>1. PICK f \in Nat : f = k - (p + 1)
  BY DEF Kept
<1>2. /\ k = p + 1 + f /\ k - (p + 1) + 1 = f + 1 /\ k - p = f + 1
      /\ k + 1 - p = f + 2 /\ k + 1 - p + 1 = (f + 2) + 1
  BY <1>1
<1>3. W * ((f + 2) + 1) = W * (f + 2) + W
  BY Products
<1> QED  BY <1>1, <1>2, <1>3, Products DEF Kept

LEMMA CountWithout ==
  ASSUME NEW S \in SUBSET Web, NEW w \in Web
  PROVE  /\ IsFiniteSet(S \ {w}) /\ Cardinality(S \ {w}) \in Nat
         /\ w \in S => Cardinality(S) = Cardinality(S \ {w}) + 1
         /\ w \notin S => Cardinality(S) = Cardinality(S \ {w})
<1>1. IsFiniteSet(S)
  BY WorkerAssumption, FS_Subset
<1>2. Cardinality(S) \in Nat
  BY <1>1, FS_CardinalityType
<1>3. IsFiniteSet(S \ {w})
  BY <1>1, FS_RemoveElement
<1>4. Cardinality(S \ {w}) \in Nat
  BY <1>3, FS_CardinalityType
<1>5. Cardinality(S \ {w}) = IF w \in S THEN Cardinality(S) - 1 ELSE Cardinality(S)
  BY <1>1, FS_RemoveElement
<1> QED  BY <1>2, <1>3, <1>4, <1>5

LEMMA DisjointCount ==
  ASSUME NEW S, NEW T, IsFiniteSet(S), IsFiniteSet(T), S \cap T = {}
  PROVE  /\ IsFiniteSet(S \cup T)
         /\ Cardinality(S \cup T) = Cardinality(S) + Cardinality(T)
<1>1. /\ IsFiniteSet(S \cup T)
      /\ Cardinality(S \cup T) = Cardinality(S) + Cardinality(T) - Cardinality(S \cap T)
  BY FS_Union
<1>2. Cardinality(S \cap T) = 0
  BY FS_EmptySet
<1>3. Cardinality(S) \in Nat /\ Cardinality(T) \in Nat
  BY FS_CardinalityType
<1> QED  BY <1>1, <1>2, <1>3

\* The deliveries of n before and after the step of w, counted without w.
LEMMA Tally ==
  ASSUME NEW w \in Web, Alone(w), NEW n
  PROVE  \E u \in Nat, s \in Nat, p \in Nat :
           /\ u + s + p + 1 <= Cardinality(Web)
           /\ Cardinality(Unsent(n)) = IF w \in Unsent(n) THEN u + 1 ELSE u
           /\ Cardinality(Sent(n)) = IF w \in Sent(n) THEN s + 1 ELSE s
           /\ Cardinality(Failing(n)) = IF w \in Failing(n) THEN p + 1 ELSE p
           /\ Cardinality(Unsent(n)') = IF w \in Unsent(n)' THEN u + 1 ELSE u
           /\ Cardinality(Sent(n)') = IF w \in Sent(n)' THEN s + 1 ELSE s
           /\ Cardinality(Failing(n)') = IF w \in Failing(n)' THEN p + 1 ELSE p
<1>1. /\ Unsent(n) \in SUBSET Web /\ Unsent(n)' \in SUBSET Web
      /\ Sent(n) \in SUBSET Web /\ Sent(n)' \in SUBSET Web
      /\ Failing(n) \in SUBSET Web /\ Failing(n)' \in SUBSET Web
  BY DEF Unsent, Sent, Failing, At
<1>2. \A x \in Web \ {w} : task'[x] = task[x]
  BY DEF Alone, Workers
<1>3. /\ Unsent(n)' \ {w} = Unsent(n) \ {w}
      /\ Sent(n)' \ {w} = Sent(n) \ {w}
      /\ Failing(n)' \ {w} = Failing(n) \ {w}
  BY <1>2 DEF Unsent, Sent, Failing, At
<1>4. PICK U, S, P : U = Unsent(n) \ {w} /\ S = Sent(n) \ {w} /\ P = Failing(n) \ {w}
  OBVIOUS
<1>5. /\ IsFiniteSet(U) /\ IsFiniteSet(S) /\ IsFiniteSet(P)
      /\ Cardinality(U) \in Nat /\ Cardinality(S) \in Nat /\ Cardinality(P) \in Nat
  BY <1>1, <1>4, CountWithout
<1>6. U \cap S = {} /\ (U \cup S) \cap P = {} /\ (U \cup S) \cup P \in SUBSET (Web \ {w})
  BY <1>1, <1>4 DEF Unsent, Sent, Failing, At
<1>7. IsFiniteSet(U \cup S) /\ Cardinality(U \cup S) = Cardinality(U) + Cardinality(S)
  BY <1>5, <1>6, DisjointCount
<1>8. Cardinality((U \cup S) \cup P) = Cardinality(U) + Cardinality(S) + Cardinality(P)
  BY <1>5, <1>6, <1>7, DisjointCount
<1>9. /\ IsFiniteSet(Web \ {w}) /\ Cardinality(Web \ {w}) \in Nat
      /\ Cardinality(Web) = Cardinality(Web \ {w}) + 1
  BY CountWithout
<1>10. Cardinality((U \cup S) \cup P) <= Cardinality(Web \ {w})
  BY <1>6, <1>9, FS_Subset
<1>11. Cardinality(U) + Cardinality(S) + Cardinality(P) + 1 <= Cardinality(Web)
  BY <1>5, <1>8, <1>9, <1>10
<1>12. /\ Cardinality(Unsent(n)) = IF w \in Unsent(n) THEN Cardinality(U) + 1
                                   ELSE Cardinality(U)
       /\ Cardinality(Unsent(n)') = IF w \in Unsent(n)' THEN Cardinality(U) + 1
                                    ELSE Cardinality(U)
  BY <1>1, <1>3, <1>4, CountWithout
<1>13. /\ Cardinality(Sent(n)) = IF w \in Sent(n) THEN Cardinality(S) + 1
                                 ELSE Cardinality(S)
       /\ Cardinality(Sent(n)') = IF w \in Sent(n)' THEN Cardinality(S) + 1
                                  ELSE Cardinality(S)
  BY <1>1, <1>3, <1>4, CountWithout
<1>14. /\ Cardinality(Failing(n)) = IF w \in Failing(n) THEN Cardinality(P) + 1
                                    ELSE Cardinality(P)
       /\ Cardinality(Failing(n)') = IF w \in Failing(n)' THEN Cardinality(P) + 1
                                     ELSE Cardinality(P)
  BY <1>1, <1>3, <1>4, CountWithout
<1> QED  BY <1>5, <1>11, <1>12, <1>13, <1>14

\* SentOK in the numbers of Kept.
LEMMA SentIsKept ==
  ASSUME NEW n
  PROVE  /\ SentOK(n) <=>
              Kept(Cardinality(Web), fired[n], log[n], Cardinality(Unsent(n)),
                   Cardinality(Sent(n)), Cardinality(Failing(n)), faults)
         /\ SentOK(n)' <=>
              Kept(Cardinality(Web), fired'[n], log'[n],
                   Cardinality(Unsent(n)'), Cardinality(Sent(n)'),
                   Cardinality(Failing(n)'), faults')
BY DEF SentOK, Kept

\* Where a worker stands with notification n.
LEMMA Standing ==
  ASSUME NEW w \in Web, NEW n
  PROVE  /\ w \in Unsent(n) <=> /\ task[w].kind = "notify" /\ task[w].ver = n
                                /\ task[w].pc \in {"find", "save", "signal"}
         /\ w \in Sent(n) <=> /\ task[w].kind = "notify" /\ task[w].ver = n
                              /\ task[w].pc = "settle" /\ task[w].outcome = "PROCESSED"
         /\ w \in Failing(n) <=> /\ task[w].kind = "notify" /\ task[w].ver = n
                                 /\ task[w].pc = "fail"
         /\ w \in Unsent(n)' <=> /\ task'[w].kind = "notify" /\ task'[w].ver = n
                                 /\ task'[w].pc \in {"find", "save", "signal"}
         /\ w \in Sent(n)' <=> /\ task'[w].kind = "notify" /\ task'[w].ver = n
                               /\ task'[w].pc = "settle"
                               /\ task'[w].outcome = "PROCESSED"
         /\ w \in Failing(n)' <=> /\ task'[w].kind = "notify" /\ task'[w].ver = n
                                  /\ task'[w].pc = "fail"
BY DEF Unsent, Sent, Failing, At, Delivers

LEMMA StepKeepsSent ==
  ASSUME IInv, HasLog, NEW w \in Web, Alone(w), DeliveryOK(w),
         DeliveryStep(w) \/ Receives(w), NEW n \in Notes, SentOK(n)
  PROVE  SentOK(n)'
<1>1. PICK W, F, k, l, b, a :
        /\ W = Cardinality(Web) /\ F = fired[n] /\ k = faults
        /\ l = log[n] /\ b = task[w] /\ a = task'[w]
  OBVIOUS
<1>2. PICK u \in Nat, s \in Nat, p \in Nat :
        /\ u + s + p + 1 <= W
        /\ Cardinality(Unsent(n)) = IF w \in Unsent(n) THEN u + 1 ELSE u
        /\ Cardinality(Sent(n)) = IF w \in Sent(n) THEN s + 1 ELSE s
        /\ Cardinality(Failing(n)) = IF w \in Failing(n) THEN p + 1 ELSE p
        /\ Cardinality(Unsent(n)') = IF w \in Unsent(n)' THEN u + 1 ELSE u
        /\ Cardinality(Sent(n)') = IF w \in Sent(n)' THEN s + 1 ELSE s
        /\ Cardinality(Failing(n)') = IF w \in Failing(n)' THEN p + 1 ELSE p
  BY <1>1, Tally
<1>3. /\ W \in Nat /\ F \in Nat /\ k \in Nat
      /\ u + s + p + 1 <= W
      /\ log \in [Notes -> LogStatuses] /\ fired \in [Notes -> Nat]
      /\ w \in Workers
  BY <1>1, <1>2, WorkerAssumption, FS_CardinalityType DEF IInv, TypeOK, Workers
<1>4. b.kind = "notify" =>
        /\ b.pc \in {"find", "save", "signal", "settle", "fail"}
        /\ b.pc \in {"save", "signal"} => b.outcome = "PROCESSED"
        /\ b.pc = "settle" => b.outcome \in {"PROCESSED", "IGNORED"}
  BY <1>1, <1>3, TaskFacts DEF TaskOK, NotificationOK, DeliveryOK, Settled
<1>5. CASE ~ Delivers(b, n)
  <2>1. Kept(W, F, l, u, s, p, k)
    BY <1>1, <1>2, <1>5, SentIsKept, Standing DEF Delivers
  <2>2. CASE Receives(w) /\ a.ver = n
    <3>1. l \notin Settled /\ log'[n] \notin Settled /\ fired'[n] = F /\ faults' = k
      BY <1>1, <1>3, <2>2 DEF Receives, Settled
    <3>2. /\ a.kind = "notify" /\ a.ver = n
          /\ a.pc = "find" \/ (a.pc = "settle" /\ a.outcome = "IGNORED")
      BY <1>1, <2>2 DEF Receives
    <3>3. CASE a.pc = "find"
      <4>1. Kept(W, F, log'[n], u + 1, s, p, k)
        BY <1>3, <2>1, <3>1, MovesFromElsewhere
      <4> QED  BY <1>1, <1>2, <3>1, <3>2, <3>3, <4>1, SentIsKept, Standing
    <3>4. CASE a.pc = "settle" /\ a.outcome = "IGNORED"
      <4>1. Kept(W, F, log'[n], u, s, p, k)
        BY <1>3, <2>1, <3>1, MovesFromElsewhere
      <4> QED  BY <1>1, <1>2, <3>1, <3>2, <3>4, <4>1, SentIsKept, Standing
    <3> QED  BY <3>2, <3>3, <3>4
  <2>3. CASE ~ (Receives(w) /\ a.ver = n)
    <3>1. /\ fired'[n] = F /\ log'[n] = l
          /\ faults' \in {k, k + 1}
          /\ ~ Delivers(a, n)
      <4>1. CASE Receives(w)
        BY <1>1, <1>3, <2>3, <4>1 DEF Receives, Delivers
      <4>2. CASE GetsOn(w)
        BY <1>1, <1>3, <1>5, <4>2 DEF GetsOn, Counts, Delivers
      <4>3. CASE LetsGo(w)
        BY <1>1, <1>3, <1>5, <4>3 DEF LetsGo, Delivers
      <4>4. CASE Elsewhere(w)
        BY <1>1, <4>4 DEF Elsewhere, Delivers
      <4> QED  BY <4>1, <4>2, <4>3, <4>4 DEF DeliveryStep
    <3>2. Kept(W, F, l, u, s, p, k) /\ Kept(W, F, l, u, s, p, k + 1)
      BY <1>3, <2>1, MovesFromElsewhere
    <3> QED  BY <1>1, <1>2, <3>1, <3>2, SentIsKept, Standing DEF Delivers
  <2> QED  BY <2>2, <2>3
<1>6. CASE Delivers(b, n) /\ GetsOn(w)
  <2>1. /\ log'[n] = l /\ b.kind = "notify" /\ b.ver = n
        /\ a.kind = "notify" /\ a.ver = n
    BY <1>1, <1>6 DEF GetsOn, Delivers
  <2>2. CASE b.pc \in {"find", "save"} /\ a.pc \in {"save", "signal"}
    BY <1>1, <1>2, <1>6, <2>1, <2>2, SentIsKept, Standing DEF GetsOn
  <2>3. CASE b.pc = "find" /\ a.pc = "settle"
    <3>1. fired'[n] = F /\ faults' = k /\ a.outcome = "IGNORED"
      BY <1>1, <1>6, <2>3 DEF GetsOn
    <3>2. Kept(W, F, l, u + 1, s, p, k)
      BY <1>1, <1>2, <2>1, <2>3, SentIsKept, Standing
    <3>3. Kept(W, F, l, u, s, p, k)
      BY <1>3, <3>2, MovesFromUnsent
    <3> QED  BY <1>1, <1>2, <2>1, <2>3, <3>1, <3>3, SentIsKept, Standing
  <2>4. CASE b.pc = "signal" /\ a.pc = "settle"
    <3>1. fired'[n] \in {F, F + 1} /\ faults' = k /\ a.outcome = "PROCESSED"
      BY <1>1, <1>3, <1>4, <1>6, <2>1, <2>4 DEF GetsOn, Counts
    <3>2. Kept(W, F, l, u + 1, s, p, k)
      BY <1>1, <1>2, <2>1, <2>4, SentIsKept, Standing
    <3>3. Kept(W, F, l, u, s + 1, p, k) /\ Kept(W, F + 1, l, u, s + 1, p, k)
      BY <1>3, <3>2, MovesFromUnsent
    <3> QED  BY <1>1, <1>2, <2>1, <2>4, <3>1, <3>3, SentIsKept, Standing
  <2>5. CASE b.pc = "settle" /\ a.pc = "fail"
    <3>1. fired'[n] = F /\ faults' = k + 1
      BY <1>1, <1>6, <2>5 DEF GetsOn
    <3>2. Kept(W, F, l, u, s, p, k) \/ Kept(W, F, l, u, s + 1, p, k)
      BY <1>1, <1>2, <2>1, <2>5, SentIsKept, Standing
    <3>3. Kept(W, F, l, u, s, p + 1, k + 1)
      BY <1>3, <3>2, MovesFromElsewhere, MovesFromSent
    <3> QED  BY <1>1, <1>2, <2>1, <2>5, <3>1, <3>3, SentIsKept, Standing
  <2>6. CASE b.pc \in {"find", "save", "signal"} /\ a.pc = "fail"
    <3>1. fired'[n] \in {F, F + 1} /\ faults' = k + 1
      BY <1>1, <1>3, <1>6, <2>1, <2>6 DEF GetsOn, Counts
    <3>2. Kept(W, F, l, u + 1, s, p, k)
      BY <1>1, <1>2, <2>1, <2>6, SentIsKept, Standing
    <3>3. Kept(W, F, l, u, s, p + 1, k + 1) /\ Kept(W, F + 1, l, u, s, p + 1, k + 1)
      BY <1>3, <3>2, MovesFromUnsent
    <3> QED  BY <1>1, <1>2, <2>1, <2>6, <3>1, <3>3, SentIsKept, Standing
  <2> QED  BY <1>1, <1>6, <2>2, <2>3, <2>4, <2>5, <2>6 DEF GetsOn
<1>7. CASE Delivers(b, n) /\ LetsGo(w)
  <2>1. /\ fired'[n] = F /\ b.kind = "notify" /\ b.ver = n /\ a.kind # "notify"
    BY <1>1, <1>7 DEF LetsGo, Delivers
  <2>2. CASE b.pc = "settle" /\ UNCHANGED faults /\ log' = [log EXCEPT ![n] = b.outcome]
    <3>1. log'[n] \in Settled /\ faults' = k
      BY <1>1, <1>3, <1>4, <2>1, <2>2 DEF Settled
    <3>2. Kept(W, F, l, u, s, p, k) \/ Kept(W, F, l, u, s + 1, p, k)
      BY <1>1, <1>2, <2>1, <2>2, SentIsKept, Standing
    <3>3. Kept(W, F, log'[n], u, s, p, k)
      BY <1>3, <3>1, <3>2, MovesFromElsewhere, MovesFromSent
    <3> QED  BY <1>1, <1>2, <2>1, <3>1, <3>3, SentIsKept, Standing
  <2>3. CASE b.pc = "fail" /\ UNCHANGED faults /\ log' = [log EXCEPT ![n] = "FAILED"]
    <3>1. log'[n] \notin Settled /\ faults' = k
      BY <1>1, <1>3, <2>3 DEF Settled
    <3>2. Kept(W, F, l, u, s, p + 1, k)
      BY <1>1, <1>2, <2>1, <2>3, SentIsKept, Standing
    <3>3. Kept(W, F, log'[n], u, s, p, k)
      BY <1>3, <3>1, <3>2, MovesFromFailing
    <3> QED  BY <1>1, <1>2, <2>1, <3>1, <3>3, SentIsKept, Standing
  <2>4. CASE UNCHANGED log /\ faults' = faults + 1
    <3>1. \/ Kept(W, F, l, u, s, p, k) \/ Kept(W, F, l, u + 1, s, p, k)
          \/ Kept(W, F, l, u, s + 1, p, k) \/ Kept(W, F, l, u, s, p + 1, k)
      BY <1>1, <1>2, <2>1, <1>4, SentIsKept, Standing
    <3>2. Kept(W, F, l, u, s, p, k + 1)
      BY <1>3, <3>1, MovesFromElsewhere, MovesFromUnsent,
         MovesFromSent, MovesFromFailing
    <3> QED  BY <1>1, <1>2, <2>1, <2>4, <3>2, SentIsKept, Standing
  <2> QED  BY <1>1, <1>7, <2>1, <2>2, <2>3, <2>4 DEF LetsGo
<1> QED  BY <1>1, <1>5, <1>6, <1>7 DEF DeliveryStep, Elsewhere, Receives, Delivers

\* What the step of a job does to the counts: nothing.
LEMMA JobKeepsSent ==
  ASSUME IInv, NEW w \in Workers, w \notin Web, Alone(w), DeliveryOK(w), DeliveryStep(w),
         NEW n \in Notes, SentOK(n)
  PROVE  SentOK(n)'
<1>1. task[w].kind # "notify"
  BY DEF DeliveryOK
<1>2. UNCHANGED <<log, fired>> /\ faults' \in {faults, faults + 1}
  BY <1>1 DEF DeliveryStep, GetsOn, LetsGo, Elsewhere
<1>3. \A x \in Web : task'[x] = task[x]
  BY DEF Alone, Workers
<1>4. Unsent(n)' = Unsent(n) /\ Sent(n)' = Sent(n) /\ Failing(n)' = Failing(n)
  BY <1>3 DEF Unsent, Sent, Failing, At
<1>5. PICK W, U, S, P, F, k :
        /\ W = Cardinality(Web) /\ U = Cardinality(Unsent(n)) /\ S = Cardinality(Sent(n))
        /\ P = Cardinality(Failing(n)) /\ F = fired[n] /\ k = faults
  OBVIOUS
<1>6. W \in Nat /\ U \in Nat /\ S \in Nat /\ P \in Nat /\ F \in Nat /\ k \in Nat
  <2>1. Unsent(n) \in SUBSET Web /\ Sent(n) \in SUBSET Web /\ Failing(n) \in SUBSET Web
    BY DEF Unsent, Sent, Failing, At
  <2>2. \A T \in SUBSET Web : Cardinality(T) \in Nat
    BY WorkerAssumption, FS_Subset, FS_CardinalityType
  <2> QED  BY <1>5, <2>1, <2>2 DEF IInv, TypeOK
<1>7. ASSUME NEW l, Kept(W, F, l, U, S, P, k)
      PROVE  Kept(W, F, l, U, S, P, k + 1)
  <2>1. PICK f \in Nat : f = k - P
    BY <1>6, <1>7 DEF Kept
  <2>2. k + 1 - P = f + 1 /\ k + 1 - P + 1 = f + 2 /\ k - P + 1 = f + 1
    BY <1>6, <2>1
  <2> QED  BY <1>6, <1>7, <2>1, <2>2, Products DEF Kept
<1>8. PICK l : l = log[n]
  OBVIOUS
<1>9. Kept(W, F, l, U, S, P, k)
  BY <1>5, <1>8, SentIsKept
<1>10. Kept(W, F, l, U, S, P, k + 1)
  BY <1>7, <1>9
<1> QED  BY <1>2, <1>4, <1>5, <1>8, <1>9, <1>10, SentIsKept

LEMMA NextKeepsFired ==
  ASSUME IInv, HasLog, FiredOK, [Next]_vars
  PROVE  FiredOK'
<1>1. CASE UNCHANGED <<log, fired, task, faults>>
  <2>1. ASSUME NEW n \in Notes
        PROVE  SentOK(n)'
    <3>1. Unsent(n)' = Unsent(n) /\ Sent(n)' = Sent(n) /\ Failing(n)' = Failing(n)
      BY <1>1 DEF Unsent, Sent, Failing, At
    <3> QED  BY <1>1, <3>1, SentIsKept DEF FiredOK
  <2>2. ASSUME NEW x \in Workers
        PROVE  DeliveryOK(x)'
    BY <1>1 DEF FiredOK, DeliveryOK
  <2> QED  BY <2>1, <2>2 DEF FiredOK
<1>2. ASSUME NEW w \in Workers, Alone(w), DeliveryStep(w) \/ (w \in Web /\ Receives(w))
      PROVE  FiredOK'
  <2>1. DeliveryOK(w) /\ \A n \in Notes : SentOK(n)
    BY DEF FiredOK
  <2>2. ASSUME NEW n \in Notes
        PROVE  SentOK(n)'
    BY <1>2, <2>1, StepKeepsSent, JobKeepsSent
  <2>3. ASSUME NEW x \in Workers
        PROVE  DeliveryOK(x)'
    <3>1. CASE x # w
      <4>1. task'[x] = task[x] /\ DeliveryOK(x)
        BY <1>2, <3>1 DEF Alone, FiredOK
      <4> QED  BY <4>1 DEF DeliveryOK
    <3>2. CASE x = w
      <4>1. CASE Receives(w)
        BY <1>2, <2>1, <3>2, <4>1 DEF Receives, DeliveryOK, DeliveryStep, GetsOn, LetsGo,
                                    Elsewhere, Settled
      <4>2. CASE GetsOn(w)
        BY <2>1, <3>2, <4>2 DEF GetsOn, DeliveryOK, Settled
      <4>3. CASE LetsGo(w) \/ Elsewhere(w)
        BY <3>2, <4>3 DEF LetsGo, Elsewhere, DeliveryOK
      <4> QED  BY <1>2, <4>1, <4>2, <4>3 DEF DeliveryStep
    <3> QED  BY <3>1, <3>2
  <2> QED  BY <2>2, <2>3 DEF FiredOK
<1> QED  BY <1>1, <1>2, DeliverySteps

\* With a notification log, the signals sent for a notification are bounded by
\* the workers and the failures, whatever is delivered again, overlaps, fails or
\* dies (handle_notification).
THEOREM SignalsAreBounded == Spec => []SignalsBounded
<1>1. CASE ~ HasLog
  <2>1. SignalsBounded
    BY <1>1 DEF SignalsBounded
  <2> QED  BY <2>1, PTL
<1>2. CASE HasLog
  <2>1. Init => FiredOK
    <3>1. ASSUME Init, NEW n \in Notes
          PROVE  SentOK(n)
      <4>1. Unsent(n) = {} /\ Sent(n) = {} /\ Failing(n) = {}
        BY <3>1 DEF Init, Unsent, Sent, Failing, At, Delivers, Idle, Workers
      <4>2. fired[n] = 0 /\ faults = 0 /\ log[n] \notin Settled
        BY <3>1 DEF Init, Settled
      <4>3. Cardinality({}) = 0 /\ Cardinality(Web) \in Nat
        BY FS_EmptySet, WorkerAssumption, FS_CardinalityType
      <4> QED  BY <4>1, <4>2, <4>3 DEF SentOK
    <3>2. ASSUME Init, NEW w \in Workers
          PROVE  DeliveryOK(w)
      BY <3>2 DEF Init, DeliveryOK, Idle
    <3> QED  BY <3>1, <3>2 DEF FiredOK
  <2>2. IInv /\ FiredOK /\ [Next]_vars => FiredOK'
    BY <1>2, NextKeepsFired
  <2>3. IInv /\ FiredOK => SignalsBounded
    <3>1. ASSUME IInv, FiredOK, NEW n \in Notes
          PROVE  fired[n] <= Cardinality(Web) * (faults + 1)
      <4>1. PICK W, U, S, P, F, k :
              /\ W = Cardinality(Web) /\ U = Cardinality(Unsent(n))
              /\ S = Cardinality(Sent(n)) /\ P = Cardinality(Failing(n))
              /\ F = fired[n] /\ k = faults
        OBVIOUS
      <4>2. /\ W \in Nat /\ U \in Nat /\ S \in Nat /\ P \in Nat /\ F \in Nat /\ k \in Nat
            /\ S + P <= W
        <5>1. /\ Unsent(n) \in SUBSET Web /\ Sent(n) \in SUBSET Web
              /\ Failing(n) \in SUBSET Web
          BY DEF Unsent, Sent, Failing, At
        <5>2. \A T \in SUBSET Web : IsFiniteSet(T) /\ Cardinality(T) \in Nat
                                    /\ Cardinality(T) <= Cardinality(Web)
          BY WorkerAssumption, FS_Subset, FS_CardinalityType
        <5>3. Sent(n) \cap Failing(n) = {} /\ Sent(n) \cup Failing(n) \in SUBSET Web
          BY <5>1 DEF Sent, Failing, At
        <5>4. Cardinality(Sent(n) \cup Failing(n)) = S + P
          BY <4>1, <5>1, <5>2, <5>3, DisjointCount
        <5> QED  BY <3>1, <4>1, <5>1, <5>2, <5>3, <5>4 DEF IInv, TypeOK
      <4>3. PICK l : l = log[n]
        OBVIOUS
      <4>4. Kept(W, F, l, U, S, P, k)
        BY <3>1, <4>1, <4>3, SentIsKept DEF FiredOK
      <4>5. PICK f \in Nat : f = k - P
        BY <4>2, <4>4 DEF Kept
      <4>6. k + 1 = f + 1 + P /\ k - P + 1 = f + 1
        BY <4>2, <4>5
      <4>7. W * (f + 1) = W * f + W /\ W * (f + 1 + P) = W * f + W + W * P
            /\ W * f \in Nat /\ W * P \in Nat
        BY <4>2, Products
      <4>8. F <= W * (f + 1)
        BY <4>2, <4>4, <4>5, <4>6, <4>7 DEF Kept
      <4>9. F <= W * (k + 1)
        BY <4>2, <4>6, <4>7, <4>8
      <4> QED  BY <4>1, <4>9
    <3> QED  BY <3>1 DEF SignalsBounded
  <2> QED  BY <2>1, <2>2, <2>3, Invariance, PTL DEF Spec
<1> QED  BY <1>1, <1>2

=============================================================================
