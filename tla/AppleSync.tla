----------------------------- MODULE AppleSync -----------------------------
(***************************************************************************)
(* The App Store synchronisation of createus_common.billing: the service   *)
(* AppleSubscriptionSyncService with the three callers that reach it -- the *)
(* activation endpoint, the Server Notifications V2 webhook and the        *)
(* reconciliation command -- over one database and one App Store.          *)
(*                                                                         *)
(* Web and Jobs are the processes that run them.  A request is split where *)
(* another process can run: at every database statement or transaction, at *)
(* the App Store Server API call, and between the commit and the signal.   *)
(* A row read from the database is a copy in the worker's task until it is *)
(* written back, whole, by save().                                         *)
(***************************************************************************)
EXTENDS Naturals, Sequences, FiniteSets, Entitlement

CONSTANTS Web,          \* workers that serve HTTP requests
          Jobs,         \* workers that run sync_appstore_subscriptions
          Groups,       \* sets of subscriptions of one subscription group
          MaxVersion,   \* bound: changes the App Store makes
          LapseStates,  \* bound: the states a subscription may lapse into
          MaxFaults,    \* bound: crashes, exceptions and failed API calls
          BatchSize,    \* --batch-size of the command
          Shapes,       \* which payloads an API answer carries
          Bare,         \* notifications without a transaction or a status
          Dated,        \* subscriptions that report an original_purchase_date
          HasLog,       \* is a store notification model configured?
          HasLedger,    \* is a store transaction model configured?
          Watched,      \* users whose receivers are recorded in told
          Counted       \* notifications whose signals are counted in fired

Workers == Web \cup Jobs
Versions == 1 .. MaxVersion
Notes == Versions   \* notificationUUIDs: one per change

\* The subscriptions an answer about subscription o may be of.
Group(o) == {o} \cup UNION {g \in Groups : o \in g}

ASSUME WorkerAssumption == Web \cap Jobs = {} /\ IsFiniteSet(Web)
ASSUME BoundAssumption ==
  MaxVersion \in Nat /\ MaxFaults \in Nat /\ BatchSize \in Nat
ASSUME PayloadAssumption ==
  /\ LapseStates \subseteq {"GRACE_PERIOD", "BILLING_RETRY", "EXPIRED"}
  /\ Shapes \subseteq [tx: BOOLEAN, renewal: BOOLEAN]
  /\ Groups \subseteq SUBSET Origs
  /\ Bare \subseteq Notes
  /\ Dated \subseteq Origs
  /\ Watched \subseteq Users /\ Counted \subseteq Notes
ASSUME ConfigurationAssumption == HasLog \in BOOLEAN /\ HasLedger \in BOOLEAN

VARIABLES
  history,   \* the App Store: the changes of all subscriptions, in order
  rows,      \* the subscription table, by its one-to-one user column
  nextPk,    \* the next primary key of that table
  ledger,    \* the transaction table: entry each transaction_id was copied from
  log,       \* the notification table: processing_status by notification_uuid
  acked,     \* notifications some delivery of which was answered 200
  told,      \* project receivers: the last signal they were sent about a user
  fired,     \* signals sent on behalf of a notification
  handled,   \* notifications that were committed, or found no row to apply to
  task,      \* what each worker is doing
  faults     \* failures so far

vars == <<history, rows, nextPk, ledger, log, acked, told, fired, handled,
          task, faults>>
store == <<rows, nextPk, ledger>>
ghosts == <<told, fired, handled>>

----------------------------------------------------------------------------
(* Types *)

\* A change: the state a subscription is in from now on and its transaction,
\* whose id is the number of the entry of its purchase; first is the entry of
\* the original purchase.
Entries ==
  [orig: Origs, state: StoreStates, txid: Nat, first: Nat, revoked: BOOLEAN,
   renewed: BOOLEAN]

LogStatuses == {"none", "PENDING", "PROCESSED", "FAILED", "IGNORED"}
Settled == {"PROCESSED", "IGNORED"}

Signals == {"none", "activated", "renewed", "entered_grace_period",
            "entered_billing_retry", "expired", "revoked"}

Tasks ==
  [pc: {"idle", "fetch", "link", "find", "save", "signal", "settle", "fail",
        "next"},
   kind: {"none", "activate", "notify", "sync"},
   user: Users \cup {NoUser},        \* the account of an activation
   orig: Origs \cup {NoOrig},
   ver: Nat,                        \* entry the client's JWS or the note is of
   since: Nat,                      \* entries there were when it was received
   obs: Observations,
   row: SubscriptionRows,           \* the copy in memory
   isNew: BOOLEAN,
   prev: SubscriptionStatuses,      \* previous_status
   outcome: LogStatuses,
   queue: SUBSET Users]             \* rows the sweep still has to visit

Idle ==
  [pc |-> "idle", kind |-> "none", user |-> NoUser, orig |-> NoOrig,
   ver |-> 0, since |-> 0, obs |-> NoObservation, row |-> NoRow,
   isNew |-> FALSE, prev |-> "TRIALING", outcome |-> "none", queue |-> {}]

TypeOK ==
  /\ history \in Seq(Entries)
  /\ rows \in [Users -> SubscriptionRows]
  /\ nextPk \in Nat \ {0}
  /\ ledger \in [Versions -> Nat]
  /\ log \in [Notes -> LogStatuses]
  /\ acked \subseteq Notes
  /\ told \in [Users -> Signals]
  /\ fired \in [Notes -> Nat]
  /\ handled \subseteq Notes
  /\ task \in [Workers -> Tasks]
  /\ faults \in Nat

----------------------------------------------------------------------------
(* The App Store (external): purchases, renewals, lapses and refunds *)

\* What may come after entry e as entry number v: a charge for a new period
\* (or a new purchase), a lapse of the running one, or its refund.
Following(e, v) ==
  {f \in [orig: {e.orig}, state: StoreStates, txid: {e.txid, v},
          first: {e.first}, revoked: BOOLEAN, renewed: BOOLEAN] :
     \/ /\ f.state = "ACTIVE" /\ f.txid = v /\ ~f.revoked
        /\ f.renewed <=> e.state \notin {"EXPIRED", "REVOKED"}
     \/ /\ f.state \in LapseStates /\ f.txid = e.txid /\ ~f.revoked
        /\ f.renewed = e.renewed
        /\ \/ e.state = "ACTIVE"
           \/ e.state = "GRACE_PERIOD" /\ f.state # "GRACE_PERIOD"
           \/ e.state = "BILLING_RETRY" /\ f.state = "EXPIRED"
     \/ /\ f.state = "REVOKED" /\ e.state # "REVOKED"
        /\ f.txid = e.txid /\ f.revoked /\ f.renewed = e.renewed}

\* Subscription o is bought as entry number v.
Purchase(o, v) ==
  [orig |-> o, state |-> "ACTIVE", txid |-> v, first |-> v, revoked |-> FALSE,
   renewed |-> FALSE]

\* The newest entries of the subscriptions, and the one of subscription o.
Newest ==
  {v \in 1 .. Len(history) :
     \A x \in v + 1 .. Len(history) : history[x].orig # history[v].orig}
Latest(o) == {v \in Newest : history[v].orig = o}

AppStoreChanges(o) ==
  LET n == Len(history) + 1
  IN /\ n <= MaxVersion
     /\ \E e \in IF Latest(o) = {} THEN {Purchase(o, n)}
                 ELSE UNION {Following(history[v], n) : v \in Latest(o)} :
          history' = Append(history, e)
     /\ UNCHANGED <<store, log, acked, ghosts, task, faults>>

\* The observation made of entry v: its state, the transaction as of entry tv
\* and the renewal info as of entry rv (0: not in the payload).
Observe(v, tv, rv) ==
  [state   |-> history[v].state,
   tx      |-> tv,
   txid    |-> IF tv = 0 THEN 0 ELSE history[tv].txid,
   revoked |-> tv > 0 /\ history[tv].revoked,
   renewed |-> tv > 0 /\ history[tv].renewed,
   start   |-> IF tv = 0 THEN 0
               ELSE IF history[tv].orig \in Dated THEN history[tv].first
               ELSE history[tv].txid,
   renewal |-> rv]

----------------------------------------------------------------------------
(* The database, as the services query it *)

\* Mutant: the query forgets the external id.
AnyLinked(o) == {u \in Users : rows[u].pk > 0}

\* The rows filter(external_subscription_id = o) returns.
Linked(o) == {u \in Users : rows[u].pk > 0 /\ rows[u].ext = o}

\* find_subscription_by_external_id: the first of them, by primary key.
FirstLinked(o) ==
  CHOOSE u \in Linked(o) : \A x \in Linked(o) : rows[u].pk <= rows[x].pk

Advance(w, t) == task' = [task EXCEPT ![w] = t]
Done(w) == Advance(w, Idle)

\* A sweep goes on to its next row, if there is one; a request is over.
NextRow(t) ==
  IF t.kind = "sync" /\ t.queue # {}
  THEN [Idle EXCEPT !.pc = "next", !.kind = "sync", !.queue = t.queue]
  ELSE Idle

----------------------------------------------------------------------------
(* Requests arrive *)

\* POST activate by user u with a JWS the App Store signed at entry v.
Activate(w, u, v) ==
  /\ task[w].pc = "idle"
  /\ v \in 1 .. Len(history)
  /\ Advance(w, [Idle EXCEPT !.pc = "fetch", !.kind = "activate", !.user = u,
                             !.orig = history[v].orig, !.ver = v,
                             !.since = Len(history)])
  /\ UNCHANGED <<history, store, log, acked, ghosts, faults>>

\* Mutant: an IGNORED notification is processed again on redelivery.
AlreadyProcessed(n) == log[n] = "PROCESSED"

\* The delivery of a notification already settled is answered 200 at once.
AlreadySettled(n) == log[n] \in Settled

DuplicateDelivery(w, n) ==
  /\ task[w].pc = "idle"
  /\ n \in 1 .. Len(history)
  /\ AlreadySettled(n)
  /\ acked' = acked \cup {n}
  /\ UNCHANGED <<history, store, log, ghosts, task, faults>>

\* POST of a notification: verify, get_or_create its log row, and go on
\* unless it is settled.  One without a transaction or status is IGNORED.
ReceiveNotification(w, n) ==
  /\ task[w].pc = "idle"
  /\ n \in 1 .. Len(history)
  /\ ~AlreadySettled(n)
  /\ log' = IF HasLog /\ log[n] = "none" THEN [log EXCEPT ![n] = "PENDING"] ELSE log
  /\ Advance(w, [Idle EXCEPT !.pc = IF n \in Bare THEN "settle" ELSE "find",
                             !.kind = "notify", !.orig = history[n].orig, !.ver = n,
                             !.obs = IF n \in Bare THEN NoObservation
                                     ELSE Observe(n, n, n),
                             !.outcome = "IGNORED"])
  /\ UNCHANGED <<history, store, acked, ghosts, faults>>

\* The command evaluates its queryset: at most BatchSize syncable rows.
StartSweep(w) ==
  /\ task[w].pc = "idle"
  /\ LET due == {u \in Users : rows[u].pk > 0 /\ rows[u].status \in SyncableStatuses}
     IN \E q \in SUBSET due :
          /\ q # {}
          /\ IF Cardinality(due) <= BatchSize THEN q = due
             ELSE Cardinality(q) = BatchSize
          /\ Advance(w, [Idle EXCEPT !.pc = "next", !.kind = "sync", !.queue = q])
  /\ UNCHANGED <<history, store, log, acked, ghosts, faults>>

\* sync_subscription of the next row's external id: the row is read again.
SyncNext(w) ==
  /\ task[w].pc = "next"
  /\ \E u \in task[w].queue :
       LET o == rows[u].ext
       IN Advance(w, [task[w] EXCEPT !.pc = "fetch", !.orig = o,
                                     !.row = rows[FirstLinked(o)],
                                     !.queue = @ \ {u}])
  /\ UNCHANGED <<history, store, log, acked, ghosts, faults>>

----------------------------------------------------------------------------
(* The App Store Server API *)

\* The entries _select_snapshot may choose from an answer about o, a shape for
\* each of its items: the item of o if it carries its transaction, or else the
\* most recently purchased one, where no transaction counts as the oldest.
Selected(o, answer) ==
  LET asked == {v \in DOMAIN answer : answer[v].tx /\ history[v].orig = o}
      Date(v) == IF answer[v].tx THEN history[v].txid ELSE 0
  IN IF asked # {} THEN asked
     ELSE {v \in DOMAIN answer : \A x \in DOMAIN answer : Date(x) <= Date(v)}

\* Mutant: activation trusts the JWS the client submitted.
TrustingFetch(w) ==
  /\ task[w].pc = "fetch"
  /\ LET t == task[w]
     IN \E v \in IF t.kind = "activate" THEN {t.ver} ELSE Latest(t.orig) :
          Advance(w, [t EXCEPT !.pc = IF t.kind = "activate" THEN "link" ELSE "save",
                               !.obs = Observe(v, v, v)])
  /\ UNCHANGED <<history, store, log, acked, ghosts, faults>>

\* get_subscription_statuses and _select_snapshot: the newest entries of some
\* subscriptions of the group, for an item with an unknown status is skipped.
\* If the one selected carries no transaction, activation falls back on the
\* client's.
Fetch(w) ==
  /\ task[w].pc = "fetch"
  /\ LET t == task[w]
     IN \E items \in SUBSET {v \in Newest : history[v].orig \in Group(t.orig)} :
        \E answer \in [items -> Shapes] :
        \E v \in Selected(t.orig, answer) :
          Advance(w, [t EXCEPT
            !.pc  = IF t.kind = "activate" THEN "link" ELSE "save",
            !.obs = Observe(v, IF answer[v].tx THEN v ELSE t.ver,
                            IF answer[v].renewal THEN v ELSE 0)])
  /\ UNCHANGED <<history, store, log, acked, ghosts, faults>>

\* StoreAPIException, or SubscriptionException for an empty answer: the
\* activation is answered 502 or 409, the sweep goes on to its next row.
FetchFails(w) ==
  /\ task[w].pc = "fetch"
  /\ faults < MaxFaults
  /\ faults' = faults + 1
  /\ Advance(w, NextRow(task[w]))
  /\ UNCHANGED <<history, store, log, acked, ghosts>>

----------------------------------------------------------------------------
(* The entitlement engine *)

\* Mutant: get_or_create_for_user returns another user's row.
UncheckedLink(w) ==
  /\ task[w].pc = "link"
  /\ LET t == task[w]
         owner == FirstLinked(t.orig)
     IN Advance(w, [t EXCEPT !.pc  = "save",
                             !.row = IF Linked(t.orig) = {}
                                     THEN NewRow(t.user, t.orig)
                                     ELSE rows[owner]])
  /\ UNCHANGED <<history, store, log, acked, ghosts, faults>>

\* Mutant: the row is looked up by its user, and linked anew.
RelinkingLink(w) ==
  /\ task[w].pc = "link"
  /\ LET t == task[w]
     IN Advance(w, [t EXCEPT !.pc  = "save",
                             !.row = IF rows[t.user].pk = 0
                                     THEN NewRow(t.user, t.orig)
                                     ELSE [rows[t.user] EXCEPT !.ext = t.orig]])
  /\ UNCHANGED <<history, store, log, acked, ghosts, faults>>

\* Mutant: a subscription that is linked already is not refreshed.
LinkOnce(w) ==
  /\ task[w].pc = "link"
  /\ LET t == task[w]
     IN Advance(w, IF Linked(t.orig) = {}
                   THEN [t EXCEPT !.pc = "save", !.row = NewRow(t.user, t.orig)]
                   ELSE Idle)
  /\ UNCHANGED <<history, store, log, acked, ghosts, faults>>

\* get_or_create_for_user: a subscription linked to another user is refused
\* (409), the user's own is taken, an unknown one starts as an unsaved row.
Link(w) ==
  /\ task[w].pc = "link"
  /\ LET t == task[w]
         owner == FirstLinked(t.orig)
     IN Advance(w, IF Linked(t.orig) = {}
                   THEN [t EXCEPT !.pc = "save", !.row = NewRow(t.user, t.orig)]
                   ELSE IF owner = t.user
                        THEN [t EXCEPT !.pc = "save", !.row = rows[owner]]
                        ELSE Idle)
  /\ UNCHANGED <<history, store, log, acked, ghosts, faults>>

\* handle_notification looks its subscription up.
FindForNotification(w) ==
  /\ task[w].pc = "find"
  /\ LET t == task[w]
         owner == FirstLinked(t.orig)
     IN IF Linked(t.orig) = {}
        THEN /\ Advance(w, [t EXCEPT !.pc = "settle", !.outcome = "IGNORED"])
             /\ handled' = handled \cup {t.ver}
        ELSE /\ Advance(w, [t EXCEPT !.pc = "save", !.row = rows[owner],
                                     !.outcome = "PROCESSED"])
             /\ UNCHANGED handled
  /\ UNCHANGED <<history, store, log, acked, told, fired, faults>>

\* Mutant: a transaction is recorded only if it changes the status.
CommitOnTransition(w, r, obs) ==
  /\ rows' = [rows EXCEPT ![r.user] = r]
  /\ ledger' = IF HasLedger /\ obs.tx > 0 /\ r.status # task[w].row.status
               THEN [ledger EXCEPT ![obs.txid] = obs.tx] ELSE ledger
  /\ handled' = IF task[w].kind = "notify"
                THEN handled \cup {task[w].ver} ELSE handled
  /\ Advance(w, [task[w] EXCEPT !.pc = "signal", !.row = r,
                                !.isNew = task[w].row.pk = 0,
                                !.prev = task[w].row.status])
  /\ UNCHANGED <<history, log, acked, told, fired, faults>>

\* apply_state's transaction: row r is saved with the fields of observation
\* obs, the transaction is recorded, and the signal remains to be sent.
Commit(w, r, obs) ==
  /\ rows' = [rows EXCEPT ![r.user] = r]
  /\ ledger' = IF HasLedger /\ obs.tx > 0
               THEN [ledger EXCEPT ![obs.txid] = obs.tx] ELSE ledger
  /\ handled' = IF task[w].kind = "notify"
                THEN handled \cup {task[w].ver} ELSE handled
  /\ Advance(w, [task[w] EXCEPT !.pc = "signal", !.row = r,
                                !.isNew = task[w].row.pk = 0,
                                !.prev = task[w].row.status])
  /\ UNCHANGED <<history, log, acked, told, fired, faults>>

Insert(w) ==
  /\ task[w].pc = "save"
  /\ task[w].row.pk = 0
  /\ rows[task[w].row.user].pk = 0
  /\ Commit(w, [ApplyState(task[w].row, task[w].obs) EXCEPT !.pk = nextPk],
            task[w].obs)
  /\ nextPk' = nextPk + 1

\* The user has a row by now: the one-to-one column refuses a second one,
\* and IntegrityError is no BillingException, so the answer is a plain 500.
InsertConflict(w) ==
  /\ task[w].pc = "save"
  /\ task[w].row.pk = 0
  /\ rows[task[w].row.user].pk > 0
  /\ Done(w)
  /\ UNCHANGED <<history, store, log, acked, ghosts, faults>>

\* Every column of the copy is written, whatever the table holds by now.
Update(w) ==
  /\ task[w].pc = "save"
  /\ task[w].row.pk > 0
  /\ Commit(w, ApplyState(task[w].row, task[w].obs), task[w].obs)
  /\ UNCHANGED nextPk

\* Mutant: a signal is sent only if the status has changed.
SendOnTransition(w) ==
  LET t == task[w]
  IN /\ told' = IF t.row.user \in Watched /\ (t.isNew \/ t.prev # t.row.status)
                THEN [told EXCEPT ![t.row.user] = SignalFor(t.obs)] ELSE told
     /\ UNCHANGED <<fired, handled>>

\* The receivers run: told and fired record what they have been sent.
Send(w) ==
  LET t == task[w]
  IN /\ told' = IF t.row.user \in Watched
                THEN [told EXCEPT ![t.row.user] = SignalFor(t.obs)] ELSE told
     /\ fired' = IF t.kind = "notify" /\ t.ver \in Counted
                 THEN [fired EXCEPT ![t.ver] = @ + 1] ELSE fired
     /\ UNCHANGED handled

\* After the commit; then the notification is settled, the activation is
\* answered 200, the sweep goes on.
FireSignal(w) ==
  /\ task[w].pc = "signal"
  /\ Send(w)
  /\ Advance(w, IF task[w].kind = "notify" THEN [task[w] EXCEPT !.pc = "settle"]
                ELSE NextRow(task[w]))
  /\ UNCHANGED <<history, store, log, acked, faults>>

----------------------------------------------------------------------------
(* The outcome of a notification *)

SetLog(n, s) == log' = IF HasLog THEN [log EXCEPT ![n] = s] ELSE log

\* Mutant: the webhook swallows the exception, and answers 200.
SwallowingLogFailure(w) ==
  /\ task[w].pc = "fail"
  /\ SetLog(task[w].ver, "FAILED")
  /\ acked' = acked \cup {task[w].ver}
  /\ Done(w)
  /\ UNCHANGED <<history, store, ghosts, faults>>

\* Mutant: processing_status is missing from update_fields.
ForgetfulSettle(w) ==
  /\ task[w].pc = "settle"
  /\ acked' = acked \cup {task[w].ver}
  /\ Done(w)
  /\ UNCHANGED <<history, store, log, ghosts, faults>>

\* The log row is saved PROCESSED or IGNORED, and the delivery answered 200.
Settle(w) ==
  /\ task[w].pc = "settle"
  /\ SetLog(task[w].ver, task[w].outcome)
  /\ acked' = acked \cup {task[w].ver}
  /\ Done(w)
  /\ UNCHANGED <<history, store, ghosts, faults>>

\* The except branch: the log row is saved FAILED and the exception raised
\* again, so the App Store is answered 500 and retries.
LogFailure(w) ==
  /\ task[w].pc = "fail"
  /\ SetLog(task[w].ver, "FAILED")
  /\ Done(w)
  /\ UNCHANGED <<history, store, acked, ghosts, faults>>

----------------------------------------------------------------------------
(* Failures *)

\* What an exception that is no BillingException makes of a task: a
\* notification records it, a request ends in 500, a sweep is aborted.
Abort(t) == IF t.kind = "notify" THEN [t EXCEPT !.pc = "fail"] ELSE Idle

\* A database statement or the HTTP library raises; nothing is committed.
Raise(w) ==
  /\ task[w].pc \in {"fetch", "link", "find", "save", "settle", "next"}
  /\ faults < MaxFaults
  /\ faults' = faults + 1
  /\ Advance(w, Abort(task[w]))
  /\ UNCHANGED <<history, store, log, acked, ghosts>>

\* A receiver raises, after it and the ones before it have run: Signal.send
\* lets the exception out, and the commit stands.
ReceiverRaises(w) ==
  /\ task[w].pc = "signal"
  /\ faults < MaxFaults
  /\ faults' = faults + 1
  /\ Send(w)
  /\ Advance(w, Abort(task[w]))
  /\ UNCHANGED <<history, store, log, acked>>

\* The process dies: its copy and whatever it still had to do are gone.
Crash(w) ==
  /\ task[w].pc # "idle"
  /\ faults < MaxFaults
  /\ faults' = faults + 1
  /\ Done(w)
  /\ UNCHANGED <<history, store, log, acked, ghosts>>

----------------------------------------------------------------------------
(* Specification *)

Init ==
  /\ history = << >>
  /\ rows = [u \in Users |-> NoRow]
  /\ nextPk = 1
  /\ ledger = [v \in Versions |-> 0]
  /\ log = [n \in Notes |-> "none"]
  /\ acked = {}
  /\ told = [u \in Users |-> "none"]
  /\ fired = [n \in Notes |-> 0]
  /\ handled = {}
  /\ task = [w \in Workers |-> Idle]
  /\ faults = 0

\* The steps that bring a request under way nearer to its end.
Continue(w) ==
  \/ SyncNext(w) \/ Fetch(w) \/ Link(w) \/ FindForNotification(w)
  \/ Insert(w) \/ InsertConflict(w) \/ Update(w)
  \/ FireSignal(w) \/ Settle(w) \/ LogFailure(w)

Fail(w) == FetchFails(w) \/ Raise(w) \/ ReceiverRaises(w) \/ Crash(w)

Arrive(w) ==
  \E n \in Notes :
    \/ \E u \in Users : Activate(w, u, n)
    \/ DuplicateDelivery(w, n)
    \/ ReceiveNotification(w, n)

Next ==
  \/ \E o \in Origs : AppStoreChanges(o)
  \/ \E w \in Web : Arrive(w)
  \/ \E w \in Jobs : StartSweep(w)
  \/ \E w \in Workers : Continue(w) \/ Fail(w)

Spec == Init /\ [][Next]_vars

\* Requests under way are served, and the daily command is run for ever.
FairSpec ==
  /\ Spec
  /\ \A w \in Workers : WF_vars(Continue(w))
  /\ \A w \in Jobs : WF_vars(StartSweep(w))

----------------------------------------------------------------------------
(* Safety *)

\* The entries about the subscriptions of o's group.
Said(o) == {v \in 1 .. Len(history) : history[v].orig \in Group(o)}

\* Row r repeats what the App Store has said of the group of subscription o.
FromApple(o, r) ==
  /\ o \in Origs
  /\ \E v \in Said(o) : r.status = StateToStatus[history[v].state]
  /\ r.tx \in Said(o)
  /\ r.renewal \in Said(o) \cup {0}
  /\ r.started \in Said(o)
  /\ r.revoked > 0 => r.revoked \in Said(o) /\ history[r.revoked].revoked

\* Whatever the requests, retries, stale copies and incomplete answers that led
\* to it, a saved row repeats only what the App Store has said of the group of
\* the subscription it is linked to: its status, purchase, renewal info and
\* refund are never made up, never those of a subscription of another group,
\* and never missing the purchase (_select_snapshot, apply_state, and the
\* "or client_transaction" of activate_for_user).  Within the group they may
\* be another subscription's: _select_snapshot falls back on it.
RowsFromApple == \A u \in Users : rows[u].pk > 0 => FromApple(rows[u].ext, rows[u])

\* A row and the ledger change together: the transaction a row shows is in
\* the ledger, under its own id (the atomic block of apply_state).
LedgerCoversRows ==
  HasLedger =>
    \A u \in Users : rows[u].pk > 0 =>
      LET t == history[rows[u].tx].txid
      IN ledger[t] > 0 /\ history[ledger[t]].txid = t

\* obs has the state a subscription of o's group was in when there were n
\* entries, or has been in since.
FreshSince(o, n, obs) ==
  \E i \in Said(o) :
    /\ obs.state = history[i].state
    /\ \A j \in i + 1 .. n : history[j].orig # history[i].orig

\* What an activation is about to save is what the App Store said after the
\* request arrived: an old JWS cannot bring an old state back
\* (activate_for_user asks the App Store Server API, docs/billing.md:479).
FreshActivation ==
  \A w \in Workers :
    task[w].kind = "activate" /\ task[w].pc \in {"link", "save"} =>
      FreshSince(task[w].orig, task[w].since, task[w].obs)

\* The App Store is answered 200 only for a notification whose state some
\* delivery committed, or that had no row to change: an exception, a crash or
\* a concurrent delivery never has one dropped (handle_notification re-raises).
AckedMeansHandled == acked \ Bare \subseteq handled

\* No subscription is linked to two accounts (get_or_create_for_user).
OneOwner == \A o \in Origs : Cardinality(Linked(o)) <= 1

\* The log stops a notification's signals from being sent again and again:
\* deliveries that overlap send them once each, and so do the retries after a
\* failure, one more round of them for each failure, but no more
\* (handle_notification).
SignalsBounded ==
  HasLog => \A n \in Notes : fired[n] <= Cardinality(Web) * (faults + 1)

\* No notification has its signals sent twice: a duplicate delivery is a no-op
\* (models/store_notifications.py:21).  The code does not keep this when two
\* deliveries overlap.
FiredOnce == \A n \in Notes : fired[n] <= 1

----------------------------------------------------------------------------
(* What a step may never do *)

\* An activation changes no row but its own user's (get_or_create_for_user).
OwnRowOnly ==
  [][\A w \in Workers :
       task[w].kind = "activate" /\ task'[w] # task[w] =>
         \A u \in Users \ {task[w].user} : rows'[u] = rows[u]]_vars

\* A row stays linked to the subscription it was created for and keeps its
\* key, although stale copies are saved whole (Model.save without
\* update_fields).
LinkNeverMoves ==
  [][\A u \in Users : rows[u].pk > 0 =>
       rows'[u].pk = rows[u].pk /\ rows'[u].ext = rows[u].ext]_vars

\* started_at is set once: no later transaction, delivery or stale copy
\* changes it (the "if subscription.started_at is None" of apply_state).
StartedOnce ==
  [][\A u \in Users : rows[u].started > 0 => rows'[u].started = rows[u].started]_vars

\* Task t is a delivery of notification n.
Delivers(t, n) == t.kind = "notify" /\ t.ver = n

\* Once a notification is settled and no delivery of it is under way, nothing
\* is done about it any more: its log row and its signals stay as they are.
SettledIsFinal ==
  [][\A n \in Notes :
       /\ log[n] \in Settled
       /\ \A w \in Workers : ~ Delivers(task[w], n)
       => /\ log'[n] = log[n]
          /\ fired'[n] = fired[n]
          /\ \A w \in Workers : ~ Delivers(task'[w], n)]_vars

\* The ledger is append-only: a refund recorded in a transaction's row stays
\* recorded there (models/store_transactions.py:16).  The code does not keep
\* this: a late notification overwrites it.
LedgerKeepsRefunds ==
  [][\A t \in Versions :
       ledger[t] > 0 /\ history[ledger[t]].revoked => history[ledger'[t]].revoked]_vars

----------------------------------------------------------------------------
(* What all of this implements *)

NoView == [sub |-> NoOrig, start |-> 0, status |-> "none"]

\* What a row shows of its user to the project.
View(r) ==
  IF r.pk = 0 THEN NoView
  ELSE [sub |-> r.ext, start |-> r.started, status |-> r.status]

Promise == INSTANCE Subscriptions WITH
             Accounts <- Users, Subs <- Origs, Reports <- Entries,
             Family <- [o \in Origs |-> Group(o)],
             Status <- StateToStatus, Nothing <- NoView,
             reported <- history, shown <- [u \in Users |-> View(rows[u])]

\* Requests in every interleaving, retries, stale copies and failures show a
\* project nothing but what Subscriptions allows: every save is a Subscribe
\* or a Refresh, every other step of the services is invisible.
KeepsPromise == Promise!Spec

----------------------------------------------------------------------------
(* Liveness *)

\* The subscriptions that are alone in their group, for which _select_snapshot
\* has nothing else to fall back on.
AloneInGroup == {o \in Origs : Group(o) = {o}}

\* The row subscription o is looked up by is not shown as ended.
Live(o) ==
  Linked(o) # {} /\ rows[FirstLinked(o)].status \notin {"EXPIRED", "REVOKED"}

\* The row a subscription is looked up by says what the App Store says now.
InStep(o) ==
  Linked(o) # {} =>
    \A v \in Latest(o) :
      rows[FirstLinked(o)].status = StateToStatus[history[v].state]

\* The daily sweep alone repairs drift towards too much access, whatever was
\* lost, late, repeated or stale: from some time on, a row that is not shown
\* as ended says what the App Store says (sync_appstore_subscriptions).
LiveRowsConverge == \A o \in AloneInGroup : <>[](Live(o) => InStep(o))

\* Drift is corrected without waiting for the user to reopen the app
\* (sync_subscription, services/apple.py:204).  The code does not do this for
\* rows shown as ended, which no sweep visits.
SweepCorrectsDrift == \A o \in AloneInGroup : <>[]InStep(o)

\* Accounts send their newest JWS again and again.
AppReopened ==
  \A w \in Web, u \in Users, o \in Origs :
    WF_vars(\E v \in Versions : Activate(w, u, v) /\ history[v].orig = o)

\* With the app reopened again and again, every drift is corrected, that of
\* ended rows too (activate_for_user, services/apple.py:65).
ReopeningCorrectsDrift == AppReopened => \A o \in AloneInGroup : <>[]InStep(o)

\* The status a signal tells the project's receivers.
StatusAfter(signal) ==
  CASE signal \in {"activated", "renewed"}    -> "ACTIVE"
    [] signal = "entered_grace_period"        -> "GRACE_PERIOD"
    [] signal = "entered_billing_retry"       -> "PAST_DUE"
    [] signal = "expired"                     -> "EXPIRED"
    [] signal = "revoked"                     -> "REVOKED"

\* A project that keeps its own copy of the status by the signals is not left
\* with a wrong one while the subscription runs: the signal a crash swallowed
\* between commit and send, or one overtaken by an older one, is made up for by
\* those of the sweeps, since _fire_signal sends one on every apply_state.
ReceiversConverge ==
  \A o \in AloneInGroup :
    <>[](Live(o) /\ FirstLinked(o) \in Watched =>
           /\ told[FirstLinked(o)] # "none"
           /\ StatusAfter(told[FirstLinked(o)]) = rows[FirstLinked(o)].status)

----------------------------------------------------------------------------
(* The inductive invariant behind the safety properties *)

\* A transaction's id and its original purchase are numbers of entries of the
\* same subscription.
HistoryOK ==
  /\ Len(history) <= MaxVersion
  /\ \A i \in 1 .. Len(history) : \A j \in {history[i].txid, history[i].first} :
       j \in 1 .. i /\ history[j].orig = history[i].orig

\* The table is keyed by its user column, and repeats the App Store.
RowsOK ==
  \A u \in Users :
    rows[u].pk > 0 => rows[u].user = u /\ FromApple(rows[u].ext, rows[u])

\* Observation obs was made of the group of subscription o.
Observed(o, obs) ==
  /\ \E v \in Said(o) : obs.state = history[v].state
  /\ obs.tx \in Said(o) \cup {0}
  /\ obs.renewal \in Said(o) \cup {0}
  /\ obs.tx > 0 => obs.start \in Said(o) /\ obs.revoked = history[obs.tx].revoked

\* r was read from the table: it may be stale, but not in its key, its
\* subscription or its start, and it still repeats the App Store.
Copy(r) ==
  /\ r.user \in Users
  /\ r.pk > 0
  /\ rows[r.user].pk = r.pk
  /\ rows[r.user].ext = r.ext
  /\ rows[r.user].started = r.started
  /\ FromApple(r.ext, r)

ActivationOK(t) ==
  t.kind = "activate" =>
    /\ t.pc \in {"fetch", "link", "save", "signal"}
    /\ t.user \in Users /\ t.orig \in Origs
    /\ t.ver \in Said(t.orig)
    /\ t.since \in 1 .. Len(history)
    /\ t.pc \in {"link", "save"} =>
         t.obs.tx > 0 /\ FreshSince(t.orig, t.since, t.obs)
    /\ t.pc = "save" => t.row.user = t.user

NotificationOK(t) ==
  t.kind = "notify" =>
    /\ t.pc \in {"find", "save", "signal", "settle", "fail"}
    /\ t.orig \in Origs
    /\ t.ver \in 1 .. Len(history)
    /\ t.pc \in {"signal", "settle"} => t.ver \in handled \cup Bare

SyncOK(t) ==
  t.kind = "sync" =>
    /\ t.pc \in {"next", "fetch", "save", "signal"}
    /\ t.ver = 0
    /\ t.pc = "fetch" => t.row.ext = t.orig /\ Copy(t.row)
    /\ t.queue \subseteq {u \in Users : rows[u].pk > 0}

SavingOK(t) ==
  /\ t.kind = "none" => t.pc = "idle"
  /\ t.pc \in {"find", "link", "save"} => Observed(t.orig, t.obs)
  /\ t.pc = "save" =>
       /\ t.row.ext = t.orig
       /\ \/ t.row.pk = 0 /\ t.kind = "activate" /\ t.row = NewRow(t.user, t.orig)
          \/ Copy(t.row)

TaskOK(t) == ActivationOK(t) /\ NotificationOK(t) /\ SyncOK(t) /\ SavingOK(t)

\* Only what was handled, or bears nothing to handle, is settled.
SettledMeansHandled ==
  \A n \in Notes : log[n] \in Settled => n \in handled \cup Bare

IInv ==
  /\ TypeOK
  /\ HistoryOK
  /\ RowsOK
  /\ \A w \in Workers : TaskOK(task[w])
  /\ AckedMeansHandled
  /\ SettledMeansHandled

----------------------------------------------------------------------------
(* The invariant behind LedgerCoversRows *)

\* The transaction of entry v has a row in the ledger.
Recorded(v) == v \in 1 .. Len(history) /\ ledger[history[v].txid] > 0

\* A ledger row was copied from an entry of its own transaction.
LedgerTrue ==
  \A t \in Versions :
    ledger[t] > 0 => ledger[t] \in 1 .. Len(history) /\ history[ledger[t]].txid = t

\* What a row shows is in the ledger, and so is what a copy shows, however
\* stale; an observation about to be saved carries its transaction's own id.
LedgerOK ==
  /\ LedgerTrue
  /\ \A u \in Users : rows[u].pk > 0 => Recorded(rows[u].tx)
  /\ \A w \in Workers :
       LET t == task[w]
       IN /\ t.pc \in {"find", "link", "save"} /\ t.obs.tx > 0 =>
               t.obs.txid = history[t.obs.tx].txid
          /\ t.pc \in {"fetch", "save"} /\ t.row.pk > 0 => Recorded(t.row.tx)

----------------------------------------------------------------------------
(* The invariant behind SignalsBounded *)

\* The workers that deliver notification n at the places given.
At(n, places) == {w \in Web : Delivers(task[w], n) /\ task[w].pc \in places}
Unsent(n) == At(n, {"find", "save", "signal"})
Sent(n) == {w \in At(n, {"settle"}) : task[w].outcome = "PROCESSED"}
Failing(n) == At(n, {"fail"})

\* While n is not settled, what has been sent is due to failures or to
\* deliveries that have still to settle it; once it is settled, only the
\* deliveries under way can send more, and only one that failed can undo it.
SentOK(n) ==
  LET f == faults - Cardinality(Failing(n))
  IN /\ f >= 0
     /\ IF log[n] \in Settled
        THEN fired[n] + Cardinality(Unsent(n)) <= Cardinality(Web) * (f + 1)
        ELSE fired[n] <= Cardinality(Web) * f + Cardinality(Sent(n))
                         + Cardinality(Failing(n))

\* A notification is delivered by a worker that serves requests, which has
\* come to its outcome before it saves and settles.
DeliveryOK(w) ==
  LET t == task[w]
  IN t.kind = "notify" =>
       /\ w \in Web
       /\ t.pc \in {"save", "signal"} => t.outcome = "PROCESSED"
       /\ t.pc = "settle" => t.outcome \in Settled

FiredOK == (\A n \in Notes : SentOK(n)) /\ \A w \in Workers : DeliveryOK(w)
============================================================================
