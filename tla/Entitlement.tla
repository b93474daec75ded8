---------------------------- MODULE Entitlement ----------------------------
(***************************************************************************)
(* The store-agnostic entitlement engine of billing/services/entitlement.py*)
(* as pure operators on one subscription row, together with the constants  *)
(* of billing/choices.py and billing/providers/base.py it is written in.   *)
(*                                                                         *)
(* What the App Store says is numbered: entry v is its v-th change.  A     *)
(* date, product or environment copied from a transaction is represented by*)
(* the number of the entry that carried it; 0 stands for None.             *)
(***************************************************************************)
EXTENDS Naturals

CONSTANTS Users,    \* accounts of the project
          NoUser,
          Origs,    \* original transaction ids
          NoOrig    \* the blank external_subscription_id

ASSUME NoUserAssumption == NoUser \notin Users
ASSUME NoOrigAssumption == NoOrig \notin Origs

StoreStates ==
  {"ACTIVE", "EXPIRED", "BILLING_RETRY", "GRACE_PERIOD", "REVOKED"}

SubscriptionStatuses ==
  {"TRIALING", "ACTIVE", "PAST_DUE", "PAUSED", "CANCELLED", "EXPIRED",
   "GRACE_PERIOD", "REVOKED"}

\* Mutant: the two enumerations are taken to be the same.
IdentityStateToStatus == [s \in StoreStates |-> s]

StateToStatus ==
  [s \in StoreStates |-> IF s = "BILLING_RETRY" THEN "PAST_DUE" ELSE s]

----------------------------------------------------------------------------
(* Data *)

\* One verified (state, transaction, renewal_info) triple.  tx and renewal
\* number the entries the two payloads were issued at (0: the payload is
\* None); txid, revoked, renewed and start are the transaction's id, whether
\* it has a revocation_date, whether its transaction_reason is RENEWAL, and
\* its original_purchase_date or else purchase_date.
Observations ==
  [state: StoreStates, tx: Nat, txid: Nat, revoked: BOOLEAN,
   renewed: BOOLEAN, start: Nat, renewal: Nat]

NoObservation ==
  [state |-> "EXPIRED", tx |-> 0, txid |-> 0, revoked |-> FALSE,
   renewed |-> FALSE, start |-> 0, renewal |-> 0]

\* An AbstractUserSubscription of one user.  pk = 0 is an unsaved row; tx
\* stands for environment, product_id and expires_at, revoked for revoked_at
\* and revocation_reason, renewal for the five renewal fields.  cancelled_at
\* is not here: no store state maps to CANCELLED.
SubscriptionRows ==
  [pk: Nat, user: Users \cup {NoUser}, ext: Origs \cup {NoOrig},
   status: SubscriptionStatuses, tx: Nat, started: Nat, revoked: Nat, renewal: Nat]

\* The row get_or_create_for_user builds, not saved yet.
NewRow(u, o) ==
  [pk |-> 0, user |-> u, ext |-> o, status |-> "TRIALING", tx |-> 0,
   started |-> 0, revoked |-> 0, renewal |-> 0]

NoRow == NewRow(NoUser, NoOrig)

----------------------------------------------------------------------------
(* apply_state on the row in memory *)

\* Mutant: started_at follows the latest transaction.
RestartingApplyState(row, obs) ==
  [row EXCEPT !.status  = StateToStatus[obs.state],
              !.tx      = IF obs.tx > 0 THEN obs.tx ELSE @,
              !.started = IF obs.tx > 0 THEN obs.start ELSE @,
              !.revoked = IF obs.revoked THEN obs.tx ELSE @,
              !.renewal = IF obs.renewal > 0 THEN obs.renewal ELSE @]

ApplyState(row, obs) ==
  [row EXCEPT !.status  = StateToStatus[obs.state],
              !.tx      = IF obs.tx > 0 THEN obs.tx ELSE @,
              !.started = IF @ = 0 /\ obs.tx > 0 THEN obs.start ELSE @,
              !.revoked = IF obs.tx > 0 /\ obs.revoked THEN obs.tx ELSE @,
              !.renewal = IF obs.renewal > 0 THEN obs.renewal ELSE @]

----------------------------------------------------------------------------
(* What the rest of the system reads off a row *)

\* The signal _fire_signal sends for an observation.
SignalFor(obs) ==
  CASE obs.state = "ACTIVE" /\ obs.tx > 0 /\ obs.renewed -> "renewed"
    [] obs.state = "ACTIVE" /\ ~(obs.tx > 0 /\ obs.renewed) -> "activated"
    [] obs.state = "GRACE_PERIOD"  -> "entered_grace_period"
    [] obs.state = "BILLING_RETRY" -> "entered_billing_retry"
    [] obs.state = "EXPIRED"       -> "expired"
    [] obs.state = "REVOKED"       -> "revoked"

\* Mutant: the daily sweep forgets subscriptions in their grace period.
NarrowSyncableStatuses == {"TRIALING", "ACTIVE", "PAST_DUE"}

\* _SYNCABLE_STATUSES of the reconciliation command.
SyncableStatuses == {"TRIALING", "ACTIVE", "GRACE_PERIOD", "PAST_DUE"}
============================================================================
