--------------------------- MODULE Subscriptions ---------------------------
(***************************************************************************)
(* What the billing package promises a project about its subscribers,      *)
(* without requests, retries, copies or failures: the App Store reports on *)
(* subscriptions, and an account, once it shows a subscription, shows that *)
(* one for ever, with one start, and a status the App Store has reported   *)
(* of it or of another subscription of its group.                          *)
(***************************************************************************)
EXTENDS Naturals, Sequences

CONSTANTS Accounts, Subs,
          Family,       \* the subscriptions of the same group as each
          Reports,      \* what the App Store can report: orig and state
          Status,       \* the status that is shown for each state
          Nothing       \* shown of an account without a subscription

VARIABLES reported,  \* reports on the subscriptions, oldest first
          shown      \* what is shown of each account: its sub, start, status

Init ==
  /\ reported = << >>
  /\ shown = [a \in Accounts |-> Nothing]

\* One more report is made, and none is ever taken back.
Report ==
  /\ LET n == Len(reported) + 1
     IN /\ Len(reported') = n
        /\ reported'[n] \in Reports
        /\ reported' = Append(reported, reported'[n])
  /\ UNCHANGED shown

\* The reports on the group of s.
On(s) == {i \in 1 .. Len(reported) : reported[i].orig \in Family[s]}

\* What may be shown of an account: a start and a status reported of s, or of
\* another subscription of its group.
Views(s) ==
  [sub: {s}, start: On(s), status: {Status[reported[i].state] : i \in On(s)}]

Subscribe(a) ==
  /\ shown[a] = Nothing
  /\ \E s \in Subs : \E v \in Views(s) : shown' = [shown EXCEPT ![a] = v]
  /\ UNCHANGED reported

Refresh(a) ==
  /\ shown[a] # Nothing
  /\ \E v \in Views(shown[a].sub) :
       /\ v.start = shown[a].start
       /\ shown' = [shown EXCEPT ![a] = v]
  /\ UNCHANGED reported

Next == Report \/ \E a \in Accounts : Subscribe(a) \/ Refresh(a)

Spec == Init /\ [][Next]_<<reported, shown>>
============================================================================
