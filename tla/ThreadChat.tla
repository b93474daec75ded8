----------------------------- MODULE ThreadChat -----------------------------
(***************************************************************************)
(* A message thread of createus_common.messaging: the polling widgets of   *)
(* thread_chat.js over BaseThreadMessageListView.                          *)
(*                                                                         *)
(* Polls overlap: the widget sends one every five seconds whether or not   *)
(* the last was answered, and answers arrive in any order or not at all.   *)
(* A message takes its id when it is inserted and is seen by others when   *)
(* the transaction commits.  Texts, attachments and markup are left out.   *)
(***************************************************************************)
EXTENDS Naturals, Sequences, FiniteSets

CONSTANTS
  Widgets,       \* pages that show the thread
  Staff,         \* those of them that do not have the role CLIENT
  Writers,       \* those of them whose users submit messages
  InOrder,       \* do messages commit in the order of their ids?
  MaxMessages,   \* bound: messages inserted
  MaxPolls,      \* bound: polls of each widget under way
  MaxFaults      \* bound: requests and answers lost, inserts rolled back

ASSUME WidgetAssumption == Staff \subseteq Widgets /\ Writers \subseteq Widgets
ASSUME OrderAssumption == InOrder \in BOOLEAN
ASSUME BoundAssumption ==
  MaxMessages \in Nat /\ MaxPolls \in [Widgets -> Nat] /\ MaxFaults \in Nat

VARIABLES
  messages,   \* the message table, in the order of the ids
  polls,      \* GET requests of each widget under way
  post,       \* the POST request of each widget under way
  shown,      \* the ids each widget has shown: its seenIds
  lastId,     \* the widget's lastId; 0 stands for null
  faults      \* failures so far

vars == <<messages, polls, post, shown, lastId, faults>>
widgets == <<shown, lastId>>

Messages == [author: Writers, internal: BOOLEAN,
             state: {"inserted", "committed", "gone"}]

\* A poll has asked for the messages after since; its answer, once there is
\* one, is what ids holds.
Polls == [since: Nat, answered: BOOLEAN, ids: SUBSET Nat]
Posts == [pc: {"none", "sent", "inserted", "answered"}, internal: BOOLEAN, id: Nat]
NoPost == [pc |-> "none", internal |-> FALSE, id |-> 0]

Ids == 1 .. Len(messages)

TypeOK ==
  /\ messages \in Seq(Messages)
  /\ polls \in [Widgets -> SUBSET Polls]
  /\ post \in [Widgets -> Posts]
  /\ \A w \in Widgets : post[w].pc \in {"inserted", "answered"} => post[w].id \in Ids
  /\ shown \in [Widgets -> SUBSET Ids]
  /\ lastId \in [Widgets -> 0 .. Len(messages)]
  /\ faults \in Nat

Committed == {m \in Ids : messages[m].state = "committed"}

\* Mutant: the queryset is not narrowed to the role.
Unfiltered(w) == Committed

\* get_queryset: the committed messages filter_visible_messages leaves.
Visible(w) == {m \in Committed : messages[m].internal => w \in Staff}

----------------------------------------------------------------------------
(* The page shows messages *)

\* appendMessages: the page shows what it has not shown (seenIds), and lastId
\* becomes the highest id it ever received.
AppendMessages(w, ids) ==
  /\ shown' = [shown EXCEPT ![w] = @ \cup ids]
  /\ \E n \in ids \cup {lastId[w]} :
       /\ \A m \in ids \cup {lastId[w]} : m <= n
       /\ lastId' = [lastId EXCEPT ![w] = n]

----------------------------------------------------------------------------
(* GET *)

\* Mutant: the page polls as it loads, and never again.
SendFirst(w) ==
  /\ lastId[w] = 0
  /\ Cardinality(polls[w]) < MaxPolls[w]
  /\ polls' = [polls EXCEPT ![w] = @ \cup
       {[since |-> lastId[w], answered |-> FALSE, ids |-> {}]}]
  /\ UNCHANGED <<messages, post, widgets, faults>>

\* fetchMessages, of the timer or of the page that loads.
SendPoll(w) ==
  /\ Cardinality(polls[w]) < MaxPolls[w]
  /\ polls' = [polls EXCEPT ![w] = @ \cup
       {[since |-> lastId[w], answered |-> FALSE, ids |-> {}]}]
  /\ UNCHANGED <<messages, post, widgets, faults>>

\* Mutant: last_id is taken for the first id the page lacks.
After(since) == {m \in Ids : m > since + 1}

\* id__gt=last_id.
Later(since) == {m \in Ids : m > since}

\* get: what the caller may see and has not.
AnswerPoll(w, p) ==
  /\ ~p.answered
  /\ polls' = [polls EXCEPT ![w] = (@ \ {p}) \cup
       {[p EXCEPT !.answered = TRUE, !.ids = Visible(w) \cap Later(p.since)]}]
  /\ UNCHANGED <<messages, post, widgets, faults>>

DeliverPoll(w, p) ==
  /\ p.answered
  /\ polls' = [polls EXCEPT ![w] = @ \ {p}]
  /\ AppendMessages(w, p.ids)
  /\ UNCHANGED <<messages, post, faults>>

\* A poll that fails is forgotten: catch(function () {}).
LosePoll(w, p) ==
  /\ faults < MaxFaults
  /\ faults' = faults + 1
  /\ polls' = [polls EXCEPT ![w] = @ \ {p}]
  /\ UNCHANGED <<messages, post, widgets>>

----------------------------------------------------------------------------
(* POST *)

\* submitMessage: what the form holds.  is_internal is a field of the request
\* like any other: post checks no role, and the serializer lets all write it.
\* A user who saw a submit fail submits again.
Submit(w, internal) ==
  /\ post[w].pc = "none"
  /\ post' = [post EXCEPT ![w] = [NoPost EXCEPT !.pc = "sent", !.internal = internal]]
  /\ UNCHANGED <<messages, polls, widgets, faults>>

\* serializer.save() inserts the row,
Insert(w) ==
  /\ post[w].pc = "sent"
  /\ Len(messages) < MaxMessages
  /\ messages' = Append(messages, [author |-> w, internal |-> post[w].internal,
                                   state |-> "inserted"])
  /\ post' = [post EXCEPT ![w].pc = "inserted", ![w].id = Len(messages) + 1]
  /\ UNCHANGED <<polls, widgets, faults>>

\* handle_post_save runs, the transaction commits, and the answer is 201.
Commit(w) ==
  /\ post[w].pc = "inserted"
  /\ InOrder => \A m \in 1 .. post[w].id - 1 : messages[m].state # "inserted"
  /\ messages' = [messages EXCEPT ![post[w].id].state = "committed"]
  /\ post' = [post EXCEPT ![w].pc = "answered"]
  /\ UNCHANGED <<polls, widgets, faults>>

\* The author's page shows the message of the answer.
DeliverPost(w) ==
  /\ post[w].pc = "answered"
  /\ post' = [post EXCEPT ![w] = NoPost]
  /\ AppendMessages(w, {post[w].id})
  /\ UNCHANGED <<messages, polls, faults>>

\* The request, its transaction or its answer is lost, and the text stays in
\* the input.
LosePost(w) ==
  /\ post[w].pc # "none"
  /\ faults < MaxFaults
  /\ faults' = faults + 1
  /\ messages' = IF post[w].pc = "inserted"
                 THEN [messages EXCEPT ![post[w].id].state = "gone"] ELSE messages
  /\ post' = [post EXCEPT ![w] = NoPost]
  /\ UNCHANGED <<polls, widgets>>

----------------------------------------------------------------------------
(* Specification *)

Init ==
  /\ messages = << >>
  /\ polls = [w \in Widgets |-> {}]
  /\ post = [w \in Widgets |-> NoPost]
  /\ shown = [w \in Widgets |-> {}]
  /\ lastId = [w \in Widgets |-> 0]
  /\ faults = 0

Next ==
  \/ \E w \in Widgets :
       \/ SendPoll(w)
       \/ \E p \in polls[w] : AnswerPoll(w, p) \/ DeliverPoll(w, p) \/ LosePoll(w, p)
  \/ \E w \in Writers :
       \/ \E internal \in BOOLEAN : Submit(w, internal)
       \/ Insert(w) \/ Commit(w) \/ DeliverPost(w) \/ LosePost(w)

Spec == Init /\ [][Next]_vars

\* The timer of a page keeps firing, and what it sends is answered; a
\* transaction under way ends.
FairSpec ==
  /\ Spec
  /\ \A w \in Widgets :
       /\ WF_vars(SendPoll(w))
       /\ WF_vars(\E p \in polls[w] : AnswerPoll(w, p))
       /\ WF_vars(\E p \in polls[w] : DeliverPoll(w, p))
  /\ \A w \in Writers : WF_vars(Commit(w) \/ DeliverPost(w))

----------------------------------------------------------------------------
(* Safety *)

\* The committed messages w may see, and those its own user wrote: the answer
\* to a submit holds the message, which nothing filters.
MaySee(w) ==
  {m \in Committed : messages[m].internal => w \in Staff \/ messages[m].author = w}

\* No client's page shows an internal message somebody else wrote, by whichever
\* request it came and whoever wrote it (filter_visible_messages, get, post).
InternalStaysInside ==
  \A w \in Widgets : \A m \in shown[w] :
    messages[m].internal => w \in Staff \/ messages[m].author = w

\* Messages below lastId that w does not show, and will never ask for.
Skipped(w) == {m \in Visible(w) \ shown[w] : m < lastId[w]}

\* When messages commit in order, late and lost polls skip nothing: what a
\* page misses came before a message its own user submitted (fetchMessages,
\* appendMessages).
OnlyOwnPostsSkip ==
  InOrder =>
    \A w \in Widgets : \A m \in Skipped(w) :
      \E n \in shown[w] : n > m /\ messages[n].author = w

\* lastId never goes back: an answer that arrives late does not make the page
\* ask again for what it shows (appendMessages).
LastIdGrows == [][\A w \in Widgets : lastId'[w] >= lastId[w]]_vars

----------------------------------------------------------------------------
(* The inductive invariant *)

\* A request knows its message.
PostsPoint ==
  \A w \in Widgets :
    post[w].pc \in {"inserted", "answered"} =>
      /\ messages[post[w].id].author = w
      /\ messages[post[w].id].state =
           IF post[w].pc = "inserted" THEN "inserted" ELSE "committed"

\* A page shows what its user may see or wrote, up to lastId, and that one.
PagesHonest ==
  \A w \in Widgets :
    /\ shown[w] \subseteq MaySee(w)
    /\ \A m \in shown[w] : m <= lastId[w]
    /\ lastId[w] # 0 => lastId[w] \in shown[w]

\* An answer holds what its user may see, without a gap.
PollsHonest ==
  \A w \in Widgets : \A p \in polls[w] :
    /\ p.since <= lastId[w]
    /\ p.ids \subseteq Visible(w)
    /\ InOrder =>
         \A n \in p.ids, m \in Visible(w) : p.since < m /\ m < n => m \in p.ids

\* What commits in order leaves nothing to commit before it.
CommittedInOrder ==
  InOrder =>
    \A n \in Ids : messages[n].state = "committed" =>
      \A m \in Ids : m < n => messages[m].state # "inserted"

IInv ==
  /\ TypeOK
  /\ Len(messages) <= MaxMessages
  /\ PostsPoint
  /\ PagesHonest
  /\ PollsHonest
  /\ CommittedInOrder
  /\ OnlyOwnPostsSkip

----------------------------------------------------------------------------
(* Liveness *)

\* Whatever polls are lost or late, a page comes to show every message it may
\* see, unless its own user submitted a later one (fetchMessages, get).
AllShownOrPassed ==
  InOrder =>
    \A w \in Widgets, m \in 1 .. MaxMessages :
      (m \in Visible(w)) ~>
        \/ m \in shown[w]
        \/ \E n \in shown[w] : n > m /\ messages[n].author = w
=============================================================================
