-------------------------- MODULE ThreadChat_proofs --------------------------
(***************************************************************************)
(* Proofs about ThreadChat, for every set of pages and every bound.        *)
(***************************************************************************)
EXTENDS ThreadChat, TLAPS

\* The parts of TypeOK the lemmas need.
Tables ==
  /\ messages \in Seq(Messages)
  /\ Len(messages) <= MaxMessages
  /\ shown \in [Widgets -> SUBSET Ids]
  /\ lastId \in [Widgets -> 0 .. Len(messages)]

LEMMA TablesOf == IInv => Tables
BY DEF IInv, TypeOK, Tables

LEMMA IdTypes ==
  ASSUME Tables
  PROVE  /\ Len(messages) \in Nat /\ MaxMessages \in Nat
         /\ Ids \subseteq 1 .. MaxMessages /\ Ids \subseteq Nat
         /\ \A m \in Ids : messages[m] \in Messages
         /\ \A w \in Widgets : lastId[w] \in Nat /\ Visible(w) \subseteq Ids /\ shown[w] \subseteq Ids
<1>1. Len(messages) \in Nat /\ Len(messages) <= MaxMessages /\ MaxMessages \in Nat
  BY BoundAssumption DEF Tables
<1>2. Ids \subseteq 1 .. MaxMessages /\ Ids \subseteq Nat /\ \A m \in Ids : messages[m] \in Messages
  BY <1>1 DEF Ids, Tables
<1>3. \A w \in Widgets : lastId[w] \in Nat /\ Visible(w) \subseteq Ids
  BY <1>1 DEF Tables, Visible, Committed
<1> QED
  BY <1>1, <1>2, <1>3 DEF Tables

----------------------------------------------------------------------------
(* A page appends what an answer holds *)

\* What the page shows, and its lastId, after the answer.
LEMMA Appended ==
  ASSUME Tables, NEW w \in Widgets, NEW ids \in SUBSET Ids, AppendMessages(w, ids)
  PROVE  /\ shown' \in [Widgets -> SUBSET Ids]
         /\ \A u \in Widgets \ {w} : shown'[u] = shown[u] /\ lastId'[u] = lastId[u]
         /\ shown'[w] = shown[w] \cup ids
         /\ lastId' \in [Widgets -> 0 .. Len(messages)]
         /\ lastId[w] <= lastId'[w] /\ \A m \in ids : m <= lastId'[w]
         /\ lastId'[w] = lastId[w] \/ lastId'[w] \in ids
<1>1. /\ shown' \in [Widgets -> SUBSET Ids]
      /\ \A u \in Widgets \ {w} : shown'[u] = shown[u]
      /\ shown'[w] = shown[w] \cup ids
  BY DEF AppendMessages, Tables
<1>2. PICK n \in ids \cup {lastId[w]} :
        /\ \A m \in ids \cup {lastId[w]} : m <= n
        /\ lastId' = [lastId EXCEPT ![w] = n]
  BY DEF AppendMessages
<1>3. n \in 0 .. Len(messages)
  BY <1>2 DEF Tables, Ids
<1>4. /\ lastId' \in [Widgets -> 0 .. Len(messages)]
      /\ \A u \in Widgets \ {w} : lastId'[u] = lastId[u]
      /\ lastId'[w] = n
  BY <1>2, <1>3 DEF Tables
<1> QED
  BY <1>1, <1>2, <1>4

\* A page that appends what its user may see or wrote stays honest, and if what
\* it passes over is its user's doing, that is what it skips.
LEMMA AppendKeeps ==
  ASSUME Tables, PagesHonest, OnlyOwnPostsSkip, UNCHANGED messages,
         NEW w \in Widgets, NEW ids \in SUBSET Ids, ids \subseteq MaySee(w),
         AppendMessages(w, ids),
         InOrder => \A n \in ids, m \in Visible(w) :
           lastId[w] < m /\ m < n => m \in ids \/ messages[n].author = w
  PROVE  PagesHonest' /\ OnlyOwnPostsSkip'
<1>1. \A u \in Widgets : Visible(u)' = Visible(u) /\ MaySee(u)' = MaySee(u)
  BY DEF Visible, MaySee, Committed, Ids
<1>2. PagesHonest'
  <2>1. SUFFICES ASSUME NEW u \in Widgets
                 PROVE  /\ shown'[u] \subseteq MaySee(u)
                        /\ \A m \in shown'[u] : m <= lastId'[u]
                        /\ lastId'[u] # 0 => lastId'[u] \in shown'[u]
    BY <1>1 DEF PagesHonest
  <2>2. CASE u # w
    BY <2>2, Appended DEF PagesHonest
  <2>3. CASE u = w
    <3>1. ASSUME NEW m \in shown'[w]
          PROVE  m <= lastId'[w]
      <4>1. CASE m \in ids
        BY <4>1, Appended
      <4>2. CASE m \in shown[w]
        <5>1. m <= lastId[w] /\ lastId[w] <= lastId'[w]
          BY <4>2, Appended DEF PagesHonest
        <5>2. m \in Nat /\ lastId[w] \in Nat /\ lastId'[w] \in Nat
          BY <4>2, IdTypes, Appended
        <5> QED
          BY <5>1, <5>2
      <4> QED
        BY <4>1, <4>2, Appended
    <3>2. lastId'[w] # 0 => lastId'[w] \in shown'[w]
      BY Appended DEF PagesHonest
    <3>3. shown'[w] \subseteq MaySee(w)
      BY Appended DEF PagesHonest
    <3> QED
      BY <2>3, <3>1, <3>2, <3>3
  <2> QED
    BY <2>2, <2>3
<1>3. OnlyOwnPostsSkip'
  <2>1. SUFFICES ASSUME InOrder, NEW u \in Widgets, NEW m \in Visible(u),
                        m < lastId'[u], m \notin shown'[u]
                 PROVE  \E n \in shown'[u] : n > m /\ messages[n].author = u
    BY <1>1 DEF OnlyOwnPostsSkip, Skipped
  <2>2. CASE u # w
    BY <2>1, <2>2, Appended DEF OnlyOwnPostsSkip, Skipped
  <2>3. CASE u = w
    <3>1. m \in Nat /\ m # 0 /\ m \notin shown[w] /\ m \notin ids
      BY <2>1, <2>3, IdTypes, Appended DEF Ids
    <3>2. m # lastId[w]
      BY <3>1 DEF PagesHonest
    <3>3. lastId[w] \in Nat /\ lastId'[w] \in Nat
      BY IdTypes, Appended
    <3>4. CASE m < lastId[w]
      BY <2>1, <2>3, <3>1, <3>4, Appended DEF OnlyOwnPostsSkip, Skipped
    <3>5. CASE lastId[w] < m
      <4>1. lastId'[w] \in ids
        BY <2>1, <2>3, <3>1, <3>3, <3>5, Appended
      <4>2. messages[lastId'[w]].author = w
        BY <2>1, <2>3, <3>1, <3>5, <4>1
      <4>3. lastId'[w] > m
        BY <2>1, <2>3, <3>1, <3>3
      <4> QED
        BY <2>3, <4>1, <4>2, <4>3, Appended
    <3> QED
      BY <3>1, <3>2, <3>3, <3>4, <3>5
  <2> QED
    BY <2>2, <2>3
<1> QED
  BY <1>2, <1>3

----------------------------------------------------------------------------
(* Steps that change polls only *)

HonestPoll(w, p) ==
  /\ p.since <= lastId[w]
  /\ p.ids \subseteq Visible(w)
  /\ InOrder => \A n \in p.ids, m \in Visible(w) : p.since < m /\ m < n => m \in p.ids

LEMMA PollStep ==
  ASSUME IInv, UNCHANGED <<messages, post, widgets>>, faults' \in Nat,
         NEW w \in Widgets, NEW Q \in SUBSET Polls,
         polls' = [polls EXCEPT ![w] = Q],
         \A p \in Q : p \in polls[w] \/ HonestPoll(w, p)
  PROVE  IInv'
<1>1. polls \in [Widgets -> SUBSET Polls]
  BY DEF IInv, TypeOK
<1>2. polls'[w] = Q /\ (\A u \in Widgets \ {w} : polls'[u] = polls[u])
      /\ polls' \in [Widgets -> SUBSET Polls]
  BY <1>1
<1>3. shown' = shown /\ lastId' = lastId /\ messages' = messages /\ post' = post
  BY DEF widgets
<1>4. \A u \in Widgets : Visible(u)' = Visible(u) /\ MaySee(u)' = MaySee(u)
  BY <1>3 DEF Visible, MaySee, Committed, Ids
<1>5. TypeOK'
  BY <1>2, <1>3 DEF IInv, TypeOK, Ids
<1>6. PollsHonest'
  <2>1. \A u \in Widgets : \A p \in polls[u] : HonestPoll(u, p)
    BY DEF IInv, PollsHonest, HonestPoll
  <2>2. \A u \in Widgets : \A p \in polls'[u] : HonestPoll(u, p)
    BY <1>2, <2>1
  <2> QED
    BY <1>3, <1>4, <2>2 DEF PollsHonest, HonestPoll
<1>7. Len(messages') <= MaxMessages /\ PostsPoint' /\ CommittedInOrder'
  BY <1>3 DEF IInv, PostsPoint, CommittedInOrder, Ids
<1>8. PagesHonest' /\ OnlyOwnPostsSkip'
  BY <1>3, <1>4 DEF IInv, PagesHonest, OnlyOwnPostsSkip, Skipped
<1> QED
  BY <1>5, <1>6, <1>7, <1>8 DEF IInv

LEMMA SendPollKeeps ==
  ASSUME IInv, NEW w \in Widgets, SendPoll(w)
  PROVE  IInv'
<1> DEFINE p == [since |-> lastId[w], answered |-> FALSE, ids |-> {}]
<1>1. lastId[w] \in Nat
  BY TablesOf, IdTypes
<1>2. p \in Polls /\ HonestPoll(w, p)
  BY <1>1 DEF Polls, HonestPoll
<1>3. polls[w] \cup {p} \in SUBSET Polls
  BY <1>2 DEF IInv, TypeOK
<1>4. UNCHANGED <<messages, post, widgets>> /\ faults' \in Nat
      /\ polls' = [polls EXCEPT ![w] = polls[w] \cup {p}]
  BY DEF SendPoll, IInv, TypeOK
<1> HIDE DEF p
<1> QED
  BY <1>2, <1>3, <1>4, PollStep

LEMMA AnswerPollKeeps ==
  ASSUME IInv, NEW w \in Widgets, NEW p \in polls[w], AnswerPoll(w, p)
  PROVE  IInv'
<1> DEFINE q == [p EXCEPT !.answered = TRUE, !.ids = Visible(w) \cap Later(p.since)]
           Q == (polls[w] \ {p}) \cup {q}
<1>1. p \in Polls /\ polls[w] \in SUBSET Polls
  BY DEF IInv, TypeOK
<1>2. Visible(w) \subseteq Nat /\ Visible(w) \subseteq Ids
  BY TablesOf, IdTypes
<1>3. q \in Polls /\ q.since = p.since /\ q.ids = Visible(w) \cap Later(p.since)
  BY <1>1, <1>2 DEF Polls
<1>4. p.since <= lastId[w]
  BY DEF IInv, PollsHonest
<1>5. \A m \in Visible(w) : p.since < m => m \in Later(p.since)
  BY <1>1, <1>2 DEF Later, Polls
<1>6. HonestPoll(w, q)
  BY <1>3, <1>4, <1>5 DEF HonestPoll
<1>7. UNCHANGED <<messages, post, widgets>> /\ faults' \in Nat
      /\ polls' = [polls EXCEPT ![w] = Q]
  BY DEF AnswerPoll, IInv, TypeOK
<1> HIDE DEF q
<1>8. Q \in SUBSET Polls /\ \A r \in Q : r \in polls[w] \/ HonestPoll(w, r)
  BY <1>1, <1>3, <1>6
<1> QED
  BY <1>7, <1>8, PollStep

LEMMA LosePollKeeps ==
  ASSUME IInv, NEW w \in Widgets, NEW p \in polls[w], LosePoll(w, p)
  PROVE  IInv'
<1>1. polls[w] \ {p} \in SUBSET Polls
  BY DEF IInv, TypeOK
<1>2. UNCHANGED <<messages, post, widgets>> /\ faults' \in Nat
      /\ polls' = [polls EXCEPT ![w] = polls[w] \ {p}]
  BY DEF LosePoll, IInv, TypeOK
<1> QED
  BY <1>1, <1>2, PollStep

----------------------------------------------------------------------------
(* Steps that deliver an answer *)

\* The rest of the invariant when a page has appended an answer.
LEMMA DeliverStep ==
  ASSUME IInv, UNCHANGED <<messages, faults>>,
         NEW w \in Widgets, NEW ids \in SUBSET Ids, ids \subseteq MaySee(w),
         AppendMessages(w, ids),
         InOrder => \A n \in ids, m \in Visible(w) :
           lastId[w] < m /\ m < n => m \in ids \/ messages[n].author = w,
         polls' \in [Widgets -> SUBSET Polls],
         \A u \in Widgets : polls'[u] \subseteq polls[u],
         post' \in [Widgets -> Posts],
         \A u \in Widgets : post'[u] = post[u] \/ post'[u] = NoPost
  PROVE  IInv'
<1>1. Tables
  BY TablesOf
<1>2. \A u \in Widgets : Visible(u)' = Visible(u)
  BY DEF Visible, Committed, Ids
<1>3. PagesHonest' /\ OnlyOwnPostsSkip'
  BY <1>1, AppendKeeps DEF IInv
<1>4. TypeOK'
  <2>1. /\ shown' \in [Widgets -> SUBSET Ids]
        /\ lastId' \in [Widgets -> 0 .. Len(messages)]
    BY <1>1, Appended
  <2>2. \A u \in Widgets : post'[u].pc \in {"inserted", "answered"} => post'[u].id \in Ids
    BY DEF IInv, TypeOK, NoPost
  <2> QED
    BY <2>1, <2>2 DEF IInv, TypeOK, Ids
<1>5. PollsHonest'
  <2>1. SUFFICES ASSUME NEW u \in Widgets, NEW p \in polls'[u]
                 PROVE  /\ p.since <= lastId'[u]
                        /\ p.ids \subseteq Visible(u)
                        /\ InOrder => \A n \in p.ids, m \in Visible(u) :
                             p.since < m /\ m < n => m \in p.ids
    BY <1>2 DEF PollsHonest
  <2>2. p \in polls[u] /\ HonestPoll(u, p)
    BY DEF IInv, PollsHonest, HonestPoll
  <2>3. lastId[u] \in Nat /\ lastId'[u] \in Nat /\ lastId[u] <= lastId'[u]
    <3>1. lastId[u] \in Nat /\ lastId'[u] \in Nat
      BY <1>1, IdTypes, Appended
    <3>2. lastId'[u] = lastId[u] \/ lastId[u] <= lastId'[u]
      BY <1>1, Appended
    <3> QED
      BY <3>1, <3>2
  <2>4. p.since \in Nat
    BY <2>2 DEF IInv, TypeOK, Polls
  <2>5. p.since <= lastId'[u]
    BY <2>2, <2>3, <2>4 DEF HonestPoll
  <2> QED
    BY <1>2, <2>2, <2>5 DEF HonestPoll
<1>6. PostsPoint'
  BY DEF IInv, PostsPoint, NoPost
<1>7. Len(messages') <= MaxMessages /\ CommittedInOrder'
  BY DEF IInv, CommittedInOrder, Ids
<1> QED
  BY <1>3, <1>4, <1>5, <1>6, <1>7 DEF IInv

LEMMA DeliverPollKeeps ==
  ASSUME IInv, NEW w \in Widgets, NEW p \in polls[w], DeliverPoll(w, p)
  PROVE  IInv'
<1>1. Tables /\ polls \in [Widgets -> SUBSET Polls] /\ post \in [Widgets -> Posts]
  BY TablesOf DEF IInv, TypeOK
<1>2. p \in Polls /\ HonestPoll(w, p)
  BY <1>1 DEF IInv, PollsHonest, HonestPoll
<1>3. p.ids \in SUBSET Ids /\ p.ids \subseteq MaySee(w)
  BY <1>1, <1>2, IdTypes DEF HonestPoll, Visible, MaySee
<1>4. \A m \in Visible(w) : lastId[w] < m => p.since < m
  BY <1>1, <1>2, IdTypes DEF HonestPoll, Polls
<1>5. InOrder => \A n \in p.ids, m \in Visible(w) : lastId[w] < m /\ m < n => m \in p.ids
  BY <1>2, <1>4 DEF HonestPoll
<1>6. /\ UNCHANGED <<messages, faults>> /\ AppendMessages(w, p.ids) /\ post' = post
      /\ polls' = [polls EXCEPT ![w] = polls[w] \ {p}]
  BY DEF DeliverPoll
<1>7. polls' \in [Widgets -> SUBSET Polls] /\ \A u \in Widgets : polls'[u] \subseteq polls[u]
  BY <1>1, <1>6
<1> QED
  BY <1>1, <1>3, <1>5, <1>6, <1>7, DeliverStep

LEMMA DeliverPostKeeps ==
  ASSUME IInv, NEW w \in Widgets, DeliverPost(w)
  PROVE  IInv'
<1> DEFINE id == post[w].id
<1>1. Tables /\ polls \in [Widgets -> SUBSET Polls] /\ post \in [Widgets -> Posts]
  BY TablesOf DEF IInv, TypeOK
<1>2. post[w].pc = "answered" /\ id \in Ids
  BY DEF DeliverPost, IInv, TypeOK
<1>3. messages[id].state = "committed" /\ messages[id].author = w
  BY <1>2 DEF IInv, PostsPoint
<1>4. {id} \in SUBSET Ids /\ {id} \subseteq MaySee(w)
  BY <1>2, <1>3 DEF MaySee, Committed
<1>5. /\ UNCHANGED <<messages, faults>> /\ AppendMessages(w, {id}) /\ polls' = polls
      /\ post' = [post EXCEPT ![w] = NoPost]
  BY DEF DeliverPost
<1>6. NoPost \in Posts
  BY DEF NoPost, Posts
<1>7. /\ post' \in [Widgets -> Posts]
      /\ \A u \in Widgets : post'[u] = post[u] \/ post'[u] = NoPost
  BY <1>1, <1>5, <1>6
<1> QED
  BY <1>1, <1>3, <1>4, <1>5, <1>7, DeliverStep

----------------------------------------------------------------------------
(* Steps of a submit on the server *)

\* What a page shows and what polls hold survive a change of the table that
\* hides nothing and, in order, shows only what comes after all that was
\* visible.
LEMMA TableStep ==
  ASSUME IInv, UNCHANGED <<polls, widgets>>,
         messages' \in Seq(Messages), Len(messages) <= Len(messages'),
         Len(messages') <= MaxMessages,
         \A m \in Ids : messages'[m].author = messages[m].author,
         \A w \in Widgets : Visible(w) \subseteq Visible(w)' /\ MaySee(w) \subseteq MaySee(w)',
         InOrder => \A w \in Widgets : \A n \in Visible(w), m \in Visible(w)' :
           m < n => m \in Visible(w)
  PROVE  /\ Ids \subseteq Ids' /\ lastId' \in [Widgets -> 0 .. Len(messages')]
         /\ PagesHonest' /\ PollsHonest' /\ OnlyOwnPostsSkip'
<1>1. Tables /\ shown' = shown /\ lastId' = lastId
  BY TablesOf DEF widgets
<1>2. Len(messages) \in Nat /\ Len(messages') \in Nat
  BY <1>1, IdTypes
<1>3. Ids \subseteq Ids' /\ lastId' \in [Widgets -> 0 .. Len(messages')]
  BY <1>1, <1>2 DEF Ids, Tables
<1>4. PagesHonest'
  <2>1. ASSUME NEW w \in Widgets
        PROVE  shown[w] \subseteq MaySee(w)'
    BY DEF IInv, PagesHonest
  <2> QED
    BY <1>1, <2>1 DEF IInv, PagesHonest
<1>5. PollsHonest'
  <2>1. SUFFICES ASSUME NEW w \in Widgets, NEW p \in polls[w]
                 PROVE  /\ p.since <= lastId[w]
                        /\ p.ids \subseteq Visible(w)'
                        /\ InOrder => \A n \in p.ids, m \in Visible(w)' :
                             p.since < m /\ m < n => m \in p.ids
    BY <1>1 DEF PollsHonest
  <2>2. HonestPoll(w, p)
    BY DEF IInv, PollsHonest, HonestPoll
  <2> QED
    BY <2>2 DEF HonestPoll
<1>6. OnlyOwnPostsSkip'
  <2>1. SUFFICES ASSUME InOrder, NEW w \in Widgets, NEW m \in Visible(w)',
                        m < lastId[w], m \notin shown[w]
                 PROVE  \E n \in shown[w] : n > m /\ messages'[n].author = w
    BY <1>1 DEF OnlyOwnPostsSkip, Skipped
  <2>2. m \in Nat /\ m # 0 /\ lastId[w] \in Nat
    BY <1>1, IdTypes DEF Visible, Committed, Ids
  <2>3. lastId[w] \in shown[w] /\ lastId[w] \in MaySee(w)
    BY <2>1, <2>2 DEF IInv, PagesHonest
  <2>4. CASE messages[lastId[w]].author = w
    <3>1. messages'[lastId[w]].author = w
      BY <2>3, <2>4 DEF MaySee, Committed
    <3> QED
      BY <2>1, <2>2, <2>3, <3>1
  <2>5. CASE messages[lastId[w]].author # w
    <3>1. lastId[w] \in Visible(w)
      BY <2>3, <2>5 DEF MaySee, Visible
    <3>2. m \in Visible(w)
      BY <2>1, <3>1
    <3>3. PICK n \in shown[w] : n > m /\ messages[n].author = w
      BY <2>1, <3>2 DEF IInv, OnlyOwnPostsSkip, Skipped
    <3>4. n \in Ids
      BY <1>1, <3>3, IdTypes
    <3> QED
      BY <3>3, <3>4
  <2> QED
    BY <2>4, <2>5
<1> QED
  BY <1>3, <1>4, <1>5, <1>6

LEMMA SubmitKeeps ==
  ASSUME IInv, NEW w \in Writers, NEW internal \in BOOLEAN, Submit(w, internal)
  PROVE  IInv'
<1> DEFINE new == [NoPost EXCEPT !.pc = "sent", !.internal = internal]
<1>1. new \in Posts /\ new.pc = "sent" /\ new.internal = internal
  BY DEF Posts, NoPost
<1>2. post \in [Widgets -> Posts] /\ w \in Widgets
  BY WidgetAssumption DEF IInv, TypeOK
<1>3. post' = [post EXCEPT ![w] = new]
      /\ UNCHANGED <<messages, polls, shown, lastId, faults>>
  BY DEF Submit, widgets
<1> HIDE DEF new
<1>4. post' \in [Widgets -> Posts] /\ post'[w] = new
      /\ \A u \in Widgets \ {w} : post'[u] = post[u]
  BY <1>1, <1>2, <1>3
<1>5. TypeOK'
  BY <1>1, <1>3, <1>4 DEF IInv, TypeOK, Ids
<1>6. PostsPoint'
  <2>1. SUFFICES ASSUME NEW u \in Widgets
                 PROVE  post'[u].pc \in {"inserted", "answered"} =>
                             /\ messages[post'[u].id].author = u
                             /\ messages[post'[u].id].state =
                                  IF post'[u].pc = "inserted" THEN "inserted" ELSE "committed"
    BY <1>3 DEF PostsPoint
  <2>2. CASE u = w
    BY <1>1, <1>3, <1>4, <2>2
  <2>3. CASE u # w
    BY <1>4, <2>3 DEF IInv, PostsPoint
  <2> QED
    BY <2>2, <2>3
<1>7. \A u \in Widgets : Visible(u)' = Visible(u) /\ MaySee(u)' = MaySee(u)
  BY <1>3 DEF Visible, MaySee, Committed, Ids
<1>8. PagesHonest' /\ PollsHonest' /\ OnlyOwnPostsSkip'
  BY <1>3, <1>7 DEF IInv, PagesHonest, PollsHonest, OnlyOwnPostsSkip, Skipped
<1>9. Len(messages') <= MaxMessages /\ CommittedInOrder'
  BY <1>3 DEF IInv, CommittedInOrder, Ids
<1> QED
  BY <1>5, <1>6, <1>8, <1>9 DEF IInv

LEMMA RequestTypes ==
  ASSUME NEW r \in Posts, NEW id \in Nat
  PROVE  LET q == [r EXCEPT !.pc = "inserted", !.id = id] IN
         q \in Posts /\ q.pc = "inserted" /\ q.id = id /\ q.internal = r.internal
BY DEF Posts

LEMMA InsertKeeps ==
  ASSUME IInv, NEW w \in Writers, Insert(w)
  PROVE  IInv'
<1> DEFINE new == [author |-> w, internal |-> post[w].internal, state |-> "inserted"]
           id == Len(messages) + 1
           request == [post[w] EXCEPT !.pc = "inserted", !.id = id]
<1>1. Tables /\ post \in [Widgets -> Posts] /\ w \in Widgets /\ Len(messages) \in Nat
  BY WidgetAssumption, TablesOf, IdTypes DEF IInv, TypeOK
<1>2. post[w] \in Posts /\ post[w].pc = "sent" /\ Len(messages) < MaxMessages
  BY <1>1 DEF Insert
<1>3. new \in Messages
  BY <1>2 DEF Messages, Posts
<1>4. messages' = Append(messages, new) /\ post' = [post EXCEPT ![w] = request]
      /\ UNCHANGED <<polls, shown, lastId, faults>>
  BY <1>1 DEF Insert, widgets
<1>5. request \in Posts /\ request.pc = "inserted" /\ request.id = id
      /\ request.internal = post[w].internal
  <2>1. id \in Nat
    BY <1>1
  <2> HIDE DEF id
  <2> QED
    BY <1>2, <2>1, RequestTypes
<1>6. new.author = w /\ new.internal = post[w].internal /\ new.state = "inserted"
  OBVIOUS
<1> HIDE DEF new, request
<1>7. /\ messages' \in Seq(Messages) /\ Len(messages') = id /\ messages'[id] = new
      /\ Ids' = Ids \cup {id} /\ id \notin Ids
      /\ \A m \in Ids : messages'[m] = messages[m]
  BY <1>1, <1>3, <1>4 DEF Tables, Ids
<1>8. post' \in [Widgets -> Posts] /\ post'[w] = request
      /\ \A u \in Widgets \ {w} : post'[u] = post[u]
  BY <1>1, <1>4, <1>5
<1>9. \A u \in Widgets : Visible(u)' = Visible(u) /\ MaySee(u)' = MaySee(u)
  BY <1>6, <1>7 DEF Visible, MaySee, Committed
<1>10. /\ Len(messages') <= MaxMessages
       /\ Ids \subseteq Ids' /\ lastId' \in [Widgets -> 0 .. Len(messages')]
       /\ PagesHonest' /\ PollsHonest' /\ OnlyOwnPostsSkip'
  <2>1. MaxMessages \in Nat
    BY <1>1, IdTypes
  <2>2. Len(messages) <= Len(messages') /\ Len(messages') <= MaxMessages
    BY <1>1, <1>2, <1>7, <2>1
  <2>3. UNCHANGED <<polls, widgets>>
    BY <1>4 DEF widgets
  <2> QED
    BY <1>7, <1>9, <2>2, <2>3, TableStep
<1>11. TypeOK'
  <2>1. ASSUME NEW u \in Widgets, post'[u].pc \in {"inserted", "answered"}
        PROVE  post'[u].id \in Ids'
    BY <1>5, <1>7, <1>8, <2>1 DEF IInv, TypeOK
  <2> QED
    BY <1>4, <1>7, <1>8, <1>10, <2>1 DEF IInv, TypeOK
<1>12. PostsPoint'
  <2>1. SUFFICES ASSUME NEW u \in Widgets
                 PROVE  post'[u].pc \in {"inserted", "answered"} =>
                             /\ messages'[post'[u].id].author = u
                             /\ messages'[post'[u].id].state =
                                  IF post'[u].pc = "inserted" THEN "inserted" ELSE "committed"
    BY DEF PostsPoint
  <2>2. CASE u = w
    BY <1>1, <1>5, <1>6, <1>7, <1>8, <2>2 DEF IInv, PostsPoint
  <2>3. CASE u # w
    <3>1. post[u].pc \in {"inserted", "answered"} => post[u].id \in Ids
      BY DEF IInv, TypeOK
    <3> QED
      BY <1>7, <1>8, <2>3, <3>1 DEF IInv, PostsPoint
  <2> QED
    BY <2>2, <2>3
<1>13. CommittedInOrder'
  <2>1. SUFFICES ASSUME InOrder, NEW n \in Ids', messages'[n].state = "committed",
                        NEW m \in Ids', m < n
                 PROVE  messages'[m].state # "inserted"
    BY DEF CommittedInOrder
  <2>2. n \in Ids
    BY <1>6, <1>7, <2>1
  <2>3. m \in Ids
    BY <1>1, <1>7, <2>1, <2>2 DEF Ids
  <2> QED
    BY <1>7, <2>1, <2>2, <2>3 DEF IInv, CommittedInOrder
<1> QED
  BY <1>10, <1>11, <1>12, <1>13 DEF IInv

\* A message that leaves the state inserted, for new: what TypeOK and the
\* requests of the others keep.
LEMMA Settles ==
  ASSUME IInv, NEW w \in Writers, NEW new \in {"committed", "gone"},
         post[w].pc = "inserted",
         messages' = [messages EXCEPT ![post[w].id].state = new],
         NEW r \in Posts, post' = [post EXCEPT ![w] = r],
         r.pc \in {"inserted", "answered"} =>
           r.pc = "answered" /\ new = "committed" /\ r.id = post[w].id
  PROVE  LET id == post[w].id IN
         /\ w \in Widgets /\ id \in Ids /\ messages[id].state = "inserted"
         /\ messages' \in Seq(Messages) /\ Len(messages') = Len(messages) /\ Ids' = Ids
         /\ \A m \in Ids \ {id} : messages'[m] = messages[m]
         /\ messages'[id].state = new
         /\ \A m \in Ids : /\ messages'[m].author = messages[m].author
                           /\ messages'[m].internal = messages[m].internal
         /\ post' \in [Widgets -> Posts]
         /\ \A u \in Widgets : post'[u].pc \in {"inserted", "answered"} => post'[u].id \in Ids
         /\ PostsPoint'
<1> DEFINE id == post[w].id
<1>1. Tables /\ post \in [Widgets -> Posts] /\ w \in Widgets /\ Len(messages) \in Nat
  BY WidgetAssumption, TablesOf, IdTypes DEF IInv, TypeOK
<1>2. id \in Ids /\ messages[id].state = "inserted" /\ messages[id].author = w
  BY <1>1 DEF IInv, TypeOK, PostsPoint
<1>3. messages \in Seq(Messages) /\ messages[id] \in Messages
  BY <1>1, <1>2, IdTypes DEF Tables
<1> DEFINE m0 == [messages[id] EXCEPT !.state = new]
<1>4. m0 \in Messages /\ m0.state = new /\ m0.author = messages[id].author
      /\ m0.internal = messages[id].internal
  BY <1>3 DEF Messages
<1>5. messages' = [messages EXCEPT ![id] = m0]
  OBVIOUS
<1> HIDE DEF m0
<1>6. /\ messages' \in Seq(Messages) /\ Len(messages') = Len(messages) /\ Ids' = Ids
      /\ \A m \in Ids \ {id} : messages'[m] = messages[m]
      /\ messages'[id] = m0
  BY <1>2, <1>3, <1>4, <1>5 DEF Ids
<1>7. \A m \in Ids : /\ messages'[m].author = messages[m].author
                     /\ messages'[m].internal = messages[m].internal
  BY <1>4, <1>6
<1>8. post' \in [Widgets -> Posts] /\ post'[w] = r /\ \A u \in Widgets \ {w} : post'[u] = post[u]
  BY <1>1
<1>9. \A u \in Widgets : post'[u].pc \in {"inserted", "answered"} => post'[u].id \in Ids
  BY <1>2, <1>8 DEF IInv, TypeOK
<1>10. PostsPoint'
  <2>1. SUFFICES ASSUME NEW u \in Widgets
                 PROVE  post'[u].pc \in {"inserted", "answered"} =>
                             /\ messages'[post'[u].id].author = u
                             /\ messages'[post'[u].id].state =
                                  IF post'[u].pc = "inserted" THEN "inserted" ELSE "committed"
    BY DEF PostsPoint
  <2>2. CASE u = w
    BY <1>2, <1>4, <1>6, <1>8, <2>2 DEF IInv, PostsPoint
  <2>3. CASE u # w
    <3>1. post'[u] = post[u]
      BY <1>8, <2>3
    <3>2. ASSUME post[u].pc \in {"inserted", "answered"}
          PROVE  post[u].id \in Ids \ {id}
      BY <1>2, <2>3, <3>2 DEF IInv, TypeOK, PostsPoint
    <3> QED
      BY <1>6, <3>1, <3>2 DEF IInv, PostsPoint
  <2> QED
    BY <2>2, <2>3
<1> QED
  BY <1>1, <1>2, <1>4, <1>6, <1>7, <1>8, <1>9, <1>10

LEMMA CommitKeeps ==
  ASSUME IInv, NEW w \in Writers, Commit(w)
  PROVE  IInv'
<1> DEFINE id == post[w].id
           r == [post[w] EXCEPT !.pc = "answered"]
<1>1. Tables /\ post[w] \in Posts /\ post[w].pc = "inserted"
  BY TablesOf, WidgetAssumption DEF IInv, TypeOK, Commit, PostsPoint
<1>2. r \in Posts /\ r.pc = "answered" /\ r.id = id /\ r.internal = post[w].internal
  BY <1>1 DEF Posts
<1>3. /\ messages' = [messages EXCEPT ![id].state = "committed"]
      /\ post' = [post EXCEPT ![w] = r]
      /\ UNCHANGED <<polls, shown, lastId, faults>>
  BY DEF Commit, widgets
<1> HIDE DEF r
<1>4. /\ w \in Widgets /\ id \in Ids /\ messages[id].state = "inserted"
      /\ messages' \in Seq(Messages) /\ Len(messages') = Len(messages) /\ Ids' = Ids
      /\ \A m \in Ids \ {id} : messages'[m] = messages[m]
      /\ messages'[id].state = "committed"
      /\ \A m \in Ids : /\ messages'[m].author = messages[m].author
                        /\ messages'[m].internal = messages[m].internal
      /\ post' \in [Widgets -> Posts]
      /\ \A u \in Widgets : post'[u].pc \in {"inserted", "answered"} => post'[u].id \in Ids
      /\ PostsPoint'
  BY <1>1, <1>2, <1>3, Settles
<1>5. \A u \in Widgets : /\ Visible(u) \subseteq Visible(u)'
                           /\ Visible(u)' \subseteq Visible(u) \cup {id}
                           /\ MaySee(u) \subseteq MaySee(u)'
  BY <1>4 DEF Visible, MaySee, Committed
<1>6. InOrder => \A m \in Ids : m < id => messages[m].state # "inserted"
  BY <1>4 DEF Commit, Ids
<1>7. InOrder => \A n \in Ids : messages[n].state = "committed" => ~ id < n
  BY <1>4 DEF IInv, CommittedInOrder
<1>8. InOrder => \A u \in Widgets : \A n \in Visible(u), m \in Visible(u)' :
        m < n => m \in Visible(u)
  BY <1>5, <1>7 DEF Visible, Committed
<1>9. /\ Ids \subseteq Ids' /\ lastId' \in [Widgets -> 0 .. Len(messages')]
      /\ PagesHonest' /\ PollsHonest' /\ OnlyOwnPostsSkip'
      /\ Len(messages') <= MaxMessages
  <2>1. Len(messages) <= Len(messages') /\ Len(messages') <= MaxMessages
    BY <1>1, <1>4, IdTypes DEF Tables
  <2>2. UNCHANGED <<polls, widgets>>
    BY <1>3 DEF widgets
  <2>3. /\ \A m \in Ids : messages'[m].author = messages[m].author
        /\ \A u \in Widgets : Visible(u) \subseteq Visible(u)' /\ MaySee(u) \subseteq MaySee(u)'
    BY <1>4, <1>5
  <2> QED
    BY <1>4, <1>8, <2>1, <2>2, <2>3, TableStep
<1>10. TypeOK'
  BY <1>3, <1>4, <1>9 DEF IInv, TypeOK
<1>11. CommittedInOrder'
  <2>1. SUFFICES ASSUME InOrder, NEW n \in Ids, messages'[n].state = "committed",
                        NEW m \in Ids, m < n
                 PROVE  messages'[m].state # "inserted"
    BY <1>4 DEF CommittedInOrder
  <2>2. messages[m].state # "inserted" \/ m = id
    <3>1. CASE n = id
      BY <1>6, <2>1, <3>1
    <3>2. CASE n # id
      BY <1>4, <2>1, <3>2 DEF IInv, CommittedInOrder
    <3> QED
      BY <3>1, <3>2
  <2> QED
    BY <1>4, <2>2
<1> QED
  BY <1>4, <1>9, <1>10, <1>11 DEF IInv

LEMMA LosePostKeeps ==
  ASSUME IInv, NEW w \in Writers, LosePost(w)
  PROVE  IInv'
<1> DEFINE id == post[w].id
<1>1. Tables /\ post \in [Widgets -> Posts] /\ w \in Widgets
  BY TablesOf, WidgetAssumption DEF IInv, TypeOK
<1>2. NoPost \in Posts /\ NoPost.pc = "none" /\ ~ NoPost.internal
  BY DEF NoPost, Posts
<1>3. /\ post' = [post EXCEPT ![w] = NoPost] /\ faults' \in Nat
      /\ UNCHANGED <<polls, shown, lastId>>
  BY DEF LosePost, widgets, IInv, TypeOK
<1> HIDE DEF NoPost
<1>4. CASE post[w].pc = "inserted"
  <2>1. messages' = [messages EXCEPT ![id].state = "gone"]
    BY <1>4 DEF LosePost
  <2>2. /\ id \in Ids /\ messages[id].state = "inserted"
        /\ messages' \in Seq(Messages) /\ Len(messages') = Len(messages) /\ Ids' = Ids
        /\ \A m \in Ids \ {id} : messages'[m] = messages[m]
        /\ messages'[id].state = "gone"
        /\ \A m \in Ids : /\ messages'[m].author = messages[m].author
                          /\ messages'[m].internal = messages[m].internal
        /\ post' \in [Widgets -> Posts]
        /\ \A u \in Widgets : post'[u].pc \in {"inserted", "answered"} => post'[u].id \in Ids
        /\ PostsPoint'
    BY <1>2, <1>3, <1>4, <2>1, Settles
  <2>3. \A u \in Widgets : Visible(u)' = Visible(u) /\ MaySee(u)' = MaySee(u)
    BY <2>2 DEF Visible, MaySee, Committed
  <2>4. Len(messages) <= Len(messages') /\ Len(messages') <= MaxMessages
    BY <1>1, <2>2, IdTypes DEF Tables
  <2>5. UNCHANGED <<polls, widgets>>
    BY <1>3 DEF widgets
  <2>6. /\ lastId' \in [Widgets -> 0 .. Len(messages')]
        /\ PagesHonest' /\ PollsHonest' /\ OnlyOwnPostsSkip'
    BY <2>2, <2>3, <2>4, <2>5, TableStep
  <2>7. TypeOK'
    BY <1>3, <2>2, <2>6 DEF IInv, TypeOK
  <2>8. CommittedInOrder'
    BY <2>2 DEF IInv, CommittedInOrder
  <2> QED
    BY <2>2, <2>4, <2>6, <2>7, <2>8 DEF IInv
<1>5. CASE post[w].pc # "inserted"
  <2>1. messages' = messages
    BY <1>5 DEF LosePost
  <2>2. \A u \in Widgets : Visible(u)' = Visible(u) /\ MaySee(u)' = MaySee(u)
    BY <2>1 DEF Visible, MaySee, Committed, Ids
  <2>3. post' \in [Widgets -> Posts] /\ \A u \in Widgets : post'[u] = post[u] \/ post'[u] = NoPost
    BY <1>1, <1>2, <1>3
  <2>4. TypeOK' /\ PostsPoint'
    BY <1>2, <1>3, <2>1, <2>3 DEF IInv, TypeOK, PostsPoint, Ids
  <2>5. PagesHonest' /\ PollsHonest' /\ OnlyOwnPostsSkip'
    BY <1>3, <2>1, <2>2 DEF IInv, PagesHonest, PollsHonest, OnlyOwnPostsSkip, Skipped
  <2>6. Len(messages') <= MaxMessages /\ CommittedInOrder'
    BY <1>3, <2>1 DEF IInv, CommittedInOrder, Ids
  <2> QED
    BY <2>4, <2>5, <2>6 DEF IInv
<1> QED
  BY <1>4, <1>5

----------------------------------------------------------------------------
(* The theorems *)

LEMMA InitHolds == Init => IInv
<1> SUFFICES ASSUME Init PROVE IInv
  OBVIOUS
<1>1. Len(messages) = 0 /\ messages \in Seq(Messages) /\ Ids = {} /\ MaxMessages \in Nat
  BY BoundAssumption DEF Init, Ids
<1>2. NoPost \in Posts /\ NoPost.pc = "none" /\ ~ NoPost.internal
  BY DEF NoPost, Posts
<1>3. TypeOK
  BY <1>1, <1>2 DEF Init, TypeOK
<1>4. PostsPoint
  BY <1>2 DEF Init, PostsPoint
<1>5. PagesHonest /\ PollsHonest /\ CommittedInOrder /\ OnlyOwnPostsSkip
  BY <1>1 DEF Init, PagesHonest, PollsHonest, CommittedInOrder, OnlyOwnPostsSkip,
              Skipped, Visible, MaySee, Committed
<1> QED
  BY <1>1, <1>3, <1>4, <1>5 DEF IInv

LEMMA StepKeeps == IInv /\ [Next]_vars => IInv'
<1> SUFFICES ASSUME IInv, [Next]_vars PROVE IInv'
  OBVIOUS
<1>1. ASSUME NEW w \in Widgets, SendPoll(w)
      PROVE  IInv'
  BY <1>1, SendPollKeeps
<1>2. ASSUME NEW w \in Widgets, NEW p \in polls[w],
             AnswerPoll(w, p) \/ DeliverPoll(w, p) \/ LosePoll(w, p)
      PROVE  IInv'
  BY <1>2, AnswerPollKeeps, DeliverPollKeeps, LosePollKeeps
<1>3. ASSUME NEW w \in Writers,
             \/ \E internal \in BOOLEAN : Submit(w, internal)
             \/ Insert(w) \/ Commit(w) \/ DeliverPost(w) \/ LosePost(w)
      PROVE  IInv'
  BY <1>3, WidgetAssumption, SubmitKeeps, InsertKeeps, CommitKeeps, DeliverPostKeeps,
     LosePostKeeps
<1>4. CASE UNCHANGED vars
  BY <1>4 DEF vars, widgets, IInv, TypeOK, Ids, PostsPoint, PagesHonest, PollsHonest,
              CommittedInOrder, OnlyOwnPostsSkip, Skipped, Visible, MaySee, Committed
<1> QED
  BY <1>1, <1>2, <1>3, <1>4 DEF Next

\* The inductive invariant of a thread: it adds that requests know their own
\* messages (PostsPoint), that a page shows only what its user may see or wrote, up
\* to lastId (PagesHonest), that an answer has no gap (PollsHonest), and what
\* committing in order means (CommittedInOrder).
THEOREM Invariance == Spec => []IInv
BY InitHolds, StepKeeps, PTL DEF Spec

\* The variables keep their types, and a submit that is answered has its row.
THEOREM TypeCorrect == Spec => []TypeOK
<1>1. IInv => TypeOK
  BY DEF IInv
<1> QED
  BY <1>1, Invariance, PTL

\* No client's page shows an internal message somebody else wrote
\* (filter_visible_messages, get, post).
THEOREM InternalNeverShown == Spec => []InternalStaysInside
<1>1. IInv => InternalStaysInside
  BY DEF IInv, PagesHonest, MaySee, InternalStaysInside
<1> QED
  BY <1>1, Invariance, PTL

\* Where messages commit in the order of their ids, a page passes over a
\* message only by showing a later one of its own user (fetchMessages,
\* appendMessages).
THEOREM SkipsOnlyOwn == Spec => []OnlyOwnPostsSkip
<1>1. IInv => OnlyOwnPostsSkip
  BY DEF IInv
<1> QED
  BY <1>1, Invariance, PTL

LEMMA Grows ==
  ASSUME IInv, NEW w \in Widgets, NEW ids \in SUBSET Ids, AppendMessages(w, ids),
         NEW u \in Widgets
  PROVE  lastId'[u] >= lastId[u]
<1>1. Tables
  BY TablesOf
<1>2. lastId[u] \in Nat /\ lastId'[u] \in Nat
  BY <1>1, IdTypes, Appended
<1>3. lastId'[u] = lastId[u] \/ lastId[u] <= lastId'[u]
  BY <1>1, Appended
<1> QED
  BY <1>2, <1>3

\* lastId never goes back, in whatever order answers arrive (appendMessages).
THEOREM LastIdMonotone == Spec => LastIdGrows
<1>1. IInv /\ [Next]_vars => [\A w \in Widgets : lastId'[w] >= lastId[w]]_vars
  <2> SUFFICES ASSUME IInv, Next, NEW u \in Widgets PROVE lastId'[u] >= lastId[u]
    OBVIOUS
  <2>1. lastId' = lastId => lastId'[u] >= lastId[u]
    BY TablesOf, IdTypes
  <2>2. ASSUME NEW w \in Widgets, NEW p \in polls[w], DeliverPoll(w, p)
        PROVE  lastId'[u] >= lastId[u]
    <3>1. p.ids \in SUBSET Ids
      BY TablesOf, IdTypes DEF IInv, PollsHonest
    <3> QED
      BY <2>2, <3>1, Grows DEF DeliverPoll
  <2>3. ASSUME NEW w \in Writers, DeliverPost(w)
        PROVE  lastId'[u] >= lastId[u]
    <3>1. {post[w].id} \in SUBSET Ids /\ w \in Widgets
      BY <2>3, WidgetAssumption DEF DeliverPost, IInv, TypeOK
    <3> QED
      BY <2>3, <3>1, Grows DEF DeliverPost
  <2> QED
    BY <2>1, <2>2, <2>3 DEF Next, SendPoll, AnswerPoll, LosePoll, Submit, Insert, Commit,
                            LosePost, widgets
<1> QED
  BY <1>1, Invariance, PTL DEF Spec, LastIdGrows
=============================================================================
