-------------------------- MODULE EmailLogin_proofs --------------------------
(***************************************************************************)
(* Proofs about EmailLogin, for every number of workers, every set of      *)
(* addresses and every user table to begin with.                           *)
(***************************************************************************)
EXTENDS EmailLogin, TLAPS

----------------------------------------------------------------------------
(* What every step does to the tables *)

\* Rows are appended and never change their address, and a code accepted
\* stays accepted.
Grows ==
  /\ codes' \in Seq(Codes) /\ accounts' \in Seq(AccountRows)
  /\ Len(codes) <= Len(codes') /\ Len(accounts) <= Len(accounts')
  /\ \A c \in Ids : /\ codes'[c].email = codes[c].email
                    /\ codes[c].uses > 0 => codes'[c].uses > 0
  /\ \A a \in 1 .. Len(accounts) : accounts'[a].email = accounts[a].email

\* Both tables as they are, or the code table with its rows edited in the
\* columns status, aged and uses.
LEMMA SameTablesGrow ==
  ASSUME TypeOK, UNCHANGED <<codes, accounts>>
  PROVE  Grows
BY DEF TypeOK, Grows, Ids

LEMMA EditedTable ==
  ASSUME TypeOK, NEW c \in Ids, NEW row \in Codes,
         codes' = [codes EXCEPT ![c] = row]
  PROVE  /\ codes' \in Seq(Codes) /\ Len(codes') = Len(codes)
         /\ \A d \in Ids : codes'[d] = IF d = c THEN row ELSE codes[d]
BY DEF TypeOK, Ids

LEMMA EditGrows ==
  ASSUME TypeOK, NEW c \in Ids, NEW row \in Codes,
         row.email = codes[c].email, codes[c].uses > 0 => row.uses > 0,
         codes' = [codes EXCEPT ![c] = row], UNCHANGED accounts
  PROVE  Grows
<1>1. /\ codes' \in Seq(Codes) /\ Len(codes') = Len(codes)
      /\ \A d \in Ids : codes'[d] = IF d = c THEN row ELSE codes[d]
  BY EditedTable
<1>2. accounts' = accounts /\ accounts \in Seq(AccountRows) /\ Len(codes) \in Nat
  BY DEF TypeOK
<1> QED  BY <1>1, <1>2 DEF Grows

\* What a request holds stays true of tables that grow.
LEMMA TaskOKGrows ==
  ASSUME TypeOK, Grows, NEW t, TaskOK(t)
  PROVE  TaskOK(t)'
<1>1. Len(codes) \in Nat /\ Len(codes') \in Nat
      /\ Len(accounts) \in Nat /\ Len(accounts') \in Nat
  BY DEF TypeOK, Grows
<1>2. Ids \subseteq Ids'
  BY <1>1 DEF Ids, Grows
<1>3. \A a \in 1 .. Len(accounts) : a \in 1 .. Len(accounts')
  BY <1>1 DEF Grows
<1> QED  BY <1>2, <1>3 DEF TaskOK, Grows

LEMMA LoginsGrow ==
  ASSUME TypeOK, Grows, LoginOwnsAddress, UNCHANGED logins
  PROVE  LoginOwnsAddress'
<1>1. SUFFICES ASSUME NEW l \in logins
      PROVE  /\ codes'[l.code].uses > 0
             /\ Lower[accounts'[l.account].email] = Lower[codes'[l.code].email]
  BY DEF LoginOwnsAddress
<1>2. l.code \in Ids /\ l.account \in 1 .. Len(accounts)
  BY DEF TypeOK, Ids
<1> QED  BY <1>2 DEF LoginOwnsAddress, Grows

\* A step of worker w that leaves it with task t and opens no login.
LEMMA TaskStep ==
  ASSUME IInv, Grows, NEW w \in Workers, NEW t \in Tasks,
         task' = [task EXCEPT ![w] = t], TaskOK(t)',
         UNCHANGED <<tokens, logins>>, faults' \in Nat
  PROVE  IInv'
<1>1. Len(codes) \in Nat /\ Len(codes') \in Nat
      /\ Len(accounts) \in Nat /\ Len(accounts') \in Nat
  BY DEF IInv, TypeOK, Grows
<1>2. tokens' \subseteq 1 .. Len(accounts')
  BY <1>1 DEF IInv, TypeOK, Grows
<1>3. logins' \subseteq [code: 1 .. Len(codes'), account: 1 .. Len(accounts')]
  <2>1. 1 .. Len(codes) \subseteq 1 .. Len(codes')
        /\ 1 .. Len(accounts) \subseteq 1 .. Len(accounts')
    BY <1>1 DEF Grows
  <2> QED  BY <2>1 DEF IInv, TypeOK
<1>4. TypeOK'
  BY <1>2, <1>3 DEF IInv, TypeOK, Grows
<1>5. ASSUME NEW x \in Workers
      PROVE  TaskOK(task[x])'
  <2>1. CASE x = w
    BY <2>1 DEF IInv, TypeOK
  <2>2. CASE x # w
    <3>1. PICK c : c = task[x] /\ c = task'[x] /\ TaskOK(c)
      BY <2>2 DEF IInv, TypeOK
    <3>2. TaskOK(c)'
      BY <3>1, TaskOKGrows DEF IInv
    <3> QED  BY <3>1, <3>2
  <2> QED  BY <2>1, <2>2
<1> QED  BY <1>4, <1>5, LoginsGrow DEF IInv

\* One of the tasks, with its facts.
LEMMA TaskFacts ==
  ASSUME IInv, NEW w \in Workers
  PROVE  task[w] \in Tasks /\ TaskOK(task[w])
BY DEF IInv, TypeOK

LEMMA IdleIsTask ==
  Idle \in Tasks /\ TaskOK(Idle) /\ TaskOK(Idle)'
<1>1. (CHOOSE e \in Emails : TRUE) \in Emails
  BY EmailsAssumption
<1> QED  BY <1>1 DEF Idle, Tasks, TaskOK

----------------------------------------------------------------------------
(* One lemma per action that only moves its request on *)

\* Tables untouched, and the task's new value given.
LEMMA QuietStep ==
  ASSUME IInv, NEW w \in Workers, NEW t \in Tasks, TaskOK(t),
         task' = [task EXCEPT ![w] = t],
         UNCHANGED <<codes, accounts, tokens, logins>>, faults' \in Nat
  PROVE  IInv'
<1>1. Grows
  BY SameTablesGrow DEF IInv
<1>2. TaskOK(t)'
  BY <1>1, TaskOKGrows DEF IInv
<1> QED  BY <1>1, <1>2, TaskStep

LEMMA DoneStep ==
  ASSUME IInv, NEW w \in Workers, Done(w), UNCHANGED <<codes, accounts>>,
         UNCHANGED <<tokens, logins>>, faults' \in Nat
  PROVE  IInv'
BY QuietStep, IdleIsTask DEF Done

LEMMA RequestCodeKeepsIInv ==
  ASSUME IInv, NEW w \in Workers, NEW e \in Emails, RequestCode(w, e)
  PROVE  IInv'
<1>1. PICK t : /\ t = [Idle EXCEPT !.pc = "expire", !.email = e,
                         !.stale = {c \in Ids : codes[c].email = e
                                               /\ codes[c].status = "PENDING"}]
               /\ task' = [task EXCEPT ![w] = t]
  BY DEF RequestCode
<1>2. Ids \subseteq Nat
  BY DEF Ids
<1>3. t \in Tasks /\ TaskOK(t)
  BY <1>1, <1>2, IdleIsTask DEF Idle, Tasks, TaskOK
<1> QED  BY <1>1, <1>3, QuietStep DEF RequestCode, IInv, TypeOK

LEMMA SubmitCodeKeepsIInv ==
  ASSUME IInv, NEW w \in Workers, NEW e \in Emails, NEW d \in Digits,
         SubmitCode(w, e, d)
  PROVE  IInv'
<1>1. PICK c, t : /\ c \in Matching(e, d)
                  /\ t = [Idle EXCEPT !.pc = "check", !.email = e, !.code = c]
                  /\ task' = [task EXCEPT ![w] = t]
  BY DEF SubmitCode
<1>2. c \in Ids /\ codes[c].email = e /\ c \in Nat
  BY <1>1 DEF Matching, Ids
<1>3. t \in Tasks /\ TaskOK(t)
  BY <1>1, <1>2, IdleIsTask DEF Idle, Tasks, TaskOK
<1> QED  BY <1>1, <1>3, QuietStep DEF SubmitCode, IInv, TypeOK

LEMMA FindKeepsIInv ==
  ASSUME IInv, NEW w \in Workers, FindActive(w) \/ FindAny(w)
  PROVE  IInv'
<1>1. task[w].pc \in {"active", "any"} /\ faults' \in Nat
      /\ UNCHANGED <<codes, accounts, tokens, logins>>
  BY DEF FindActive, FindAny, IInv, TypeOK
<1>2. task[w] \in Tasks /\ TaskOK(task[w])
  BY TaskFacts
<1>3. ASSUME NEW pc \in {"any", "create"}, Become(w, pc)
      PROVE  IInv'
  <2>1. PICK t : t = [task[w] EXCEPT !.pc = pc] /\ task' = [task EXCEPT ![w] = t]
    BY <1>3 DEF Become
  <2>2. t \in Tasks /\ TaskOK(t)
    BY <1>1, <1>2, <2>1 DEF Tasks, TaskOK
  <2> QED  BY <1>1, <2>1, <2>2, QuietStep
<1>4. ASSUME NEW found, found \subseteq MatchingAccounts(task[w].email),
             Take(w, found)
      PROVE  IInv'
  <2>1. PICK a, t : /\ a \in found
                    /\ t = [task[w] EXCEPT !.pc = "token", !.account = a]
                    /\ task' = [task EXCEPT ![w] = t]
    BY <1>2, <1>4 DEF Take, IInv, TypeOK
  <2>2. /\ a \in 1 .. Len(accounts) /\ a \in Nat
        /\ Lower[accounts[a].email] = Lower[task[w].email]
    BY <1>4, <2>1 DEF MatchingAccounts
  <2>3. t \in Tasks /\ TaskOK(t)
    BY <1>1, <1>2, <2>1, <2>2 DEF Tasks, TaskOK
  <2> QED  BY <1>1, <2>1, <2>3, QuietStep
<1> QED  BY <1>3, <1>4 DEF FindActive, FindAny

----------------------------------------------------------------------------
(* The actions that write a table *)

LEMMA ExpireNextKeepsIInv ==
  ASSUME IInv, NEW w \in Workers, ExpireNext(w)
  PROVE  IInv'
<1>0. PICK c \in task[w].stale :
        /\ codes' = [codes EXCEPT ![c].status = "EXPIRED"]
        /\ task' = [task EXCEPT ![w].stale = @ \ {c}]
  BY DEF ExpireNext
<1>1. PICK row, t :
        /\ row = [codes[c] EXCEPT !.status = "EXPIRED"]
        /\ codes' = [codes EXCEPT ![c] = row]
        /\ t = [task[w] EXCEPT !.stale = @ \ {c}]
        /\ task' = [task EXCEPT ![w] = t]
  BY <1>0
<1>2. task[w] \in Tasks /\ TaskOK(task[w]) /\ task[w].pc = "expire"
  BY TaskFacts DEF ExpireNext
<1>3. c \in Ids /\ codes[c] \in Codes
  BY <1>0, <1>2 DEF TaskOK, IInv, TypeOK, Ids
<1>4. row \in Codes /\ row.email = codes[c].email /\ row.uses = codes[c].uses
  BY <1>1, <1>3 DEF Codes, CodeStatuses
<1>5. Grows
  BY <1>1, <1>3, <1>4, EditGrows DEF ExpireNext, IInv
<1>6. t \in Tasks /\ t.stale \subseteq task[w].stale /\ t.pc = "expire"
  BY <1>1, <1>2 DEF Tasks
<1>7. TaskOK(t)
  BY <1>2, <1>6 DEF TaskOK
<1>8. TaskOK(t)'
  BY <1>5, <1>7, TaskOKGrows DEF IInv
<1> QED  BY <1>1, <1>5, <1>6, <1>8, TaskStep DEF ExpireNext, IInv, TypeOK

LEMMA CreateCodeKeepsIInv ==
  ASSUME IInv, NEW w \in Workers, CreateCode(w)
  PROVE  IInv'
<1>1. PICK d, row, t :
        /\ d \in Digits
        /\ row = [email |-> task[w].email, digits |-> d, status |-> "PENDING",
                  aged |-> FALSE, uses |-> 0]
        /\ codes' = Append(codes, row)
        /\ t = [task[w] EXCEPT !.pc = "send"]
        /\ task' = [task EXCEPT ![w] = t]
  BY DEF CreateCode, Become
<1>2. task[w] \in Tasks /\ task[w].stale = {}
  BY TaskFacts DEF CreateCode
<1>3. row \in Codes
  BY <1>1, <1>2 DEF Tasks, Codes, CodeStatuses
<1>4. codes \in Seq(Codes) /\ accounts \in Seq(AccountRows)
  BY DEF IInv, TypeOK
<1>5. /\ codes' \in Seq(Codes) /\ Len(codes') = Len(codes) + 1
      /\ \A c \in 1 .. Len(codes) : codes'[c] = codes[c]
  BY <1>1, <1>3, <1>4
<1>6. Grows
  BY <1>4, <1>5 DEF CreateCode, Grows, Ids
<1>7. t \in Tasks /\ t.stale = {} /\ t.pc = "send"
  BY <1>1, <1>2 DEF Tasks
<1>8. TaskOK(t)'
  BY <1>7 DEF TaskOK
<1> QED  BY <1>1, <1>6, <1>7, <1>8, TaskStep DEF CreateCode, IInv, TypeOK

LEMMA RejectAgedKeepsIInv ==
  ASSUME IInv, NEW w \in Workers, RejectAged(w)
  PROVE  IInv'
<1>1. PICK c, row : /\ c = task[w].code
                    /\ row = [codes[c] EXCEPT !.status = "EXPIRED"]
                    /\ codes' = [codes EXCEPT ![c] = row]
  BY DEF RejectAged
<1>2. c \in Ids /\ codes[c] \in Codes
  BY <1>1, TaskFacts DEF RejectAged, TaskOK, IInv, TypeOK, Ids
<1>3. row \in Codes /\ row.email = codes[c].email /\ row.uses = codes[c].uses
  BY <1>1, <1>2 DEF Codes, CodeStatuses
<1>4. Grows
  BY <1>1, <1>2, <1>3, EditGrows DEF RejectAged, IInv
<1> QED  BY <1>4, IdleIsTask, TaskStep DEF RejectAged, Done, IInv, TypeOK

LEMMA AcceptCodeKeepsIInv ==
  ASSUME IInv, NEW w \in Workers, AcceptCode(w)
  PROVE  IInv'
<1>1. PICK c, row, t :
        /\ c = task[w].code
        /\ row = [codes[c] EXCEPT !.status = "VERIFIED", !.uses = @ + 1]
        /\ codes' = [codes EXCEPT ![c] = row]
        /\ t = [task[w] EXCEPT !.pc = "active"]
        /\ task' = [task EXCEPT ![w] = t]
  <2>1. [codes EXCEPT ![task[w].code].status = "VERIFIED",
                      ![task[w].code].uses = @ + 1]
        = [codes EXCEPT ![task[w].code] =
             [codes[task[w].code] EXCEPT !.status = "VERIFIED", !.uses = @ + 1]]
    BY TaskFacts DEF AcceptCode, TaskOK, IInv, TypeOK, Ids, Codes
  <2> QED  BY <2>1 DEF AcceptCode, Become
<1>2. task[w] \in Tasks /\ TaskOK(task[w]) /\ task[w].pc = "check"
  BY TaskFacts DEF AcceptCode
<1>3. c \in Ids /\ codes[c] \in Codes
  BY <1>1, <1>2 DEF TaskOK, IInv, TypeOK, Ids
<1>4. codes[c].uses \in Nat
  BY <1>3 DEF Codes
<1>5. row \in Codes /\ row.email = codes[c].email /\ row.uses > 0
  <2>1. row = [codes[c] EXCEPT !.status = "VERIFIED", !.uses = @ + 1]
    BY <1>1
  <2>2. /\ row.email = codes[c].email /\ row.digits = codes[c].digits
        /\ row.aged = codes[c].aged
        /\ row.status = "VERIFIED" /\ row.uses = codes[c].uses + 1
    BY <1>3, <2>1 DEF Codes
  <2>3. row = [email |-> row.email, digits |-> row.digits, status |-> row.status,
               aged |-> row.aged, uses |-> row.uses]
    BY <1>3, <2>1 DEF Codes
  <2>4. row.uses \in Nat /\ row.uses > 0 /\ row.status \in CodeStatuses
    BY <1>4, <2>2 DEF CodeStatuses
  <2> QED  BY <1>3, <2>2, <2>3, <2>4 DEF Codes
<1>6. Grows
  BY <1>1, <1>3, <1>5, EditGrows DEF AcceptCode, IInv
<1>7. /\ t \in Tasks /\ t.pc = "active" /\ t.code = c
      /\ t.email = task[w].email /\ t.stale = task[w].stale
  BY <1>1, <1>2 DEF Tasks
<1>8. Len(codes') = Len(codes) /\ c \in Ids' /\ codes'[c] = row
  <2>1. codes' = [codes EXCEPT ![c] = row]
    BY <1>1
  <2> QED  BY <1>3, <1>5, <2>1, EditedTable DEF IInv, Ids
<1>9. TaskOK(t)'
  <2>1. t.stale \subseteq Ids'
    BY <1>1, <1>2, <1>3, <1>5, <1>7 DEF TaskOK, IInv, TypeOK, Ids
  <2>2. codes'[t.code].email = t.email /\ codes'[t.code].uses > 0
    BY <1>1, <1>2, <1>5, <1>7, <1>8 DEF TaskOK
  <2> QED  BY <1>7, <1>8, <2>1, <2>2 DEF TaskOK
<1> QED  BY <1>1, <1>6, <1>7, <1>9, TaskStep DEF AcceptCode, IInv, TypeOK

LEMMA CreateAccountKeepsIInv ==
  ASSUME IInv, NEW w \in Workers, CreateAccount(w)
  PROVE  IInv'
<1>1. PICK row, a, t :
        /\ row = [email |-> Lower[task[w].email], active |-> TRUE]
        /\ accounts' = Append(accounts, row)
        /\ a = Len(accounts) + 1
        /\ t = [task[w] EXCEPT !.pc = "token", !.account = a]
        /\ task' = [task EXCEPT ![w] = t]
  <2>1. task' = [task EXCEPT ![w] = [task[w] EXCEPT !.pc = "token",
                                                    !.account = Len(accounts) + 1]]
    BY TaskFacts DEF CreateAccount, IInv, TypeOK
  <2> QED  BY <2>1 DEF CreateAccount
<1>2. task[w] \in Tasks /\ TaskOK(task[w]) /\ task[w].pc = "create"
  BY TaskFacts DEF CreateAccount
<1>3. row \in AccountRows /\ row.email = Lower[task[w].email]
  BY <1>1, <1>2, LowerAssumption DEF Tasks, AccountRows
<1>4. codes \in Seq(Codes) /\ accounts \in Seq(AccountRows)
  BY DEF IInv, TypeOK
<1>5. /\ accounts' \in Seq(AccountRows)
      /\ Len(accounts') = a /\ a \in Nat /\ a \in 1 .. Len(accounts')
      /\ accounts'[a] = row
      /\ \A b \in 1 .. Len(accounts) : accounts'[b] = accounts[b]
  BY <1>1, <1>3, <1>4
<1>6. Grows
  BY <1>1, <1>4, <1>5 DEF CreateAccount, Grows, Ids
<1>7. /\ t \in Tasks /\ t.pc = "token" /\ t.account = a /\ t.code = task[w].code
      /\ t.email = task[w].email /\ t.stale = task[w].stale
  BY <1>1, <1>2, <1>5 DEF Tasks
<1>8. Lower[row.email] = Lower[t.email]
  BY <1>2, <1>3, <1>7, LowerAssumption DEF Tasks
<1>9. TaskOK(t)'
  <2>1. codes' = codes
    BY DEF CreateAccount
  <2> QED  BY <1>2, <1>5, <1>7, <1>8, <2>1 DEF TaskOK, Ids
<1> QED  BY <1>1, <1>6, <1>7, <1>9, TaskStep DEF CreateAccount, IInv, TypeOK

\* The one step that opens a login.
LEMMA IssueTokenKeepsIInv ==
  ASSUME IInv, NEW w \in Workers, IssueToken(w)
  PROVE  IInv'
<1>1. PICK c, a : /\ c = task[w].code /\ a = task[w].account
                  /\ tokens' = tokens \cup {a}
                  /\ logins' = logins \cup {[code |-> c, account |-> a]}
  BY DEF IssueToken
<1>2. /\ UNCHANGED <<codes, accounts, faults>>
      /\ task' = [task EXCEPT ![w] = Idle]
  BY DEF IssueToken, Done
<1>3. task[w] \in Tasks /\ TaskOK(task[w]) /\ task[w].pc = "token"
  BY TaskFacts DEF IssueToken
<1>4. /\ c \in Ids /\ a \in 1 .. Len(accounts) /\ codes[c].uses > 0
      /\ Lower[accounts[a].email] = Lower[codes[c].email]
  BY <1>1, <1>3 DEF TaskOK
<1>5. logins' \subseteq [code: 1 .. Len(codes'), account: 1 .. Len(accounts')]
  BY <1>1, <1>2, <1>4 DEF IInv, TypeOK, Ids
<1>6. TypeOK'
  <2>1. tokens' \subseteq 1 .. Len(accounts') /\ task' \in [Workers -> Tasks]
    BY <1>1, <1>2, <1>4, IdleIsTask DEF IInv, TypeOK
  <2> QED  BY <1>2, <1>5, <2>1 DEF IInv, TypeOK
<1>7. LoginOwnsAddress'
  <2>1. ASSUME NEW l \in logins'
        PROVE  /\ codes[l.code].uses > 0
               /\ Lower[accounts[l.account].email] = Lower[codes[l.code].email]
    <3>1. CASE l \in logins
      BY <3>1 DEF IInv, LoginOwnsAddress
    <3>2. CASE l = [code |-> c, account |-> a]
      BY <1>4, <3>2
    <3> QED  BY <1>1, <2>1, <3>1, <3>2
  <2> QED  BY <1>2, <2>1 DEF LoginOwnsAddress
<1>8. ASSUME NEW x \in Workers
      PROVE  TaskOK(task[x])'
  <2>1. CASE x = w
    BY <1>2, <2>1, IdleIsTask DEF IInv, TypeOK
  <2>2. CASE x # w
    <3>1. task'[x] = task[x] /\ TaskOK(task[x])
      BY <1>2, <2>2 DEF IInv, TypeOK
    <3> QED  BY <1>2, <3>1 DEF TaskOK, Ids
  <2> QED  BY <2>1, <2>2
<1> QED  BY <1>6, <1>7, <1>8 DEF IInv

\* A code's time runs out: nobody's task is touched.
LEMMA CodeAgesKeepsIInv ==
  ASSUME IInv, NEW c \in Ids, CodeAges(c)
  PROVE  IInv'
<1>1. PICK row : /\ row = [codes[c] EXCEPT !.aged = TRUE]
                 /\ codes' = [codes EXCEPT ![c] = row]
  BY DEF CodeAges
<1>2. codes[c] \in Codes
  BY DEF IInv, TypeOK, Ids
<1>3. row \in Codes /\ row.email = codes[c].email /\ row.uses = codes[c].uses
  BY <1>1, <1>2 DEF Codes
<1>4. UNCHANGED <<accounts, tokens, logins, task, faults>>
  BY DEF CodeAges
<1>5. Grows
  BY <1>1, <1>3, <1>4, EditGrows DEF IInv
<1>6. Len(codes') = Len(codes) /\ codes' \in Seq(Codes)
  BY <1>1, <1>3, EditedTable DEF IInv
<1>7. TypeOK'
  BY <1>4, <1>6 DEF IInv, TypeOK
<1>8. ASSUME NEW x \in Workers
      PROVE  TaskOK(task[x])'
  <2>1. PICK t : t = task[x] /\ t = task'[x] /\ TaskOK(t)
    BY <1>4 DEF IInv
  <2>2. TaskOK(t)'
    BY <1>5, <2>1, TaskOKGrows DEF IInv
  <2> QED  BY <2>1, <2>2
<1> QED  BY <1>4, <1>5, <1>7, <1>8, LoginsGrow DEF IInv

----------------------------------------------------------------------------
(* The invariant, and what follows *)

LEMMA InitHasIInv ==
  ASSUME Init
  PROVE  IInv
<1>1. codes \in Seq(Codes) /\ Len(codes) = 0
  BY DEF Init
<1>2. accounts \in Seq(AccountRows)
  BY LegacyAssumption DEF Init, AccountRows
<1>3. task \in [Workers -> Tasks] /\ \A w \in Workers : task[w] = Idle
  BY IdleIsTask DEF Init
<1>4. TypeOK
  BY <1>1, <1>2, <1>3 DEF Init, TypeOK
<1> QED  BY <1>3, <1>4, IdleIsTask DEF Init, IInv, LoginOwnsAddress

LEMMA StepKeepsIInv ==
  ASSUME IInv, [Next]_vars
  PROVE  IInv'
<1>1. ASSUME NEW w \in Workers, Arrive(w)
      PROVE  IInv'
  <2>1. PICK e \in Emails :
          \/ RequestCode(w, e)
          \/ \E d \in Digits : RejectUnknown(w, e, d) \/ SubmitCode(w, e, d)
    BY <1>1 DEF Arrive
  <2>2. ASSUME NEW d \in Digits, RejectUnknown(w, e, d)
        PROVE  IInv'
    BY <2>2, SameTablesGrow, LoginsGrow
       DEF RejectUnknown, vars, IInv, TypeOK, TaskOK, Ids
  <2> QED  BY <2>1, <2>2, RequestCodeKeepsIInv, SubmitCodeKeepsIInv
<1>2. ASSUME NEW w \in Workers, Continue(w)
      PROVE  IInv'
  <2>1. CASE SendMail(w)
    <3>1. Done(w) /\ UNCHANGED <<codes, accounts, tokens, logins>> /\ faults' \in Nat
      BY <2>1 DEF SendMail, IInv, TypeOK
    <3> QED  BY <3>1, DoneStep
  <2> QED  BY <1>2, <2>1, ExpireNextKeepsIInv, CreateCodeKeepsIInv,
              RejectAgedKeepsIInv, AcceptCodeKeepsIInv, FindKeepsIInv,
              CreateAccountKeepsIInv, IssueTokenKeepsIInv DEF Continue
<1>3. ASSUME NEW w \in Workers, RequestDies(w)
      PROVE  IInv'
  <2>1. Done(w) /\ UNCHANGED <<codes, accounts, tokens, logins>> /\ faults' \in Nat
    BY <1>3 DEF RequestDies, IInv, TypeOK
  <2> QED  BY <2>1, DoneStep
<1>4. CASE UNCHANGED vars
  BY <1>4, SameTablesGrow, LoginsGrow DEF vars, IInv, TypeOK, TaskOK, Ids
<1> QED  BY <1>1, <1>2, <1>3, <1>4, CodeAgesKeepsIInv DEF Next

\* What the requests hold of the tables, and the logins they have opened, are
\* consistent in every interleaving of request-code and verify-code.
THEOREM Invariance == Spec => []IInv
<1>1. Init => IInv
  BY InitHasIInv
<1>2. IInv /\ [Next]_vars => IInv'
  BY StepKeepsIInv
<1> QED  BY <1>1, <1>2, PTL DEF Spec

\* No interleaving of requests and failures leaves a code row, an account, a
\* token or a request's local state outside its type.
THEOREM TypeCorrect == Spec => []TypeOK
<1>1. IInv => TypeOK
  BY DEF IInv
<1> QED  BY <1>1, Invariance, PTL

\* However many requests interleave, die or race to sign up, every login ends
\* in an account of the address whose code was accepted (BaseEmailCodeVerifyView).
THEOREM LoginsAreOwn == Spec => []LoginOwnsAddress
<1>1. IInv => LoginOwnsAddress
  BY DEF IInv
<1> QED  BY <1>1, Invariance, PTL
==============================================================================
