---------------------- MODULE EmailLogin_overlap_proofs ----------------------
(***************************************************************************)
(* What overlapping requests of EmailLogin can do and cannot do, for every *)
(* number of workers: how often a code is accepted and an account created  *)
(* at most, and that only the newest code is accepted while requests about *)
(* the codes of one address do not overlap.                                *)
(***************************************************************************)
EXTENDS EmailLogin_proofs, FiniteSetTheorems

----------------------------------------------------------------------------
(* What the steps do to the code table, column by column *)

\* Row c gets status s and n uses; nothing else of the table changes but aged.
Edits(c, s, n) ==
  /\ Len(codes') = Len(codes)
  /\ \A d \in Ids :
       /\ codes'[d].email = codes[d].email
       /\ codes'[d].status = IF d = c THEN s ELSE codes[d].status
       /\ codes'[d].uses = IF d = c THEN n ELSE codes[d].uses

LEMMA RowEdits ==
  ASSUME TypeOK, NEW c \in Ids, NEW row \in Codes,
         codes' = [codes EXCEPT ![c] = row], row.email = codes[c].email
  PROVE  Edits(c, row.status, row.uses)
<1>1. /\ Len(codes') = Len(codes)
      /\ \A d \in Ids : codes'[d] = IF d = c THEN row ELSE codes[d]
  BY EditedTable
<1> QED  BY <1>1 DEF Edits

LEMMA ExpireNextEdits ==
  ASSUME IInv, NEW w \in Workers, ExpireNext(w)
  PROVE  \E c \in task[w].stale :
           /\ c \in Ids
           /\ Edits(c, "EXPIRED", codes[c].uses)
           /\ task' = [task EXCEPT ![w] = [task[w] EXCEPT !.stale = @ \ {c}]]
<1>1. PICK c \in task[w].stale :
        /\ codes' = [codes EXCEPT ![c].status = "EXPIRED"]
        /\ task' = [task EXCEPT ![w].stale = @ \ {c}]
  BY DEF ExpireNext
<1>2. c \in Ids /\ codes[c] \in Codes
  BY TaskFacts DEF TaskOK, IInv, TypeOK, Ids
<1>3. PICK row : /\ row = [codes[c] EXCEPT !.status = "EXPIRED"]
                 /\ codes' = [codes EXCEPT ![c] = row]
  BY <1>1
<1>4. /\ row \in Codes /\ row.email = codes[c].email
      /\ row.status = "EXPIRED" /\ row.uses = codes[c].uses
  BY <1>2, <1>3 DEF Codes, CodeStatuses
<1>5. Edits(c, "EXPIRED", codes[c].uses)
  BY <1>2, <1>3, <1>4, RowEdits DEF IInv
<1> QED  BY <1>1, <1>2, <1>5

LEMMA RejectAgedEdits ==
  ASSUME IInv, NEW w \in Workers, RejectAged(w)
  PROVE  /\ task[w].code \in Ids
         /\ Edits(task[w].code, "EXPIRED", codes[task[w].code].uses)
<1>1. PICK c, row : /\ c = task[w].code
                    /\ row = [codes[c] EXCEPT !.status = "EXPIRED"]
                    /\ codes' = [codes EXCEPT ![c] = row]
  BY DEF RejectAged
<1>2. c \in Ids /\ codes[c] \in Codes
  BY <1>1, TaskFacts DEF RejectAged, TaskOK, IInv, TypeOK, Ids
<1>3. /\ row \in Codes /\ row.email = codes[c].email
      /\ row.status = "EXPIRED" /\ row.uses = codes[c].uses
  BY <1>1, <1>2 DEF Codes, CodeStatuses
<1>4. Edits(c, row.status, row.uses)
  BY <1>1, <1>2, <1>3, RowEdits DEF IInv
<1> QED  BY <1>1, <1>2, <1>3, <1>4

LEMMA AcceptCodeEdits ==
  ASSUME IInv, NEW w \in Workers, AcceptCode(w)
  PROVE  /\ task[w].code \in Ids
         /\ Edits(task[w].code, "VERIFIED", codes[task[w].code].uses + 1)
<1>1. task[w].code \in Ids /\ codes[task[w].code] \in Codes
  BY TaskFacts DEF AcceptCode, TaskOK, IInv, TypeOK, Ids
<1>2. PICK c, row :
        /\ c = task[w].code
        /\ row = [codes[c] EXCEPT !.status = "VERIFIED", !.uses = @ + 1]
        /\ codes' = [codes EXCEPT ![c] = row]
  <2>1. [codes EXCEPT ![task[w].code].status = "VERIFIED",
                      ![task[w].code].uses = @ + 1]
        = [codes EXCEPT ![task[w].code] =
             [codes[task[w].code] EXCEPT !.status = "VERIFIED", !.uses = @ + 1]]
    BY <1>1 DEF IInv, TypeOK, Ids, Codes
  <2> QED  BY <2>1 DEF AcceptCode
<1>3. codes[c].uses \in Nat
  BY <1>1, <1>2 DEF Codes
<1>4. row \in Codes /\ row.email = codes[c].email
      /\ row.status = "VERIFIED" /\ row.uses = codes[c].uses + 1
  <2>1. row = [email |-> codes[c].email, digits |-> codes[c].digits,
               status |-> "VERIFIED", aged |-> codes[c].aged,
               uses |-> codes[c].uses + 1]
    BY <1>1, <1>2 DEF Codes
  <2>2. codes[c].uses + 1 \in Nat
    BY <1>3
  <2>3. PICK n : n = codes[c].uses + 1
    OBVIOUS
  <2>4. row = [email |-> codes[c].email, digits |-> codes[c].digits,
               status |-> "VERIFIED", aged |-> codes[c].aged, uses |-> n]
        /\ n \in Nat /\ codes[c] \in Codes
    BY <1>1, <1>2, <2>1, <2>2, <2>3
  <2>5. row \in Codes /\ row.email = codes[c].email
        /\ row.status = "VERIFIED" /\ row.uses = n
    BY <2>4 DEF Codes, CodeStatuses
  <2> QED  BY <2>3, <2>5
<1>5. Edits(c, row.status, row.uses)
  BY <1>1, <1>2, <1>4, RowEdits DEF IInv
<1> QED  BY <1>1, <1>2, <1>4, <1>5

LEMMA CodeAgesEdits ==
  ASSUME IInv, NEW c \in Ids, CodeAges(c)
  PROVE  Edits(c, codes[c].status, codes[c].uses)
<1>1. PICK row : /\ row = [codes[c] EXCEPT !.aged = TRUE]
                 /\ codes' = [codes EXCEPT ![c] = row]
  BY DEF CodeAges
<1>2. codes[c] \in Codes
  BY DEF IInv, TypeOK, Ids
<1>3. /\ row \in Codes /\ row.email = codes[c].email
      /\ row.status = codes[c].status /\ row.uses = codes[c].uses
  BY <1>1, <1>2 DEF Codes
<1> QED  BY <1>1, <1>3, RowEdits DEF IInv

\* A new code is the last row of the table.
LEMMA CreateCodeAppends ==
  ASSUME IInv, NEW w \in Workers, CreateCode(w)
  PROVE  /\ Len(codes') = Len(codes) + 1
         /\ \A d \in Ids : codes'[d] = codes[d]
         /\ codes'[Len(codes) + 1].email = task[w].email
         /\ codes'[Len(codes) + 1].status = "PENDING"
         /\ codes'[Len(codes) + 1].uses = 0
<1>1. PICK d, row :
        /\ row = [email |-> task[w].email, digits |-> d, status |-> "PENDING",
                  aged |-> FALSE, uses |-> 0]
        /\ codes' = Append(codes, row)
  BY DEF CreateCode
<1>2. codes \in Seq(Codes)
  BY DEF IInv, TypeOK
<1> QED  BY <1>1, <1>2 DEF Ids

\* The steps that write no code, and start neither a request nor a check.
LEMMA LaterSteps ==
  ASSUME IInv, NEW w \in Workers,
         \/ SendMail(w) \/ FindActive(w) \/ FindAny(w)
         \/ CreateAccount(w) \/ IssueToken(w) \/ RequestDies(w)
  PROVE  /\ UNCHANGED codes
         /\ \A x \in Workers :
              task'[x] = task[x] \/ task'[x].pc \in {"idle", "any", "create", "token"}
<1>1. UNCHANGED codes
  BY DEF SendMail, FindActive, FindAny, CreateAccount, IssueToken, RequestDies
<1>2. task[w] \in Tasks /\ task \in [Workers -> Tasks]
  BY TaskFacts DEF IInv, TypeOK
<1>3. ASSUME NEW pc \in {"any", "create"}, Become(w, pc)
      PROVE  \A x \in Workers : task'[x] = task[x] \/ task'[x].pc = pc
  BY <1>2, <1>3 DEF Become, Tasks
<1>4. ASSUME NEW found, Take(w, found)
      PROVE  \A x \in Workers : task'[x] = task[x] \/ task'[x].pc = "token"
  BY <1>2, <1>4 DEF Take, Tasks
<1>5. CASE Done(w)
  BY <1>1, <1>2, <1>5 DEF Done, Idle
<1>6. CASE CreateAccount(w)
  BY <1>1, <1>2, <1>6 DEF CreateAccount, Tasks
<1> QED  BY <1>1, <1>3, <1>4, <1>5, <1>6
         DEF SendMail, FindActive, FindAny, IssueToken, RequestDies

----------------------------------------------------------------------------
(* How often a code is accepted *)

LEMMA Counting ==
  /\ Cardinality(Workers) \in Nat
  /\ \A S \in SUBSET Workers :
       IsFiniteSet(S) /\ Cardinality(S) \in Nat /\ Cardinality(S) <= Cardinality(Workers)
BY WorkersAssumption, FS_CardinalityType, FS_Subset

LEMMA FewerWorkers ==
  ASSUME NEW S \in SUBSET Workers, NEW R \in SUBSET S
  PROVE  Cardinality(R) <= Cardinality(S)
BY Counting, FS_Subset

LEMMA OneWorkerLess ==
  ASSUME NEW S \in SUBSET Workers, NEW w \in S
  PROVE  Cardinality(S \ {w}) = Cardinality(S) - 1
BY Counting, FS_RemoveElement

LEMMA UsesTypes ==
  ASSUME IInv, NEW c \in Ids
  PROVE  /\ codes[c].uses \in Nat
         /\ Checking(c) \in SUBSET Workers /\ Cardinality(Checking(c)) \in Nat
         /\ Cardinality(Checking(c)) <= Cardinality(Workers)
<1>1. codes[c] \in Codes
  BY DEF IInv, TypeOK, Ids
<1>2. codes[c].uses \in Nat
  BY <1>1 DEF Codes
<1>3. Checking(c) \in SUBSET Workers
  BY DEF Checking
<1> QED  BY <1>2, <1>3, Counting

\* Steps that use no code, and let no code be pending or checked that was not.
LEMMA EditKeepsUsesOK ==
  ASSUME IInv, UsesOK, NEW c \in Ids, NEW s,
         s # "PENDING" \/ s = codes[c].status, Edits(c, s, codes[c].uses),
         \A x \in Workers : task'[x].pc = "check" =>
           task[x].pc = "check" /\ task'[x].code = task[x].code
  PROVE  UsesOK'
<1>1. Ids' = Ids
  BY DEF Edits, Ids
<1>2. ASSUME NEW d \in Ids
      PROVE  /\ codes'[d].status = "PENDING" => codes'[d].uses = 0
             /\ codes'[d].uses + Cardinality(Checking(d)') <= Cardinality(Workers)
  <2>1. Checking(d)' \in SUBSET Checking(d)
    BY DEF Checking
  <2>2. Checking(d)' \in SUBSET Workers
    BY DEF Checking
  <2>3. Cardinality(Checking(d)') <= Cardinality(Checking(d))
        /\ Cardinality(Checking(d)') \in Nat /\ Cardinality(Workers) \in Nat
    BY <2>1, <2>2, UsesTypes, FewerWorkers, Counting
  <2>4. codes'[d].uses = codes[d].uses
        /\ (codes'[d].status = "PENDING" => codes[d].status = "PENDING")
    BY DEF Edits
  <2>5. codes[d].uses + Cardinality(Checking(d)) <= Cardinality(Workers)
    BY DEF UsesOK
  <2> HIDE DEF Checking
  <2>6. codes'[d].uses + Cardinality(Checking(d)') <= Cardinality(Workers)
    BY <2>3, <2>4, <2>5, UsesTypes
  <2> QED  BY <2>4, <2>6 DEF UsesOK
<1> QED  BY <1>1, <1>2 DEF UsesOK

LEMMA QuietKeepsUsesOK ==
  ASSUME IInv, UsesOK, UNCHANGED codes,
         \A x \in Workers : task'[x].pc = "check" =>
           task[x].pc = "check" /\ task'[x].code = task[x].code
  PROVE  UsesOK'
<1>1. ASSUME NEW d \in Ids
      PROVE  codes[d].uses + Cardinality(Checking(d)') <= Cardinality(Workers)
  <2>1. Checking(d)' \in SUBSET Checking(d) /\ Checking(d)' \in SUBSET Workers
    BY DEF Checking
  <2>2. Cardinality(Checking(d)') <= Cardinality(Checking(d))
        /\ Cardinality(Checking(d)') \in Nat /\ Cardinality(Workers) \in Nat
    BY <2>1, UsesTypes, FewerWorkers, Counting
  <2>3. codes[d].uses + Cardinality(Checking(d)) <= Cardinality(Workers)
    BY DEF UsesOK
  <2> QED  BY <2>2, <2>3, UsesTypes
<1> QED  BY <1>1 DEF UsesOK, Ids

\* A code that is read pending has no uses, whoever holds it already.
LEMMA SubmitKeepsUsesOK ==
  ASSUME IInv, UsesOK, NEW w \in Workers, NEW e \in Emails, NEW d \in Digits,
         SubmitCode(w, e, d)
  PROVE  UsesOK'
<1>1. PICK c \in Matching(e, d) :
        task' = [task EXCEPT ![w] =
                   [Idle EXCEPT !.pc = "check", !.email = e, !.code = c]]
  BY DEF SubmitCode
<1>2. c \in Ids /\ codes[c].uses = 0
  BY DEF Matching, UsesOK
<1>3. PICK t : /\ t = [Idle EXCEPT !.pc = "check", !.email = e, !.code = c]
               /\ task' = [task EXCEPT ![w] = t]
  BY <1>1
<1>4. t.code = c
  BY <1>3 DEF Idle
<1>5. \A x \in Workers : task'[x] = IF x = w THEN t ELSE task[x]
  BY <1>3 DEF IInv, TypeOK
<1>6. ASSUME NEW b \in Ids
      PROVE  codes[b].uses + Cardinality(Checking(b)') <= Cardinality(Workers)
  <2>1. Checking(b)' \in SUBSET Workers
    BY DEF Checking
  <2>2. Cardinality(Checking(b)') <= Cardinality(Workers)
        /\ Cardinality(Checking(b)') \in Nat /\ Cardinality(Workers) \in Nat
    BY <2>1, Counting
  <2>3. CASE b = c
    BY <1>2, <2>2, <2>3
  <2>4. CASE b # c
    <3>1. Checking(b)' \in SUBSET Checking(b)
      BY <1>4, <1>5, <2>4 DEF Checking
    <3>2. Cardinality(Checking(b)') <= Cardinality(Checking(b))
      BY <3>1, UsesTypes, FewerWorkers
    <3>3. codes[b].uses + Cardinality(Checking(b)) <= Cardinality(Workers)
      BY DEF UsesOK
    <3> QED  BY <2>2, <3>2, <3>3, UsesTypes
  <2> QED  BY <2>3, <2>4
<1> QED  BY <1>6 DEF UsesOK, Ids, SubmitCode

LEMMA CreateKeepsUsesOK ==
  ASSUME IInv, UsesOK, NEW w \in Workers, CreateCode(w)
  PROVE  UsesOK'
<1>1. Ids' = Ids \cup {Len(codes) + 1}
  BY CreateCodeAppends DEF Ids, IInv, TypeOK
<1>2. \A x \in Workers : task'[x].pc = "check" => task'[x] = task[x]
  BY TaskFacts DEF CreateCode, Become, Tasks, IInv, TypeOK
<1>3. ASSUME NEW c \in Ids'
      PROVE  /\ codes'[c].status = "PENDING" => codes'[c].uses = 0
             /\ codes'[c].uses + Cardinality(Checking(c)') <= Cardinality(Workers)
  <2>1. Checking(c)' \in SUBSET Workers
    BY DEF Checking
  <2>2. Cardinality(Checking(c)') <= Cardinality(Workers)
        /\ Cardinality(Checking(c)') \in Nat /\ Cardinality(Workers) \in Nat
    BY <2>1, Counting
  <2>3. CASE c = Len(codes) + 1
    BY <2>2, <2>3, CreateCodeAppends
  <2>4. CASE c \in Ids
    <3>1. Checking(c)' \in SUBSET Checking(c)
      BY <1>2 DEF Checking
    <3>2. Cardinality(Checking(c)') <= Cardinality(Checking(c))
      BY <2>4, <3>1, UsesTypes, FewerWorkers
    <3>3. codes[c].uses + Cardinality(Checking(c)) <= Cardinality(Workers)
          /\ (codes[c].status = "PENDING" => codes[c].uses = 0)
      BY <2>4 DEF UsesOK
    <3>4. codes'[c] = codes[c]
      BY <2>4, CreateCodeAppends
    <3> QED  BY <2>2, <2>4, <3>2, <3>3, <3>4, UsesTypes
  <2> QED  BY <1>1, <2>3, <2>4
<1> QED  BY <1>3 DEF UsesOK

\* Who accepts a code holds it no more.
LEMMA AcceptKeepsUsesOK ==
  ASSUME IInv, UsesOK, NEW w \in Workers, AcceptCode(w)
  PROVE  UsesOK'
<1>1. PICK c : /\ c = task[w].code /\ c \in Ids
               /\ Edits(c, "VERIFIED", codes[c].uses + 1)
  BY AcceptCodeEdits
<1>2. Ids' = Ids
  BY <1>1 DEF Edits, Ids
<1>3. w \in Checking(c)
  BY <1>1 DEF AcceptCode, Checking
<1>4. \A x \in Workers : task'[x].pc = "check" => x # w /\ task'[x] = task[x]
  BY TaskFacts DEF AcceptCode, Become, Tasks, IInv, TypeOK
<1>5. ASSUME NEW d \in Ids
      PROVE  /\ codes'[d].status = "PENDING" => codes'[d].uses = 0
             /\ codes'[d].uses + Cardinality(Checking(d)') <= Cardinality(Workers)
  <2>1. Checking(d)' \in SUBSET (Checking(d) \ {w}) /\ Checking(d)' \in SUBSET Workers
    BY <1>4 DEF Checking
  <2>2. /\ Cardinality(Checking(d)') \in Nat /\ Cardinality(Workers) \in Nat
        /\ Checking(d) \ {w} \in SUBSET Workers
    BY <2>1, Counting, UsesTypes
  <2>3. Cardinality(Checking(d)') <= Cardinality(Checking(d) \ {w})
        /\ Cardinality(Checking(d)') <= Cardinality(Checking(d))
    BY <2>1, <2>2, UsesTypes, FewerWorkers
  <2>4. codes[d].uses + Cardinality(Checking(d)) <= Cardinality(Workers)
        /\ (codes[d].status = "PENDING" => codes[d].uses = 0)
    BY DEF UsesOK
  <2>5. CASE d = c
    <3>1. Cardinality(Checking(d) \ {w}) = Cardinality(Checking(d)) - 1
      BY <1>3, <2>5, UsesTypes, OneWorkerLess
    <3>2. codes'[d].uses = codes[d].uses + 1 /\ codes'[d].status # "PENDING"
      BY <1>1, <2>5 DEF Edits
    <3> QED  BY <2>2, <2>3, <2>4, <3>1, <3>2, UsesTypes
  <2>6. CASE d # c
    <3>1. codes'[d].uses = codes[d].uses /\ codes'[d].status = codes[d].status
      BY <1>1, <2>6 DEF Edits
    <3> QED  BY <2>2, <2>3, <2>4, <3>1, UsesTypes
  <2> QED  BY <2>5, <2>6
<1> QED  BY <1>2, <1>5 DEF UsesOK

LEMMA StepKeepsUsesOK ==
  ASSUME IInv, UsesOK, [Next]_vars
  PROVE  UsesOK'
<1>1. ASSUME NEW w \in Workers, NEW e \in Emails, RequestCode(w, e)
      PROVE  UsesOK'
  <2>1. UNCHANGED codes /\ \A x \in Workers :
          task'[x] = task[x] \/ task'[x].pc = "expire"
    BY <1>1 DEF RequestCode, Idle, IInv, TypeOK
  <2> QED  BY <2>1, QuietKeepsUsesOK
<1>2. ASSUME NEW w \in Workers, ExpireNext(w)
      PROVE  UsesOK'
  <2>1. PICK c \in task[w].stale :
          /\ c \in Ids
          /\ Edits(c, "EXPIRED", codes[c].uses)
          /\ task' = [task EXCEPT ![w] = [task[w] EXCEPT !.stale = @ \ {c}]]
    BY <1>2, ExpireNextEdits
  <2>2. \A x \in Workers : task'[x].pc = "check" =>
          task[x].pc = "check" /\ task'[x].code = task[x].code
    BY <2>1, TaskFacts DEF IInv, TypeOK, Tasks
  <2> QED  BY <2>1, <2>2, EditKeepsUsesOK
<1>3. ASSUME NEW w \in Workers, RejectAged(w)
      PROVE  UsesOK'
  <2>1. \A x \in Workers : task'[x] = task[x] \/ task'[x].pc = "idle"
    BY <1>3 DEF RejectAged, Done, Idle, IInv, TypeOK
  <2> QED  BY <1>3, <2>1, RejectAgedEdits, EditKeepsUsesOK
<1>4. ASSUME NEW c \in Ids, CodeAges(c)
      PROVE  UsesOK'
  BY <1>4, CodeAgesEdits, EditKeepsUsesOK DEF CodeAges
<1>5. ASSUME NEW w \in Workers,
             \/ SendMail(w) \/ FindActive(w) \/ FindAny(w)
             \/ CreateAccount(w) \/ IssueToken(w) \/ RequestDies(w)
      PROVE  UsesOK'
  BY <1>5, LaterSteps, QuietKeepsUsesOK
<1>6. CASE UNCHANGED vars
  BY <1>6, QuietKeepsUsesOK DEF vars
<1>7. ASSUME NEW w \in Workers, NEW e \in Emails, NEW d \in Digits,
             RejectUnknown(w, e, d)
      PROVE  UsesOK'
  BY <1>7, QuietKeepsUsesOK DEF RejectUnknown, vars
<1> QED  BY <1>1, <1>2, <1>3, <1>4, <1>5, <1>6, <1>7, SubmitKeepsUsesOK,
            CreateKeepsUsesOK, AcceptKeepsUsesOK DEF Next, Arrive, Continue

\* Whatever requests overlap, a code is accepted once at most for each worker:
\* only those who had read it pending before it was first accepted get in
\* (verify_code, mark_verified).
THEOREM UsesBounded == Spec => []CodeUsesBounded
<1>1. Init => UsesOK
  BY DEF Init, UsesOK, Ids
<1>2. IInv /\ UsesOK /\ [Next]_vars => UsesOK'
  BY StepKeepsUsesOK
<1>3. IInv /\ UsesOK => CodeUsesBounded
  <2>1. ASSUME IInv, UsesOK, NEW c \in Ids
        PROVE  codes[c].uses <= Cardinality(Workers)
    BY <2>1, UsesTypes, Counting DEF UsesOK
  <2> QED  BY <2>1 DEF CodeUsesBounded
<1> QED  BY <1>1, <1>2, <1>3, Invariance, PTL DEF Spec

----------------------------------------------------------------------------
(* Only the newest code of an address is accepted *)

\* Edits that make no code pending, by steps that start no request or check
\* and leave to a request all it has to expire but the row edited.
LEMMA EditKeepsNewestOK ==
  ASSUME IInv, NewestOK, NEW c \in Ids, NEW s, NEW n,
         s # "PENDING" \/ s = codes[c].status, Edits(c, s, n),
         \A x \in Workers : task'[x].pc \in {"check", "active"} =>
           /\ task[x].pc \in {"check", "active"}
           /\ task'[x].code = task[x].code /\ task'[x].email = task[x].email,
         \A x \in Workers : task'[x].pc = "expire" =>
           /\ task[x].pc = "expire" /\ task'[x].email = task[x].email
           /\ \A d \in task[x].stale :
                d \in task'[x].stale \/ (d = c /\ s # "PENDING")
  PROVE  NewestOK'
<1>1. Ids' = Ids
  BY DEF Edits, Ids
<1>2. \A d \in Ids : codes'[d].status = "PENDING" =>
        codes[d].status = "PENDING" /\ (d = c => s = "PENDING")
  BY DEF Edits
<1>3. \A d \in Ids : codes'[d].email = codes[d].email
  BY DEF Edits
<1>4. ASSUME NEW d, NEW e, Newest(d, e)
      PROVE  \A b \in Ids' : codes'[b].email = e => b <= d
  BY <1>1, <1>3, <1>4 DEF Newest
<1>5. ASSUME NEW d \in Ids', codes'[d].status = "PENDING"
      PROVE  \A b \in Ids' : codes'[b].email = codes'[d].email => b <= d
  <2>1. Newest(d, codes'[d].email)
    BY <1>1, <1>2, <1>3, <1>5 DEF NewestOK, Newest
  <2> QED  BY <1>4, <2>1
<1>6. ASSUME NEW x \in Workers, task'[x].pc = "expire", NEW d \in Ids',
             codes'[d].status = "PENDING", codes'[d].email = task'[x].email
      PROVE  d \in task'[x].stale
  BY <1>1, <1>2, <1>3, <1>6 DEF NewestOK
<1>7. ASSUME NEW x \in Workers, task'[x].pc \in {"check", "active"}
      PROVE  \A b \in Ids' : codes'[b].email = task'[x].email => b <= task'[x].code
  <2>1. Newest(task'[x].code, task'[x].email)
    BY <1>7 DEF NewestOK, Newest
  <2> QED  BY <1>4, <2>1
<1> QED  BY <1>5, <1>6, <1>7 DEF NewestOK, Newest

LEMMA QuietKeepsNewestOK ==
  ASSUME IInv, NewestOK, UNCHANGED codes,
         \A x \in Workers :
           task'[x] = task[x] \/ task'[x].pc \notin {"expire", "check", "active"}
  PROVE  NewestOK'
<1>1. \A x \in Workers :
        task'[x].pc \in {"expire", "check", "active"} => task'[x] = task[x]
  OBVIOUS
<1> QED  BY <1>1 DEF NewestOK, Newest, Ids

LEMMA RequestKeepsNewestOK ==
  ASSUME IInv, NewestOK, NEW w \in Workers, NEW e \in Emails, RequestCode(w, e)
  PROVE  NewestOK'
<1>1. PICK t : /\ t = [Idle EXCEPT !.pc = "expire", !.email = e,
                         !.stale = {c \in Ids : codes[c].email = e
                                               /\ codes[c].status = "PENDING"}]
               /\ task' = [task EXCEPT ![w] = t]
  BY DEF RequestCode
<1>2. /\ t.pc = "expire" /\ t.email = e
      /\ t.stale = {c \in Ids : codes[c].email = e /\ codes[c].status = "PENDING"}
  BY <1>1 DEF Idle
<1>3. \A x \in Workers : task'[x] = IF x = w THEN t ELSE task[x]
  BY <1>1 DEF IInv, TypeOK
<1>4. ASSUME NEW x \in Workers, task'[x].pc = "expire", NEW c \in Ids,
             codes[c].status = "PENDING", codes[c].email = task'[x].email
      PROVE  c \in task'[x].stale
  BY <1>2, <1>3, <1>4 DEF NewestOK
<1>5. ASSUME NEW x \in Workers, task'[x].pc \in {"check", "active"}
      PROVE  Newest(task'[x].code, task'[x].email)
  BY <1>2, <1>3, <1>5 DEF NewestOK
<1> QED  BY <1>4, <1>5 DEF NewestOK, Newest, Ids, RequestCode

LEMMA SubmitKeepsNewestOK ==
  ASSUME IInv, NewestOK, NEW w \in Workers, NEW e \in Emails, NEW d \in Digits,
         SubmitCode(w, e, d)
  PROVE  NewestOK'
<1>1. PICK c \in Matching(e, d) :
        task' = [task EXCEPT ![w] =
                   [Idle EXCEPT !.pc = "check", !.email = e, !.code = c]]
  BY DEF SubmitCode
<1>2. PICK t : /\ t = [Idle EXCEPT !.pc = "check", !.email = e, !.code = c]
               /\ task' = [task EXCEPT ![w] = t]
  BY <1>1
<1>3. t.pc = "check" /\ t.email = e /\ t.code = c
  BY <1>2 DEF Idle
<1>4. \A x \in Workers : task'[x] = IF x = w THEN t ELSE task[x]
  BY <1>2 DEF IInv, TypeOK
<1>5. Newest(c, e)
  BY DEF Matching, NewestOK
<1>6. ASSUME NEW x \in Workers, task'[x].pc = "expire", NEW b \in Ids,
             codes[b].status = "PENDING", codes[b].email = task'[x].email
      PROVE  b \in task'[x].stale
  BY <1>3, <1>4, <1>6 DEF NewestOK
<1>7. ASSUME NEW x \in Workers, task'[x].pc \in {"check", "active"}
      PROVE  Newest(task'[x].code, task'[x].email)
  BY <1>3, <1>4, <1>5, <1>7 DEF NewestOK
<1> QED  BY <1>6, <1>7 DEF NewestOK, Newest, Ids, SubmitCode

\* The one step that makes a code pending: all the older ones have been
\* expired, and nobody else is replacing or checking codes of that address.
LEMMA CreateKeepsNewestOK ==
  ASSUME IInv, NewestOK, CodesApart, NEW w \in Workers, CreateCode(w)
  PROVE  NewestOK'
<1>1. PICK n, e : /\ n = Len(codes) + 1 /\ e = task[w].email
                  /\ Ids' = Ids \cup {n} /\ n \notin Ids
                  /\ \A c \in Ids : c <= n
                  /\ \A c \in Ids : codes'[c] = codes[c]
                  /\ codes'[n].email = e /\ codes'[n].status = "PENDING"
  BY CreateCodeAppends DEF Ids, IInv, TypeOK
<1>2. task[w].pc = "expire" /\ task[w].stale = {} /\ n \in Nat
  BY <1>1 DEF CreateCode, IInv, TypeOK
<1>3. \A c \in Ids : codes[c].status = "PENDING" => codes[c].email # e
  BY <1>1, <1>2 DEF NewestOK
<1>4. \A x \in Workers : x # w => task'[x] = task[x]
  BY DEF CreateCode, Become, IInv, TypeOK
<1>5. task'[w].pc = "send"
  BY TaskFacts DEF CreateCode, Become, IInv, TypeOK, Tasks
<1>6. ASSUME NEW x \in Workers, task'[x].pc \in {"expire", "check", "active"}
      PROVE  task'[x] = task[x] /\ task[x].email # e
  BY <1>1, <1>2, <1>4, <1>5, <1>6 DEF CodesApart
<1>7. ASSUME NEW c \in Ids', codes'[c].status = "PENDING"
      PROVE  \A d \in Ids' : codes'[d].email = codes'[c].email => d <= c
  <2>1. CASE c = n
    BY <1>1, <1>2, <2>1
  <2>2. CASE c \in Ids
    BY <1>1, <1>3, <1>7, <2>2 DEF NewestOK, Newest
  <2> QED  BY <1>1, <2>1, <2>2
<1>8. ASSUME NEW x \in Workers, task'[x].pc = "expire", NEW c \in Ids',
             codes'[c].status = "PENDING", codes'[c].email = task'[x].email
      PROVE  c \in task'[x].stale
  BY <1>1, <1>6, <1>8 DEF NewestOK
<1>9. ASSUME NEW x \in Workers, task'[x].pc \in {"check", "active"}
      PROVE  \A d \in Ids' : codes'[d].email = task'[x].email => d <= task'[x].code
  BY <1>1, <1>6, <1>9 DEF NewestOK, Newest
<1> QED  BY <1>7, <1>8, <1>9 DEF NewestOK, Newest

LEMMA StepKeepsNewestOK ==
  ASSUME IInv, NewestOK, CodesApart, [Next]_vars
  PROVE  NewestOK'
<1>0. task \in [Workers -> Tasks]
  BY DEF IInv, TypeOK
<1>1. ASSUME NEW w \in Workers, ExpireNext(w)
      PROVE  NewestOK'
  <2>1. PICK c \in task[w].stale :
          /\ c \in Ids
          /\ Edits(c, "EXPIRED", codes[c].uses)
          /\ task' = [task EXCEPT ![w] = [task[w] EXCEPT !.stale = @ \ {c}]]
    BY <1>1, ExpireNextEdits
  <2>2. task[w].pc = "expire"
    BY <1>1 DEF ExpireNext
  <2>3. \A x \in Workers :
          /\ task'[x].pc = task[x].pc /\ task'[x].code = task[x].code
          /\ task'[x].email = task[x].email
          /\ \A d \in task[x].stale : d \in task'[x].stale \/ d = c
    BY <1>0, <2>1 DEF Tasks
  <2> QED  BY <2>1, <2>3, EditKeepsNewestOK
<1>2. ASSUME NEW w \in Workers, RejectAged(w)
      PROVE  NewestOK'
  <2>1. \A x \in Workers : task'[x] = task[x] \/ task'[x].pc = "idle"
    BY <1>0, <1>2 DEF RejectAged, Done, Idle
  <2>2. \A x \in Workers :
          task'[x].pc \in {"expire", "check", "active"} => task'[x] = task[x]
    BY <2>1
  <2> QED  BY <1>2, <2>2, RejectAgedEdits, EditKeepsNewestOK
<1>3. ASSUME NEW w \in Workers, AcceptCode(w)
      PROVE  NewestOK'
  <2>1. task' = [task EXCEPT ![w].pc = "active"] /\ task[w].pc = "check"
    BY <1>3 DEF AcceptCode, Become
  <2>2. \A x \in Workers :
          /\ task'[x].pc = IF x = w THEN "active" ELSE task[x].pc
          /\ task'[x].code = task[x].code /\ task'[x].email = task[x].email
          /\ task'[x].stale = task[x].stale
    BY <1>0, <2>1 DEF Tasks
  <2> QED  BY <1>3, <2>1, <2>2, AcceptCodeEdits, EditKeepsNewestOK
<1>4. ASSUME NEW c \in Ids, CodeAges(c)
      PROVE  NewestOK'
  BY <1>4, CodeAgesEdits, EditKeepsNewestOK DEF CodeAges
<1>5. ASSUME NEW w \in Workers,
             \/ SendMail(w) \/ FindActive(w) \/ FindAny(w)
             \/ CreateAccount(w) \/ IssueToken(w) \/ RequestDies(w)
      PROVE  NewestOK'
  BY <1>5, LaterSteps, QuietKeepsNewestOK
<1>6. CASE UNCHANGED vars
  BY <1>6, QuietKeepsNewestOK DEF vars
<1>7. ASSUME NEW w \in Workers, NEW e \in Emails, NEW d \in Digits,
             RejectUnknown(w, e, d)
      PROVE  NewestOK'
  BY <1>7, QuietKeepsNewestOK DEF RejectUnknown, vars
<1> QED  BY <1>1, <1>2, <1>3, <1>4, <1>5, <1>6, <1>7, RequestKeepsNewestOK,
            SubmitKeepsNewestOK, CreateKeepsNewestOK DEF Next, Arrive, Continue

\* As long as requests about one address's codes do not overlap, the code
\* accepted is the newest of its address, although a request may die with
\* some of the codes before expired and others not (expire_previous_codes).
THEOREM NewestOnly == Spec => NewestWhileApart
<1>1. Init => NewestOK
  BY DEF Init, NewestOK, Newest, Ids, Idle
<1>2. IInv /\ NewestOK /\ CodesApart /\ [Next]_vars => NewestOK'
  BY StepKeepsNewestOK
<1>3. NewestOK => OnlyNewestAccepted
  BY DEF NewestOK, Newest, OnlyNewestAccepted
<1> QED  BY <1>1, <1>2, <1>3, Invariance, PTL DEF Spec, NewestWhileApart

----------------------------------------------------------------------------
(* How many accounts an address gets *)

LEMMA AccountsTypes ==
  ASSUME IInv, NEW e \in Emails
  PROVE  /\ Creating(e) \in SUBSET Workers /\ Cardinality(Creating(e)) \in Nat
         /\ Cardinality(Creating(e)) <= Cardinality(Workers)
         /\ Cardinality(Workers) \in Nat
         /\ IsFiniteSet(AccountsOf(e)) /\ Cardinality(AccountsOf(e)) \in Nat
<1>1. Creating(e) \in SUBSET Workers
  BY DEF Creating
<1>2. Len(accounts) \in Nat
  BY DEF IInv, TypeOK
<1>3. IsFiniteSet(1 .. Len(accounts)) /\ AccountsOf(e) \in SUBSET (1 .. Len(accounts))
  BY <1>2, FS_Interval DEF AccountsOf
<1>4. IsFiniteSet(AccountsOf(e))
  BY <1>3, FS_Subset
<1> QED  BY <1>1, <1>4, Counting, FS_CardinalityType

LEMMA QuietKeepsAccountsOK ==
  ASSUME IInv, AccountsOK, UNCHANGED accounts,
         \A x \in Workers : task'[x].pc = "create" =>
           task[x].pc = "create" /\ task'[x].email = task[x].email
  PROVE  AccountsOK'
<1>1. SUFFICES ASSUME NEW e \in Emails
      PROVE  IF LegacyOf(e) # {}
             THEN AccountsOf(e) = LegacyOf(e) /\ Creating(e)' = {}
             ELSE Cardinality(AccountsOf(e)) + Cardinality(Creating(e)')
                    <= Cardinality(Workers)
  BY DEF AccountsOK, AccountsOf, LegacyOf
<1>2. Creating(e)' \in SUBSET Creating(e) /\ Creating(e)' \in SUBSET Workers
  BY DEF Creating
<1>3. Cardinality(Creating(e)') <= Cardinality(Creating(e)) /\ Cardinality(Creating(e)') \in Nat
  BY <1>2, AccountsTypes, FewerWorkers, Counting
<1>4. CASE LegacyOf(e) # {}
  BY <1>2, <1>4 DEF AccountsOK
<1>5. CASE LegacyOf(e) = {}
  <2>1. Cardinality(AccountsOf(e)) + Cardinality(Creating(e)) <= Cardinality(Workers)
    BY <1>5 DEF AccountsOK
  <2> QED  BY <1>3, <1>5, <2>1, AccountsTypes
<1> QED  BY <1>4, <1>5

\* Who is about to create an account found none of its address, and the others
\* who do are at most as many as there are workers.
LEMMA FindAnyKeepsAccountsOK ==
  ASSUME IInv, AccountsOK, NEW w \in Workers, FindAny(w)
  PROVE  AccountsOK'
<1>1. task[w] \in Tasks /\ task \in [Workers -> Tasks] /\ UNCHANGED accounts
  BY TaskFacts DEF IInv, TypeOK, FindAny
<1>2. CASE MatchingAccounts(task[w].email) = {}
  <2>1. task' = [task EXCEPT ![w].pc = "create"]
    BY <1>2 DEF FindAny, Become
  <2>2. \A x \in Workers : /\ task'[x].email = task[x].email
                           /\ x # w => task'[x].pc = task[x].pc
    BY <1>1, <2>1 DEF Tasks
  <2>3. SUFFICES ASSUME NEW e \in Emails
        PROVE  IF LegacyOf(e) # {}
               THEN AccountsOf(e) = LegacyOf(e) /\ Creating(e)' = {}
               ELSE Cardinality(AccountsOf(e)) + Cardinality(Creating(e)')
                      <= Cardinality(Workers)
    BY <1>1 DEF AccountsOK, AccountsOf, LegacyOf
  <2>4. Creating(e)' \in SUBSET Workers
    BY DEF Creating
  <2>5. Cardinality(Creating(e)') <= Cardinality(Workers) /\ Cardinality(Creating(e)') \in Nat
    BY <2>4, Counting
  <2>6. CASE Lower[task[w].email] = Lower[e]
    <3>1. AccountsOf(e) = {}
      BY <1>2, <2>6 DEF AccountsOf, MatchingAccounts
    <3>2. LegacyOf(e) = {}
      BY <3>1 DEF AccountsOK
    <3>3. Cardinality(AccountsOf(e)) = 0
      BY <3>1, FS_EmptySet
    <3> QED  BY <2>5, <3>2, <3>3
  <2>7. CASE Lower[task[w].email] # Lower[e]
    <3>1. Creating(e)' \in SUBSET Creating(e)
      BY <2>2, <2>7 DEF Creating
    <3>2. Cardinality(Creating(e)') <= Cardinality(Creating(e))
      BY <3>1, AccountsTypes, FewerWorkers
    <3>3. CASE LegacyOf(e) # {}
      BY <3>1, <3>3 DEF AccountsOK
    <3>4. CASE LegacyOf(e) = {}
      <4>1. Cardinality(AccountsOf(e)) + Cardinality(Creating(e)) <= Cardinality(Workers)
        BY <3>4 DEF AccountsOK
      <4> QED  BY <2>5, <3>2, <3>4, <4>1, AccountsTypes
    <3> QED  BY <3>3, <3>4
  <2> QED  BY <2>6, <2>7
<1>3. CASE MatchingAccounts(task[w].email) # {}
  <2>1. \A x \in Workers : task'[x] = task[x] \/ task'[x].pc = "token"
    BY <1>1, <1>3 DEF FindAny, Take, Tasks
  <2> QED  BY <1>1, <2>1, QuietKeepsAccountsOK
<1> QED  BY <1>2, <1>3

\* One account more, and one request less that is about to create one.
LEMMA CreateAccountKeepsAccountsOK ==
  ASSUME IInv, AccountsOK, NEW w \in Workers, CreateAccount(w)
  PROVE  AccountsOK'
<1>1. PICK n, e :
        /\ n = Len(accounts) + 1 /\ e = task[w].email
        /\ accounts' = Append(accounts, [email |-> Lower[e], active |-> TRUE])
  BY DEF CreateAccount
<1>2. /\ task[w].pc = "create" /\ e \in Emails /\ Lower[Lower[e]] = Lower[e]
      /\ task \in [Workers -> Tasks] /\ accounts \in Seq(AccountRows)
  BY <1>1, TaskFacts, LowerAssumption DEF CreateAccount, Tasks, IInv, TypeOK
<1>3. /\ Len(accounts') = n /\ n \in Nat
      /\ \A a \in 1 .. Len(accounts) : accounts'[a] = accounts[a]
      /\ accounts'[n].email = Lower[e]
  BY <1>1, <1>2
<1>4. 1 .. Len(accounts') = 1 .. Len(accounts) \cup {n} /\ n \notin 1 .. Len(accounts)
  BY <1>1, <1>2, <1>3
<1>5. \A x \in Workers : task'[x].pc = "create" => x # w /\ task'[x] = task[x]
  BY <1>2 DEF CreateAccount, Tasks
<1>6. SUFFICES ASSUME NEW f \in Emails
      PROVE  IF LegacyOf(f) # {}
             THEN AccountsOf(f)' = LegacyOf(f) /\ Creating(f)' = {}
             ELSE Cardinality(AccountsOf(f)') + Cardinality(Creating(f)')
                    <= Cardinality(Workers)
  BY DEF AccountsOK, LegacyOf
<1>7. Creating(f)' \in SUBSET (Creating(f) \ {w}) /\ Creating(f)' \in SUBSET Workers
  BY <1>5 DEF Creating
<1>8. /\ Cardinality(Creating(f)') <= Cardinality(Creating(f) \ {w})
      /\ Cardinality(Creating(f)') <= Cardinality(Creating(f))
      /\ Cardinality(Creating(f)') \in Nat
  BY <1>7, AccountsTypes, FewerWorkers, Counting
<1>9. CASE Lower[e] = Lower[f]
  <2>1. w \in Creating(f)
    BY <1>1, <1>2, <1>9 DEF Creating
  <2>2. LegacyOf(f) = {}
        /\ Cardinality(AccountsOf(f)) + Cardinality(Creating(f)) <= Cardinality(Workers)
    BY <2>1 DEF AccountsOK
  <2>3. Cardinality(Creating(f) \ {w}) = Cardinality(Creating(f)) - 1
    BY <2>1, AccountsTypes, OneWorkerLess
  <2>4. AccountsOf(f)' = AccountsOf(f) \cup {n} /\ n \notin AccountsOf(f)
    BY <1>2, <1>3, <1>4, <1>9 DEF AccountsOf
  <2>5. Cardinality(AccountsOf(f)') = Cardinality(AccountsOf(f)) + 1
    BY <2>4, AccountsTypes, FS_AddElement
  <2> QED  BY <1>8, <2>2, <2>3, <2>5, AccountsTypes
<1>10. CASE Lower[e] # Lower[f]
  <2>1. AccountsOf(f)' = AccountsOf(f)
    BY <1>2, <1>3, <1>4, <1>10 DEF AccountsOf
  <2>2. CASE LegacyOf(f) # {}
    BY <1>7, <2>1, <2>2 DEF AccountsOK
  <2>3. CASE LegacyOf(f) = {}
    <3>1. Cardinality(AccountsOf(f)) + Cardinality(Creating(f)) <= Cardinality(Workers)
      BY <2>3 DEF AccountsOK
    <3> QED  BY <1>8, <2>1, <2>3, <3>1, AccountsTypes
  <2> QED  BY <2>2, <2>3
<1> QED  BY <1>9, <1>10

LEMMA StepKeepsAccountsOK ==
  ASSUME IInv, AccountsOK, [Next]_vars
  PROVE  AccountsOK'
<1>0. task \in [Workers -> Tasks]
  BY DEF IInv, TypeOK
<1>1. ASSUME NEW w \in Workers, NEW e \in Emails,
             RequestCode(w, e) \/ \E d \in Digits : SubmitCode(w, e, d)
      PROVE  AccountsOK'
  <2>1. UNCHANGED accounts /\ \A x \in Workers :
          task'[x] = task[x] \/ task'[x].pc \in {"expire", "check"}
    BY <1>0, <1>1 DEF RequestCode, SubmitCode, Idle
  <2> QED  BY <2>1, QuietKeepsAccountsOK
<1>2. ASSUME NEW w \in Workers, ExpireNext(w)
      PROVE  AccountsOK'
  <2>1. UNCHANGED accounts /\ \A x \in Workers :
          task'[x].pc = task[x].pc /\ task'[x].email = task[x].email
    BY <1>0, <1>2 DEF ExpireNext, Tasks
  <2> QED  BY <2>1, QuietKeepsAccountsOK
<1>3. ASSUME NEW w \in Workers, CreateCode(w) \/ AcceptCode(w)
      PROVE  AccountsOK'
  <2>1. UNCHANGED accounts /\ \A x \in Workers :
          task'[x] = task[x] \/ task'[x].pc \in {"send", "active"}
    BY <1>0, <1>3 DEF CreateCode, AcceptCode, Become, Tasks
  <2> QED  BY <2>1, QuietKeepsAccountsOK
<1>4. ASSUME NEW w \in Workers, SendMail(w) \/ RejectAged(w) \/ IssueToken(w)
                                 \/ RequestDies(w)
      PROVE  AccountsOK'
  <2>1. UNCHANGED accounts /\ \A x \in Workers :
          task'[x] = task[x] \/ task'[x].pc = "idle"
    BY <1>0, <1>4 DEF SendMail, RejectAged, IssueToken, RequestDies, Done, Idle
  <2> QED  BY <2>1, QuietKeepsAccountsOK
<1>5. ASSUME NEW w \in Workers, FindActive(w)
      PROVE  AccountsOK'
  <2>1. UNCHANGED accounts /\ \A x \in Workers :
          task'[x] = task[x] \/ task'[x].pc \in {"any", "token"}
    BY <1>0, <1>5 DEF FindActive, Become, Take, Tasks
  <2> QED  BY <2>1, QuietKeepsAccountsOK
<1>6. CASE \/ UNCHANGED vars \/ \E c \in Ids : CodeAges(c)
           \/ \E w \in Workers, e \in Emails, d \in Digits : RejectUnknown(w, e, d)
  BY <1>6, QuietKeepsAccountsOK DEF CodeAges, RejectUnknown, vars
<1> QED  BY <1>1, <1>2, <1>3, <1>4, <1>5, <1>6, FindAnyKeepsAccountsOK,
            CreateAccountKeepsAccountsOK DEF Next, Arrive, Continue

\* Whatever requests overlap, an address that had accounts keeps those and
\* gets no other, and one that had none gets at most one for each worker
\* (get_or_create_user).
THEOREM AccountsAreBounded == Spec => []AccountsBounded
<1>1. Init => AccountsOK
  <2>1. SUFFICES ASSUME Init, NEW e \in Emails
        PROVE  AccountsOf(e) = LegacyOf(e) /\ Creating(e) = {}
    <3>1. Cardinality({}) = 0 /\ Cardinality(Workers) \in Nat
      BY FS_EmptySet, Counting
    <3>2. 0 + 0 <= Cardinality(Workers)
      BY <3>1
    <3> QED  BY <3>1, <3>2 DEF AccountsOK
  <2>2. DOMAIN Legacy = 1 .. Len(Legacy)
    BY LegacyAssumption
  <2> QED  BY <2>1, <2>2 DEF Init, AccountsOf, LegacyOf, Creating, Idle
<1>2. IInv /\ AccountsOK /\ [Next]_vars => AccountsOK'
  BY StepKeepsAccountsOK
<1>3. IInv /\ AccountsOK => AccountsBounded
  <2>1. ASSUME IInv, AccountsOK, NEW e \in Emails, LegacyOf(e) = {}
        PROVE  Cardinality(AccountsOf(e)) <= Cardinality(Workers)
    BY <2>1, AccountsTypes DEF AccountsOK
  <2> QED  BY <2>1 DEF AccountsBounded, AccountsOK
<1> QED  BY <1>1, <1>2, <1>3, Invariance, PTL DEF Spec
==============================================================================
