----------------------------- MODULE EmailLogin -----------------------------
(***************************************************************************)
(* Passwordless login of createus_common.auth: the two endpoints           *)
(* request-code and verify-code, EmailCodeService, get_or_create_user and  *)
(* TokenService, run by web workers over one database.                     *)
(*                                                                         *)
(* A request is split at every database statement and at the mail service. *)
(* Code rows are looked up by the address as it was typed, accounts by the *)
(* address without regard to case.                                         *)
(***************************************************************************)
EXTENDS Naturals, Sequences, FiniteSets

CONSTANTS Workers,
          Emails,       \* addresses, as typed
          Lower,        \* strip().lower() of an address
          Digits,       \* the six-digit strings
          Legacy,       \* accounts there are before, in order of date_joined
          MaxCodes,     \* bound: codes created
          MaxFaults     \* bound: requests that raise or die

ASSUME LowerAssumption ==
  Lower \in [Emails -> Emails] /\ \A e \in Emails : Lower[Lower[e]] = Lower[e]
ASSUME WorkersAssumption == IsFiniteSet(Workers)
ASSUME EmailsAssumption == Emails # {}
ASSUME LegacyAssumption == Legacy \in Seq([email: Emails, active: BOOLEAN])
ASSUME BoundAssumption == MaxCodes \in Nat /\ MaxFaults \in Nat

VARIABLES codes,     \* the EmailVerificationCode rows, in order of created_at
          accounts,  \* the user table, in order of date_joined
          tokens,    \* accounts that have an auth token
          logins,    \* verify requests answered 200: the code, the account
          task,      \* what each worker is doing
          faults     \* failures so far

vars == <<codes, accounts, tokens, logins, task, faults>>

CodeStatuses == {"PENDING", "VERIFIED", "EXPIRED", "FAILED"}

\* aged: expires_at has passed; uses: requests that have verified it.
Codes == [email: Emails, digits: Digits, status: CodeStatuses,
          aged: BOOLEAN, uses: Nat]
AccountRows == [email: Emails, active: BOOLEAN]

Tasks == [pc: {"idle", "expire", "send", "check", "active", "any",
               "create", "token"},
          email: Emails,          \* of the request
          code: Nat,              \* the code row in memory
          stale: SUBSET Nat,      \* rows the request has yet to expire
          account: Nat]

Idle == [pc |-> "idle", email |-> CHOOSE e \in Emails : TRUE, code |-> 0,
         stale |-> {}, account |-> 0]

TypeOK ==
  /\ codes \in Seq(Codes)
  /\ accounts \in Seq(AccountRows)
  /\ tokens \subseteq 1 .. Len(accounts)
  /\ logins \subseteq [code: 1 .. Len(codes), account: 1 .. Len(accounts)]
  /\ task \in [Workers -> Tasks]
  /\ faults \in Nat

Ids == 1 .. Len(codes)

\* Codes there are, and requests that are about to create one.
Pending == Cardinality({w \in Workers : task[w].pc = "expire"})
MayRequest == Len(codes) + Pending < MaxCodes

Become(w, pc) == task' = [task EXCEPT ![w].pc = pc]
Done(w) == task' = [task EXCEPT ![w] = Idle]

----------------------------------------------------------------------------
(* POST request-code *)

\* Mutant: the codes sent before stay valid.
RequestWithoutExpiry(w, e) ==
  /\ task[w].pc = "idle"
  /\ MayRequest
  /\ task' = [task EXCEPT ![w] = [Idle EXCEPT !.pc = "expire", !.email = e]]
  /\ UNCHANGED <<codes, accounts, tokens, logins, faults>>

\* expire_previous_codes evaluates its queryset: the pending codes of e.
RequestCode(w, e) ==
  /\ task[w].pc = "idle"
  /\ MayRequest
  /\ task' = [task EXCEPT ![w] = [Idle EXCEPT
       !.pc = "expire", !.email = e,
       !.stale = {c \in Ids : codes[c].email = e /\ codes[c].status = "PENDING"}]]
  /\ UNCHANGED <<codes, accounts, tokens, logins, faults>>

\* mark_expired of the next of them, whatever its row says by now.
ExpireNext(w) ==
  /\ task[w].pc = "expire"
  /\ \E c \in task[w].stale :
       /\ \A d \in task[w].stale : d <= c
       /\ codes' = [codes EXCEPT ![c].status = "EXPIRED"]
       /\ task' = [task EXCEPT ![w].stale = @ \ {c}]
  /\ UNCHANGED <<accounts, tokens, logins, faults>>

CreateCode(w) ==
  /\ task[w].pc = "expire"
  /\ task[w].stale = {}
  /\ \E d \in Digits :
       codes' = Append(codes, [email |-> task[w].email, digits |-> d,
                               status |-> "PENDING", aged |-> FALSE, uses |-> 0])
  /\ Become(w, "send")
  /\ UNCHANGED <<accounts, tokens, logins, faults>>

\* The mail is sent and the request answered 200.
SendMail(w) ==
  /\ task[w].pc = "send"
  /\ Done(w)
  /\ UNCHANGED <<codes, accounts, tokens, logins, faults>>

----------------------------------------------------------------------------
(* POST verify-code *)

\* The rows verify_code's query selects.
Matching(e, d) == {c \in Ids : /\ codes[c].email = e /\ codes[c].digits = d
                               /\ codes[c].status = "PENDING"}

\* No row: 400, and nothing has changed.
RejectUnknown(w, e, d) ==
  /\ task[w].pc = "idle"
  /\ Matching(e, d) = {}
  /\ UNCHANGED vars

\* The newest of them is read.
SubmitCode(w, e, d) ==
  /\ task[w].pc = "idle"
  /\ \E c \in Matching(e, d) :
       /\ \A x \in Matching(e, d) : x <= c
       /\ task' = [task EXCEPT ![w] =
                     [Idle EXCEPT !.pc = "check", !.email = e, !.code = c]]
  /\ UNCHANGED <<codes, accounts, tokens, logins, faults>>

\* is_expired of the row in memory: mark_expired, and the answer is 400.
RejectAged(w) ==
  /\ task[w].pc = "check"
  /\ codes[task[w].code].aged
  /\ codes' = [codes EXCEPT ![task[w].code].status = "EXPIRED"]
  /\ Done(w)
  /\ UNCHANGED <<accounts, tokens, logins, faults>>

\* Mutant: an accepted code is not marked.
AcceptUnmarked(w) ==
  /\ task[w].pc = "check"
  /\ ~codes[task[w].code].aged
  /\ codes' = [codes EXCEPT ![task[w].code].uses = @ + 1]
  /\ Become(w, "active")
  /\ UNCHANGED <<accounts, tokens, logins, faults>>

\* mark_verified, whatever the row in the table says by now.
AcceptCode(w) ==
  /\ task[w].pc = "check"
  /\ ~codes[task[w].code].aged
  /\ codes' = [codes EXCEPT ![task[w].code].status = "VERIFIED",
                            ![task[w].code].uses = @ + 1]
  /\ Become(w, "active")
  /\ UNCHANGED <<accounts, tokens, logins, faults>>

\* Mutant: the address is compared as it is stored.
ExactAccounts(e) == {a \in 1 .. Len(accounts) : accounts[a].email = Lower[e]}

\* Mutant: the lookup is not limited to the address.
AllAccounts(e) == 1 .. Len(accounts)

\* filter(email__iexact = e)
MatchingAccounts(e) ==
  {a \in 1 .. Len(accounts) : Lower[accounts[a].email] = Lower[e]}

\* The account found first by date_joined: a token is issued for it next.
Take(w, found) ==
  \E a \in found :
    /\ \A b \in found : a <= b
    /\ task' = [task EXCEPT ![w].pc = "token", ![w].account = a]

FindActive(w) ==
  /\ task[w].pc = "active"
  /\ LET found == {a \in MatchingAccounts(task[w].email) : accounts[a].active}
     IN IF found = {} THEN Become(w, "any") ELSE Take(w, found)
  /\ UNCHANGED <<codes, accounts, tokens, logins, faults>>

\* Mutant: the second lookup is not checked for None.
FindAnyUnchecked(w) ==
  /\ task[w].pc = "any"
  /\ LET found == MatchingAccounts(task[w].email)
     IN IF found = {} THEN Become(w, "token") ELSE Take(w, found)
  /\ UNCHANGED <<codes, accounts, tokens, logins, faults>>

FindAny(w) ==
  /\ task[w].pc = "any"
  /\ LET found == MatchingAccounts(task[w].email)
     IN IF found = {} THEN Become(w, "create") ELSE Take(w, found)
  /\ UNCHANGED <<codes, accounts, tokens, logins, faults>>

\* create_user, with the suffixed username if the plain one is taken.
CreateAccount(w) ==
  /\ task[w].pc = "create"
  /\ accounts' = Append(accounts, [email |-> Lower[task[w].email], active |-> TRUE])
  /\ task' = [task EXCEPT ![w].pc = "token", ![w].account = Len(accounts) + 1]
  /\ UNCHANGED <<codes, tokens, logins, faults>>

IssueToken(w) ==
  /\ task[w].pc = "token"
  /\ tokens' = tokens \cup {task[w].account}
  /\ logins' = logins \cup {[code |-> task[w].code, account |-> task[w].account]}
  /\ Done(w)
  /\ UNCHANGED <<codes, accounts, faults>>

----------------------------------------------------------------------------
(* Time and failures *)

CodeAges(c) ==
  /\ ~codes[c].aged
  /\ codes' = [codes EXCEPT ![c].aged = TRUE]
  /\ UNCHANGED <<accounts, tokens, logins, task, faults>>

\* The mail service or the database raises, or the process dies: what was
\* saved stays, the rest is never done.
RequestDies(w) ==
  /\ task[w].pc # "idle"
  /\ faults < MaxFaults
  /\ faults' = faults + 1
  /\ Done(w)
  /\ UNCHANGED <<codes, accounts, tokens, logins>>

----------------------------------------------------------------------------
(* Specification *)

Init ==
  /\ codes = << >>
  /\ accounts = Legacy
  /\ tokens = {}
  /\ logins = {}
  /\ task = [w \in Workers |-> Idle]
  /\ faults = 0

Arrive(w) ==
  \E e \in Emails :
    \/ RequestCode(w, e)
    \/ \E d \in Digits : RejectUnknown(w, e, d) \/ SubmitCode(w, e, d)

Continue(w) ==
  \/ ExpireNext(w) \/ CreateCode(w) \/ SendMail(w)
  \/ RejectAged(w) \/ AcceptCode(w)
  \/ FindActive(w) \/ FindAny(w) \/ CreateAccount(w) \/ IssueToken(w)

Next ==
  \/ \E w \in Workers : Arrive(w) \/ Continue(w) \/ RequestDies(w)
  \/ \E c \in Ids : CodeAges(c)

Spec == Init /\ [][Next]_vars

----------------------------------------------------------------------------
(* Safety *)

\* However requests interleave, a token is only ever handed out for an account
\* with the very address the accepted code had been created for, up to case:
\* stale rows and concurrent sign-ups never cross two people's logins
\* (verify_code, then get_or_create_user with the same address).
LoginOwnsAddress ==
  \A l \in logins : /\ codes[l.code].uses > 0
                     /\ Lower[accounts[l.account].email] = Lower[codes[l.code].email]

\* A request that arrives after a code was accepted never gets in with it: a
\* code is accepted once for each worker that had read it pending before, and
\* never again, whatever marks and expiries are saved over each other
\* (verify_code's query, mark_verified, mark_expired).
CodeUsesBounded == \A c \in Ids : codes[c].uses <= Cardinality(Workers)

\* Only the newest code of an address is accepted, and the ones before are not,
\* used or not.
OnlyNewestAccepted ==
  \A w \in Workers : task[w].pc = "active" =>
    \A c \in Ids : codes[c].email = task[w].email => c <= task[w].code

\* The accounts of an address, however it is spelt: now, and to begin with.
AccountsOf(e) == {a \in 1 .. Len(accounts) : Lower[accounts[a].email] = Lower[e]}
LegacyOf(e) == {a \in DOMAIN Legacy : Lower[Legacy[a].email] = Lower[e]}

\* Who has an account, active or not and however its address is spelt, never
\* gets another; who has none gets at most one from each worker that looked
\* before the first was created (get_or_create_user).
AccountsBounded ==
  \A e \in Emails :
    IF LegacyOf(e) # {} THEN AccountsOf(e) = LegacyOf(e)
                        ELSE Cardinality(AccountsOf(e)) <= Cardinality(Workers)

\* No address gets a second account, however it is spelt (views.py:114).  The
\* code does not keep this: two first logins may both find no account.
OneAccountPerAddress ==
  \A a, b \in 1 .. Len(accounts) :
    Lower[accounts[a].email] = Lower[accounts[b].email] => a = b

----------------------------------------------------------------------------
(* Requests that do not overlap: no statement of the code keeps them apart *)

\* No two requests replace or check the codes of one address.
CodesApart ==
  \A w, x \in Workers :
    /\ {task[w].pc, task[x].pc} \subseteq {"expire", "check", "active"}
    /\ task[w].email = task[x].email
    => w = x

\* Only the newest code of an address is accepted: asking for a new one
\* disables the ones before, used or not, also when an earlier request died
\* half way (expire_previous_codes).  It holds for as long as no two requests
\* have been at one address's codes at once.
NewestWhileApart == []CodesApart => []OnlyNewestAccepted

----------------------------------------------------------------------------
(* The inductive invariant behind TypeOK and LoginOwnsAddress *)

\* What a request holds of the tables: the code row it read is one of its own
\* address, accepted if it has come that far, and so is the account it took.
TaskOK(t) ==
  /\ t.stale \subseteq Ids
  /\ t.pc \in {"check", "active", "any", "create", "token"} =>
       t.code \in Ids /\ codes[t.code].email = t.email
  /\ t.pc \in {"active", "any", "create", "token"} => codes[t.code].uses > 0
  /\ t.pc = "token" =>
       /\ t.account \in 1 .. Len(accounts)
       /\ Lower[accounts[t.account].email] = Lower[t.email]

IInv == TypeOK /\ LoginOwnsAddress /\ \A w \in Workers : TaskOK(task[w])

----------------------------------------------------------------------------
(* The invariants behind the others *)

\* A code still pending has opened no login, and those who hold it may each
\* use it once.
Checking(c) == {w \in Workers : task[w].pc = "check" /\ task[w].code = c}
UsesOK ==
  \A c \in Ids :
    /\ codes[c].status = "PENDING" => codes[c].uses = 0
    /\ codes[c].uses + Cardinality(Checking(c)) <= Cardinality(Workers)

\* Who is about to create an account saw none of that address, and each who
\* did creates one.
Creating(e) ==
  {w \in Workers : task[w].pc = "create" /\ Lower[task[w].email] = Lower[e]}
AccountsOK ==
  \A e \in Emails :
    IF LegacyOf(e) # {}
    THEN AccountsOf(e) = LegacyOf(e) /\ Creating(e) = {}
    ELSE Cardinality(AccountsOf(e)) + Cardinality(Creating(e)) <= Cardinality(Workers)

\* c is the newest code of address e.
Newest(c, e) == \A d \in Ids : codes[d].email = e => d <= c

\* The pending code of an address is its newest, a request that replaces codes
\* still has to expire the pending ones, and what is checked stays the newest:
\* inductive while requests are apart.
NewestOK ==
  /\ \A c \in Ids : codes[c].status = "PENDING" => Newest(c, codes[c].email)
  /\ \A w \in Workers : task[w].pc = "expire" =>
       \A c \in Ids :
         codes[c].status = "PENDING" /\ codes[c].email = task[w].email =>
           c \in task[w].stale
  /\ \A w \in Workers :
       task[w].pc \in {"check", "active"} => Newest(task[w].code, task[w].email)
============================================================================
