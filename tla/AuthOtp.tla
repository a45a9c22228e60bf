------------------------------- MODULE AuthOtp -------------------------------
(***************************************************************************)
(* One-time codes of one email address (app/modules/auth): requesting a    *)
(* code counts the recent ones, marks the unused ones as used, stores a    *)
(* new one and mails it; verifying a code locks the newest active one,     *)
(* counts a failed attempt or consumes it, finds or creates the user and   *)
(* opens a session.  Each request is one READ COMMITTED transaction        *)
(* (RowLocks) and each action one of its statements; a rejection is an     *)
(* exception, on which get_db rolls back.                                  *)
(***************************************************************************)
EXTENDS Integers, FiniteSets

CONSTANTS
    Codes,        \* rows of users.otps, named by their code
    WrongCode,    \* a code that was never issued
    Senders,      \* POST /auth/otp/request requests
    Verifiers,    \* POST /auth/otp/verify requests
    NoUser,       \* no row in users.users has this email
    Ttl,          \* settings.otp_ttl_seconds, in ticks
    Window,       \* settings.otp_rate_limit_window_seconds, in ticks
    RateLimit,    \* settings.otp_rate_limit_per_email
    MaxAttempts,  \* settings.otp_max_attempts
    MaxClock      \* bound: the model's clock stops here

ASSUME OtpNamesAssumption ==
    /\ WrongCode \notin Codes
    /\ IsFiniteSet(Codes) /\ IsFiniteSet(Verifiers)
    /\ NoUser \notin Verifiers
    /\ Senders \cap Verifiers = {}

ASSUME OtpSettingsAssumption ==
    /\ {Ttl, Window, RateLimit, MaxAttempts} \subseteq Nat \ {0}
    /\ MaxClock \in Nat

VARIABLES
    clock,      \* now, in ticks
    otp,        \* users.otps, committed
    user,       \* users.users, committed: who created the user of this email
    pc,         \* the next statement of each request; "lost" if rolled back
    now,        \* the time it read when it began
    draft,      \* the rows it has locked, as it would commit them
    targets,    \* rows its statement has found and not locked yet
    row,        \* the row a sender has inserted, or a verifier works on
    entered,    \* the code a verifier was given
    owner,      \* the user a verifier opens its session for
    answer,     \* what it was answered
    mailed,     \* history: the codes that were mailed
    failures,   \* history: how often each code was answered with a failure
    dead        \* history: the codes stored when a sender began, which it has to
                \* end; those used or expired when a verifier did

vars == <<clock, otp, user, pc, now, draft, targets, row, entered, owner, answer,
          mailed, failures, dead>>

Requests == Senders \cup Verifiers
Instants == 0 .. MaxClock

INSTANCE RowLocks WITH Rows <- Codes, Transactions <- Requests, table <- otp

NoRow == [stored |-> FALSE, created |-> 0, used |-> FALSE, attempts |-> 0]
NewRow(t) == [stored |-> TRUE, created |-> t, used |-> FALSE, attempts |-> 0]

Expires(o) == o.created + Ttl
\* Mutant of Active: the time of use is not looked at.
ActiveIfUsed(o, t) == o.stored /\ Expires(o) > t
Active(o, t) == o.stored /\ ~o.used /\ Expires(o) > t

Answer(q, result) == answer' = [answer EXCEPT ![q] = result]
Goto(q, label) == pc' = [pc EXCEPT ![q] = label]
Finish(q, result) == Goto(q, "done") /\ Answer(q, result)

\* Bound: rows that no transaction has named yet.
Fresh == {r \in Codes : ~otp[r].stored /\ \A q \in Requests : r \notin DOMAIN draft[q]}

Init ==
    /\ clock = 0
    /\ otp = [r \in Codes |-> NoRow]
    /\ user = NoUser
    /\ pc = [q \in Requests |-> "idle"]
    /\ now = [q \in Requests |-> 0]
    /\ draft = [q \in Requests |-> Unlocked]
    /\ targets = [q \in Requests |-> {}]
    /\ row = [q \in Requests |-> WrongCode]
    /\ entered \in [Verifiers -> Codes \cup {WrongCode}]
    /\ owner = [v \in Verifiers |-> NoUser]
    /\ answer = [q \in Requests |-> "none"]
    /\ mailed = {}
    /\ failures = [r \in Codes |-> 0]
    /\ dead = [q \in Requests |-> {}]

-----------------------------------------------------------------------------
(* OtpRequestService.request_otp.                                           *)

BeginRequest(q) ==
    /\ pc[q] = "idle"
    /\ now' = [now EXCEPT ![q] = clock]
    /\ dead' = [dead EXCEPT ![q] = {r \in Codes : otp[r].stored}]
    /\ Goto(q, "count")
    /\ UNCHANGED <<clock, otp, user, draft, targets, row, entered, owner, answer,
                   mailed, failures>>

Recent(t) == {r \in Codes : otp[r].stored /\ otp[r].created >= t - Window}

CountRecent(q) ==
    /\ pc[q] = "count"
    /\ IF Cardinality(Recent(now[q])) >= RateLimit
       THEN Finish(q, "limited")
       ELSE Goto(q, "scan") /\ UNCHANGED answer
    /\ UNCHANGED <<clock, otp, user, now, draft, targets, row, entered, owner,
                   mailed, failures, dead>>

\* mark_active_as_used_for_email: the UPDATE finds its rows, ...
ScanUnused(q) ==
    /\ pc[q] = "scan"
    /\ targets' = [targets EXCEPT ![q] = {r \in Codes : otp[r].stored /\ ~otp[r].used}]
    /\ Goto(q, "mark")
    /\ UNCHANGED <<clock, otp, user, now, draft, row, entered, owner, answer,
                   mailed, failures, dead>>

\* ... and locks and marks them one by one.  A code that was used while the
\* UPDATE waited is left out by its WHERE clause, and would get the value it has.
MarkUsed(q) ==
    /\ pc[q] = "mark"
    /\ \E r \in targets[q] :
         /\ ~LockedByOther(q, r)
         /\ Write(q, r, [otp[r] EXCEPT !.used = TRUE])
         /\ targets' = [targets EXCEPT ![q] = @ \ {r}]
    /\ UNCHANGED <<clock, otp, user, pc, now, row, entered, owner, answer,
                   mailed, failures, dead>>

CreateCode(q) ==
    /\ pc[q] = "mark" /\ targets[q] = {}
    /\ \E r \in Fresh : /\ Write(q, r, NewRow(now[q]))
                        /\ row' = [row EXCEPT ![q] = r]
    /\ Goto(q, "mail")
    /\ UNCHANGED <<clock, otp, user, now, targets, entered, owner, answer,
                   mailed, failures, dead>>

\* Mutant of MailFails: the error response does not undo the transaction.
MailFailsCommits(q) ==
    /\ pc[q] = "mail"
    /\ Commit(q)
    /\ Finish(q, "failed")
    /\ UNCHANGED <<clock, user, now, targets, row, entered, owner, mailed,
                   failures, dead>>

MailFails(q) ==
    /\ pc[q] = "mail"
    /\ Rollback(q)
    /\ Finish(q, "failed")
    /\ UNCHANGED <<clock, user, now, targets, row, entered, owner, mailed,
                   failures, dead>>

\* The mail is sent and the route answers; get_db has still to commit.
MailSent(q) ==
    /\ pc[q] = "mail"
    /\ mailed' = mailed \cup {row[q]}
    /\ Answer(q, "sent")
    /\ Goto(q, "commit")
    /\ UNCHANGED <<clock, otp, user, now, draft, targets, row, entered, owner,
                   failures, dead>>

-----------------------------------------------------------------------------
(* OtpVerifyService.verify_otp.                                             *)

BeginVerify(v) ==
    /\ pc[v] = "idle"
    /\ now' = [now EXCEPT ![v] = clock]
    /\ dead' = [dead EXCEPT ![v] =
                   {r \in Codes : otp[r].stored /\ (otp[r].used \/ Expires(otp[r]) <= clock)}]
    /\ Goto(v, "select")
    /\ UNCHANGED <<clock, otp, user, draft, targets, row, entered, owner, answer,
                   mailed, failures>>

\* get_latest_active_by_email_for_update finds the active codes, ...
SelectActive(v) ==
    /\ pc[v] = "select"
    /\ targets' = [targets EXCEPT ![v] = {r \in Codes : Active(otp[r], now[v])}]
    /\ Goto(v, "lock")
    /\ UNCHANGED <<clock, otp, user, now, draft, row, entered, owner, answer,
                   mailed, failures, dead>>

Newest(v) == {r \in targets[v] : \A u \in targets[v] : otp[u].created <= otp[r].created}

\* Mutant of LockCode: SELECT without FOR UPDATE.
LockCodeNoWait(v) ==
    /\ pc[v] = "lock"
    /\ \E r \in Newest(v) :
         /\ targets' = [targets EXCEPT ![v] = @ \ {r}]
         /\ Write(v, r, otp[r])
         /\ row' = [row EXCEPT ![v] = r]
         /\ Goto(v, "check")
    /\ UNCHANGED <<clock, otp, user, now, entered, owner, answer, mailed,
                   failures, dead>>

\* ... and locks the newest; one that is no longer active is passed over.
LockCode(v) ==
    /\ pc[v] = "lock"
    /\ \E r \in Newest(v) :
         /\ ~LockedByOther(v, r)
         /\ targets' = [targets EXCEPT ![v] = @ \ {r}]
         /\ Write(v, r, otp[r])
         /\ IF Active(otp[r], now[v])
            THEN row' = [row EXCEPT ![v] = r] /\ Goto(v, "check")
            ELSE UNCHANGED <<row, pc>>
    /\ UNCHANGED <<clock, otp, user, now, entered, owner, answer, mailed,
                   failures, dead>>

NoActiveCode(v) ==
    /\ pc[v] = "lock" /\ targets[v] = {}
    /\ Rollback(v)
    /\ Finish(v, "invalid")
    /\ UNCHANGED <<clock, user, now, targets, row, entered, owner, mailed,
                   failures, dead>>

Exhausted(o) == o.attempts >= MaxAttempts

\* A code that has failed too often, or does not match, ...
FailAttempt(v) ==
    /\ pc[v] = "check"
    /\ LET o == Seen(v, row[v])
           counted == IF Exhausted(o) THEN o ELSE [o EXCEPT !.attempts = @ + 1]
       IN  /\ Exhausted(o) \/ entered[v] # row[v]
           /\ Write(v, row[v], [counted EXCEPT !.used = Exhausted(counted)])
    /\ Goto(v, "raise")
    /\ UNCHANGED <<clock, otp, user, now, targets, row, entered, owner, answer,
                   mailed, failures, dead>>

\* Mutant of Raise: the transaction is left open.
RaiseOpen(v) ==
    /\ pc[v] = "raise"
    /\ Finish(v, IF Exhausted(Seen(v, row[v])) THEN "limited" ELSE "invalid")
    /\ failures' = [failures EXCEPT ![row[v]] = @ + 1]
    /\ UNCHANGED <<clock, otp, user, now, draft, targets, row, entered, owner, mailed,
                   dead>>

\* ... raises an exception, and what was written is rolled back.
Raise(v) ==
    /\ pc[v] = "raise"
    /\ Rollback(v)
    /\ Finish(v, IF Exhausted(Seen(v, row[v])) THEN "limited" ELSE "invalid")
    /\ failures' = [failures EXCEPT ![row[v]] = @ + 1]
    /\ UNCHANGED <<clock, user, now, targets, row, entered, owner, mailed, dead>>

\* Mutant of Accept: the code is not marked as used.
AcceptUnmarked(v) ==
    /\ pc[v] = "check"
    /\ ~Exhausted(Seen(v, row[v]))
    /\ entered[v] = row[v]
    /\ Goto(v, "user")
    /\ UNCHANGED <<clock, otp, user, now, draft, targets, row, entered, owner,
                   answer, mailed, failures, dead>>

Accept(v) ==
    /\ pc[v] = "check"
    /\ ~Exhausted(Seen(v, row[v]))
    /\ entered[v] = row[v]
    /\ Write(v, row[v], [Seen(v, row[v]) EXCEPT !.used = TRUE])
    /\ Goto(v, "user")
    /\ UNCHANGED <<clock, otp, user, now, targets, row, entered, owner, answer,
                   mailed, failures, dead>>

\* get_or_create_by_email reads the user ...
FindUser(v) ==
    /\ pc[v] = "user"
    /\ owner' = [owner EXCEPT ![v] = user]
    /\ Goto(v, IF user = NoUser THEN "insert" ELSE "respond")
    /\ UNCHANGED <<clock, otp, user, now, draft, targets, row, entered, answer,
                   mailed, failures, dead>>

InsertsUser(v) == pc[v] \in {"respond", "commit"} /\ owner[v] = v

\* Mutant of InsertUser: the email of a user is not unique.
InsertAnyUser(v) ==
    /\ pc[v] = "insert"
    /\ owner' = [owner EXCEPT ![v] = v]
    /\ Goto(v, "respond")
    /\ UNCHANGED <<clock, otp, user, now, draft, targets, row, entered, answer,
                   mailed, failures, dead>>

\* ... and inserts it if there is none; the unique index on its email makes it
\* wait for another insertion that is not committed.
InsertUser(v) ==
    /\ pc[v] = "insert"
    /\ \A w \in Verifiers \ {v} : ~InsertsUser(w)
    /\ user = NoUser
    /\ owner' = [owner EXCEPT ![v] = v]
    /\ Goto(v, "respond")
    /\ UNCHANGED <<clock, otp, user, now, draft, targets, row, entered, answer,
                   mailed, failures, dead>>

\* The unique index refuses a second user: an internal error.
UserExists(v) ==
    /\ pc[v] = "insert" /\ user # NoUser
    /\ Rollback(v)
    /\ Finish(v, "error")
    /\ UNCHANGED <<clock, user, now, targets, row, entered, owner, mailed,
                   failures, dead>>

\* A session and its first token are inserted and the route answers.
RespondVerified(v) ==
    /\ pc[v] = "respond"
    /\ Answer(v, "verified")
    /\ Goto(v, "commit")
    /\ UNCHANGED <<clock, otp, user, now, draft, targets, row, entered, owner,
                   mailed, failures, dead>>

-----------------------------------------------------------------------------
(* The end of a request, and the environment.                               *)

CommitRequest(q) ==
    /\ pc[q] = "commit"
    /\ Commit(q)
    /\ user' = IF q \in Verifiers THEN owner[q] ELSE user
    /\ Goto(q, "done")
    /\ UNCHANGED <<clock, now, targets, row, entered, owner, answer, mailed,
                   failures, dead>>

Wanted == [q \in Requests |-> CASE pc[q] = "mark" -> targets[q]
                                [] pc[q] = "lock" -> Newest(q)
                                [] OTHER -> {}]

DeadlockVictim(q) ==
    /\ InCircle(q, Wanted)
    /\ Rollback(q)
    /\ Finish(q, "error")
    /\ targets' = [targets EXCEPT ![q] = {}]
    /\ UNCHANGED <<clock, user, now, row, entered, owner, mailed, failures, dead>>

\* The process or its connection is lost before the commit.
Lose(q) ==
    /\ pc[q] \notin {"idle", "done", "lost"}
    /\ Rollback(q)
    /\ Goto(q, "lost")
    /\ targets' = [targets EXCEPT ![q] = {}]
    /\ UNCHANGED <<clock, user, now, row, entered, owner, answer, mailed,
                   failures, dead>>

Tick ==
    /\ clock < MaxClock
    /\ clock' = clock + 1
    /\ UNCHANGED <<otp, user, pc, now, draft, targets, row, entered, owner, answer,
                   mailed, failures, dead>>

Send(q) ==
    \/ CountRecent(q) \/ ScanUnused(q) \/ MarkUsed(q) \/ CreateCode(q)
    \/ MailFails(q) \/ MailSent(q)
Verify(v) ==
    \/ SelectActive(v) \/ LockCode(v) \/ NoActiveCode(v)
    \/ FailAttempt(v) \/ Raise(v) \/ Accept(v)
    \/ FindUser(v) \/ InsertUser(v) \/ UserExists(v) \/ RespondVerified(v)
End(q) == CommitRequest(q) \/ DeadlockVictim(q)

Next ==
    \/ \E q \in Senders : BeginRequest(q) \/ Send(q)
    \/ \E v \in Verifiers : BeginVerify(v) \/ Verify(v)
    \/ \E q \in Requests : End(q) \/ Lose(q)
    \/ Tick

Spec == Init /\ [][Next]_vars

-----------------------------------------------------------------------------
(* Properties.                                                              *)

Row == [stored : BOOLEAN, created : Instants, used : BOOLEAN, attempts : 0 .. MaxAttempts]

\* Every variable has its type, and no row is locked by two transactions.
TypeOK ==
    /\ clock \in Instants
    /\ otp \in [Codes -> Row]
    /\ user \in Verifiers \cup {NoUser}
    /\ pc \in [Requests -> {"idle", "count", "scan", "mark", "mail", "select", "lock",
                            "check", "raise", "user", "insert", "respond", "commit",
                            "done", "lost"}]
    /\ now \in [Requests -> Instants]
    /\ DOMAIN draft = Requests
    /\ \A q \in Requests : /\ DOMAIN draft[q] \subseteq Codes
                           /\ \A r \in DOMAIN draft[q] : draft[q][r] \in Row
                           /\ \A p \in Requests \ {q} :
                                DOMAIN draft[q] \cap DOMAIN draft[p] = {}
    /\ targets \in [Requests -> SUBSET Codes]
    /\ row \in [Requests -> Codes \cup {WrongCode}]
    /\ entered \in [Verifiers -> Codes \cup {WrongCode}]
    /\ owner \in [Verifiers -> Verifiers \cup {NoUser}]
    /\ answer \in [Requests -> {"none", "sent", "failed", "limited", "invalid",
                                "verified", "error"}]
    /\ mailed \subseteq Codes
    /\ failures \in [Codes -> 0 .. Cardinality(Verifiers)]
    /\ dead \in [Requests -> SUBSET Codes]

Verified(v) == answer[v] = "verified" /\ pc[v] = "done"

\* A code opens one session at most, however many requests enter it at once.
ConsumedOnce ==
    \A v, w \in Verifiers :
        v # w /\ Verified(v) /\ Verified(w) => row[v] # row[w]

\* A code that had expired, was used or was superseded before a verification
\* began is not accepted by it, whatever it overtakes on its way.
DeadCodeRefused ==
    \A v \in Verifiers : answer[v] = "verified" => row[v] \notin dead[v]

\* docs/auth.md:323: when the mail fails nothing is stored; every code in the
\* table was sent to somebody.
StoredWasMailed == \A r \in Codes : otp[r].stored => r \in mailed

\* A code stops working only for a reason its owner knows of: it was accepted,
\* a later request has stored another, or it has failed too often.  A request
\* that fails on its way does not take the old code away.
UsedForAReason ==
    \A r \in Codes : otp[r].used =>
        \/ \E v \in Verifiers : Verified(v) /\ row[v] = r
        \/ \E q \in Senders : /\ answer[q] = "sent" /\ pc[q] = "done"
                              /\ row[q] # r /\ otp[row[q]].stored
        \/ failures[r] >= MaxAttempts

\* All sessions of an address belong to one user.
OneUser == \A v \in Verifiers : Verified(v) => owner[v] = user

\* Requests that lock several codes in orders of their own, and wait for each
\* other's rows and users, never all wait: as long as one has not ended, one can
\* take a step.
InProgress(q) == pc[q] \notin {"idle", "done", "lost"}
NobodyStuck ==
    \/ \A q \in Requests : ~InProgress(q)
    \/ ENABLED ((\E q \in Senders : Send(q)) \/ (\E v \in Verifiers : Verify(v))
                \/ \E q \in Requests : End(q))

\* A request waits when the row its statement needs next is locked, or when
\* another is about to commit the user it would insert.
Waiting(q) ==
    \/ pc[q] = "mark" /\ targets[q] # {} /\ \A r \in targets[q] : LockedByOther(q, r)
    \/ pc[q] = "lock" /\ targets[q] # {} /\ \A r \in Newest(q) : LockedByOther(q, r)
    \/ pc[q] = "insert" /\ user = NoUser /\ \E v \in Verifiers \ {q} : InsertsUser(v)

\* When all of them wait, some wait in a circle of rows, which the database
\* breaks; never for a lock that outlives its request, nor in a circle with the
\* user, which the database would not see.
WaitsAreCircles ==
    (\A q \in Requests : InProgress(q) => Waiting(q)) =>
        \/ \A q \in Requests : ~InProgress(q)
        \/ \E q \in Requests : InCircle(q, Wanted)

\* docs/auth.md:205: a code that has failed MaxAttempts times is marked as used.
AttemptsCount == \A r \in Codes : failures[r] >= MaxAttempts => otp[r].used

-----------------------------------------------------------------------------
(* The codes that the rows stand for.                                       *)

Issued == {r \in Codes : otp[r].stored}
IssuedUntil == [r \in Issued |-> Expires(otp[r])]
EndedCodes == {r \in Issued : otp[r].used}
Taken(q) == pc[q] = "done" /\ answer[q] \in {"sent", "verified"}
TakenCodes == [q \in Requests |-> IF Taken(q) THEN row[q] ELSE WrongCode]
StoredBefore == [q \in Senders |-> dead[q]]

Promise == INSTANCE OneTimeCodes WITH
    NoCode <- WrongCode, NoAccount <- NoUser, since <- now, before <- StoredBefore,
    expiry <- IssuedUntil, ended <- EndedCodes, taken <- TakenCodes, account <- user

\* Requests that interleave their statements, overtake each other's rows and fail
\* on their way issue and redeem codes as if each did it in one step: a code is
\* redeemed once, by a request that came before it expired, for the one user of
\* the address, and not after a later request has issued another.
FollowsPromise == [][Promise!Next]_(Promise!codes)
=============================================================================
