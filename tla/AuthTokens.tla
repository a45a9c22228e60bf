----------------------------- MODULE AuthTokens -----------------------------
(***************************************************************************)
(* Sessions and refresh tokens (app/modules/auth).  A login opens a session*)
(* with the first token of a family; a refresh rotates a token into a new  *)
(* one; presenting a rotated token again, or logging out, revokes the      *)
(* family and ends the session.  Each request runs in one READ COMMITTED   *)
(* transaction (RowLocks), whose statements are separate actions: they see *)
(* what is committed when they begin, wait for rows that another           *)
(* transaction has locked, and then act on the row as it has become.  A    *)
(* response is sent before get_db commits, except for a reuse, which       *)
(* commits first.                                                          *)
(***************************************************************************)
EXTENDS Integers, FiniteSets

CONSTANTS
    Sessions,   \* rows of users.sessions, one token family each
    Tokens,     \* rows of users.refresh_tokens, named by their hash
    NoSession,  \* the session of a token that was never inserted
    Requests,   \* POST /auth/refresh and POST /auth/logout requests
    Workloads,  \* what the requests may be: functions to "refresh", "logout"
    Lifetime,   \* settings.jwt_refresh_ttl_seconds, in ticks
    MaxClock    \* bound: the model's clock stops here

ASSUME NamesAssumption ==
    /\ NoSession \notin Sessions
    /\ IsFiniteSet(Tokens)
    /\ Workloads \subseteq [Requests -> {"refresh", "logout"}]

ASSUME TimeAssumption ==
    /\ Lifetime \in Nat \ {0}
    /\ MaxClock \in Nat

VARIABLES
    clock,      \* now, in ticks
    session,    \* users.sessions, committed
    token,      \* users.refresh_tokens, committed
    pc,         \* the next statement of each request; "lost" if rolled back
    kind,       \* which endpoint it called
    presented,  \* the refresh token in its body
    now,        \* the time it read when it began
    draft,      \* the token rows it has locked, as it would commit them
    targets,    \* rows its family UPDATE has still to revoke
    answer,     \* what it was answered
    closed      \* history: the sessions that were revoked when it began

dbVars == <<session, token>>
vars == <<clock, session, token, pc, kind, presented, now, draft, targets,
          answer, closed>>

Instants == 0 .. MaxClock

-----------------------------------------------------------------------------
(* Rows and locks.                                                          *)

NoRow == [session |-> NoSession, rotated |-> FALSE, revoked |-> FALSE,
          reused |-> FALSE]
NewRow(s) == [NoRow EXCEPT !.session = s]
Unopened == [status |-> "none", expires |-> 0]

INSTANCE RowLocks WITH Rows <- Tokens, Transactions <- Requests, table <- token

SessionOf(q) == token[presented[q]].session

Answer(q, result) == answer' = [answer EXCEPT ![q] = result]
Finish(q, result) == pc' = [pc EXCEPT ![q] = "done"] /\ Answer(q, result)
Goto(q, label) == pc' = [pc EXCEPT ![q] = label] /\ UNCHANGED answer

\* Bound: rows that no transaction has named yet.
Fresh == {t \in Tokens : token[t] = NoRow /\ \A q \in Requests : t \notin DOMAIN draft[q]}

Init ==
    /\ clock = 0
    /\ session = [s \in Sessions |-> Unopened]
    /\ token = [t \in Tokens |-> NoRow]
    /\ pc = [q \in Requests |-> "idle"]
    /\ kind \in Workloads
    /\ presented \in [Requests -> Tokens]
    /\ now = [q \in Requests |-> 0]
    /\ draft = [q \in Requests |-> Unlocked]
    /\ targets = [q \in Requests |-> {}]
    /\ answer = [q \in Requests |-> "none"]
    /\ closed = [q \in Requests |-> {}]

-----------------------------------------------------------------------------
\* verify_otp, once the code is accepted: a session and its first token, in
\* rows that nobody else can have locked.
Login(s) ==
    /\ session[s] = Unopened
    /\ session' = [session EXCEPT ![s] =
                     [status |-> "active", expires |-> clock + Lifetime]]
    /\ \E t \in Fresh : token' = [token EXCEPT ![t] = NewRow(s)]
    /\ UNCHANGED <<clock, pc, kind, presented, now, draft, targets, answer, closed>>

\* The request arrives and its service reads the clock.
Begin(q) ==
    /\ pc[q] = "idle"
    /\ now' = [now EXCEPT ![q] = clock]
    /\ closed' = [closed EXCEPT ![q] =
                    {s \in Sessions : session[s].status = "revoked"}]
    /\ Goto(q, "lock")
    /\ UNCHANGED <<clock, dbVars, kind, presented, draft, targets>>

\* Mutant of LockToken: SELECT without FOR UPDATE, which never waits.
LockTokenNoWait(q) ==
    /\ pc[q] = "lock"
    /\ IF token[presented[q]] = NoRow
       THEN Finish(q, "unknown") /\ UNCHANGED draft
       ELSE Goto(q, "session") /\ Write(q, presented[q], token[presented[q]])
    /\ UNCHANGED <<clock, dbVars, kind, presented, now, targets, closed>>

\* get_by_hash_for_update: SELECT ... FOR UPDATE waits for the row's holder,
\* unless the row is not committed yet and so is not found.
LockToken(q) ==
    /\ pc[q] = "lock"
    /\ token[presented[q]] = NoRow \/ ~LockedByOther(q, presented[q])
    /\ IF token[presented[q]] = NoRow
       THEN Finish(q, "unknown") /\ UNCHANGED draft
       ELSE Goto(q, "session") /\ Write(q, presented[q], token[presented[q]])
    /\ UNCHANGED <<clock, dbVars, kind, presented, now, targets, closed>>

-----------------------------------------------------------------------------
(* RefreshTokenService.refresh after the token is locked: the session is    *)
(* read without a lock, and the request decided on both.                    *)

Reused(row) == row.rotated \/ row.reused
Expired(q) == session[SessionOf(q)].expires <= now[q]
\* Mutant of Refused: the token alone says whether its session has ended.
RefusedByToken(q) == Seen(q, presented[q]).revoked \/ Expired(q)
Refused(q) ==
    \/ Seen(q, presented[q]).revoked
    \/ session[SessionOf(q)].status = "revoked"
    \/ Expired(q)

DetectReuse(q) ==
    /\ pc[q] = "session" /\ kind[q] = "refresh"
    /\ Reused(Seen(q, presented[q]))
    /\ Write(q, presented[q], [Seen(q, presented[q]) EXCEPT !.reused = TRUE])
    /\ Goto(q, "scan")
    /\ UNCHANGED <<clock, dbVars, kind, presented, now, targets, closed>>

Refuse(q) ==
    /\ pc[q] = "session" /\ kind[q] = "refresh"
    /\ ~Reused(Seen(q, presented[q]))
    /\ Refused(q)
    /\ Finish(q, "refused")
    /\ Rollback(q)
    /\ UNCHANGED <<clock, session, kind, presented, now, targets, closed>>

\* Mutant of Rotate: the presented token is not marked.
RotateUnmarked(q) ==
    /\ pc[q] = "session" /\ kind[q] = "refresh"
    /\ ~Reused(Seen(q, presented[q]))
    /\ ~Refused(q)
    /\ \E t \in Fresh : Write(q, t, NewRow(SessionOf(q)))
    /\ Goto(q, "respond")
    /\ UNCHANGED <<clock, dbVars, kind, presented, now, targets, closed>>

\* The new token t is inserted and the presented one marked as rotated; neither
\* is visible to others before the commit.
RotateInto(q, t) ==
    draft' = [draft EXCEPT ![q] =
                [u \in DOMAIN @ \cup {t} |->
                   IF u = t THEN NewRow(SessionOf(q))
                   ELSE IF u = presented[q] THEN [@[u] EXCEPT !.rotated = TRUE]
                   ELSE @[u]]]

Rotate(q) ==
    /\ pc[q] = "session" /\ kind[q] = "refresh"
    /\ ~Reused(Seen(q, presented[q]))
    /\ ~Refused(q)
    /\ \E t \in Fresh : RotateInto(q, t)
    /\ Goto(q, "respond")
    /\ UNCHANGED <<clock, dbVars, kind, presented, now, targets, closed>>

\* The route returns and its response is sent ...
Respond(q) ==
    /\ pc[q] = "respond"
    /\ pc' = [pc EXCEPT ![q] = "commit"]
    /\ Answer(q, IF kind[q] = "refresh" THEN "rotated" ELSE "logged_out")
    /\ UNCHANGED <<clock, dbVars, kind, presented, now, draft, targets, closed>>

EndSessionOf(q) == session' = [session EXCEPT ![SessionOf(q)].status = "revoked"]

\* ... and then get_db commits: a rotation, or a family and its session revoked.
CommitRequest(q) ==
    /\ pc[q] = "commit"
    /\ Commit(q)
    /\ IF kind[q] = "logout" THEN EndSessionOf(q) ELSE UNCHANGED session
    /\ pc' = [pc EXCEPT ![q] = "done"]
    /\ UNCHANGED <<clock, answer, kind, presented, now, targets, closed>>

-----------------------------------------------------------------------------
(* LogoutService.logout after the token is locked.                          *)

LogoutFamily(q) ==
    /\ pc[q] = "session" /\ kind[q] = "logout"
    /\ session[SessionOf(q)].status = "active"
    /\ Goto(q, "scan")
    /\ UNCHANGED <<clock, dbVars, kind, presented, now, draft, targets, closed>>

LogoutAgain(q) ==
    /\ pc[q] = "session" /\ kind[q] = "logout"
    /\ session[SessionOf(q)].status = "revoked"
    /\ Rollback(q)
    /\ Finish(q, "logged_out")
    /\ UNCHANGED <<clock, session, kind, presented, now, targets, closed>>

-----------------------------------------------------------------------------
(* revoke_family and the revocation of the session, for both endpoints.     *)

\* The UPDATE finds its rows in the snapshot taken when it begins, ...
ScanFamily(q) ==
    /\ pc[q] = "scan"
    /\ targets' = [targets EXCEPT ![q] =
                     {t \in Tokens : /\ Seen(q, t).session = SessionOf(q)
                                     /\ ~Seen(q, t).revoked}]
    /\ Goto(q, "revoke")
    /\ UNCHANGED <<clock, dbVars, kind, presented, now, draft, closed>>

\* ... looks again at each once it is locked, ...
AsRevoked(q, row) ==
    IF row.revoked THEN row
    ELSE [row EXCEPT !.revoked = TRUE, !.reused = @ \/ kind[q] = "refresh"]

\* ... and updates those that still are not revoked.
RevokeRow(q) ==
    /\ pc[q] = "revoke"
    /\ \E t \in targets[q] :
         /\ ~LockedByOther(q, t)
         /\ Write(q, t, AsRevoked(q, Seen(q, t)))
         /\ targets' = [targets EXCEPT ![q] = @ \ {t}]
    /\ UNCHANGED <<clock, dbVars, pc, answer, kind, presented, now, closed>>

\* The session's row is updated last, when no other transaction holds it.
SessionFree(q) ==
    \A p \in Requests \ {q} :
        ~ /\ kind[p] = "logout"
          /\ pc[p] \in {"respond", "commit"}
          /\ SessionOf(p) = SessionOf(q)

RevokeSession(q) ==
    /\ pc[q] = "revoke" /\ kind[q] = "logout"
    /\ targets[q] = {}
    /\ SessionFree(q)
    /\ Goto(q, "respond")
    /\ UNCHANGED <<clock, dbVars, kind, presented, now, draft, targets, closed>>

\* Mutant of ReportReuse: what was detected is rolled back with the rejection.
ReportReuseRolledBack(q) ==
    /\ pc[q] = "revoke" /\ kind[q] = "refresh"
    /\ targets[q] = {}
    /\ SessionFree(q)
    /\ Rollback(q)
    /\ Finish(q, "reuse")
    /\ UNCHANGED <<clock, session, kind, presented, now, targets, closed>>

\* The controller commits a reuse itself, before it is answered with 401.
ReportReuse(q) ==
    /\ pc[q] = "revoke" /\ kind[q] = "refresh"
    /\ targets[q] = {}
    /\ SessionFree(q)
    /\ EndSessionOf(q)
    /\ Commit(q)
    /\ Finish(q, "reuse")
    /\ UNCHANGED <<clock, kind, presented, now, targets, closed>>

-----------------------------------------------------------------------------
(* The database and the environment.                                        *)

\* The rows each request has yet to lock, in whatever order the database takes.
Wanted == [q \in Requests |->
    CASE pc[q] = "lock" -> {t \in {presented[q]} : token[t] # NoRow}
      [] pc[q] = "revoke" -> targets[q]
      [] OTHER -> {}]

\* Transactions that wait for each other in a circle: one is rolled back and
\* its request fails with an internal error.
DeadlockVictim(q) ==
    /\ InCircle(q, Wanted)
    /\ Rollback(q)
    /\ Finish(q, "deadlock")
    /\ targets' = [targets EXCEPT ![q] = {}]
    /\ UNCHANGED <<clock, session, kind, presented, now, closed>>

\* The process or its connection is lost before the commit; what was answered
\* stays answered.
Lose(q) ==
    /\ pc[q] \notin {"idle", "done", "lost"}
    /\ Rollback(q)
    /\ Goto(q, "lost")
    /\ targets' = [targets EXCEPT ![q] = {}]
    /\ UNCHANGED <<clock, session, kind, presented, now, closed>>

Tick ==
    /\ clock < MaxClock
    /\ clock' = clock + 1
    /\ UNCHANGED <<dbVars, pc, kind, presented, now, draft, targets, answer, closed>>

Refresh(q) == DetectReuse(q) \/ Refuse(q) \/ Rotate(q)
Logout(q) == LogoutFamily(q) \/ LogoutAgain(q)
Revoke(q) == ScanFamily(q) \/ RevokeRow(q) \/ RevokeSession(q) \/ ReportReuse(q)
Step(q) ==
    \/ LockToken(q) \/ Refresh(q) \/ Logout(q) \/ Revoke(q)
    \/ Respond(q) \/ CommitRequest(q) \/ DeadlockVictim(q)

Next ==
    \/ \E s \in Sessions : Login(s)
    \/ \E q \in Requests : Begin(q) \/ Step(q) \/ Lose(q)
    \/ Tick

Spec == Init /\ [][Next]_vars

-----------------------------------------------------------------------------
(* Properties.                                                              *)

Labels == {"idle", "lock", "session", "scan", "revoke", "respond", "commit",
           "done", "lost"}
Answers == {"none", "unknown", "refused", "rotated", "reuse", "logged_out",
            "deadlock"}
Row == [session : Sessions \cup {NoSession}, rotated : BOOLEAN,
        revoked : BOOLEAN, reused : BOOLEAN]
SessionRow == [status : {"none", "active", "revoked"},
               expires : 0 .. MaxClock + Lifetime]

\* Every variable has its type, and no row is locked by two transactions.
TypeOK ==
    /\ clock \in Instants
    /\ session \in [Sessions -> SessionRow]
    /\ token \in [Tokens -> Row]
    /\ pc \in [Requests -> Labels]
    /\ kind \in Workloads
    /\ presented \in [Requests -> Tokens]
    /\ now \in [Requests -> Instants]
    /\ DOMAIN draft = Requests
    /\ \A q \in Requests : draft[q] \in [DOMAIN draft[q] -> Row]
                           /\ DOMAIN draft[q] \subseteq Tokens
    /\ \A q, p \in Requests : q # p => DOMAIN draft[q] \cap DOMAIN draft[p] = {}
    /\ targets \in [Requests -> SUBSET Tokens]
    /\ answer \in [Requests -> Answers]
    /\ closed \in [Requests -> SUBSET Sessions]

\* The tokens of a session that could be rotated by their own columns.
Current(s) == {t \in Tokens : /\ token[t].session = s
                              /\ ~token[t].rotated
                              /\ ~token[t].revoked}

\* docs/auth.md:248: a family has at most one token that is neither rotated nor
\* revoked.  While the session is active it has exactly one: no interleaving of
\* refreshes, failures and logouts leaves a live session without a token.
OneCurrentToken ==
    \A s \in Sessions :
        /\ Cardinality(Current(s)) <= 1
        /\ session[s].status = "active" => Cardinality(Current(s)) = 1

Rotated(q) == pc[q] = "done" /\ answer[q] = "rotated"

\* Of all refreshes that present one token, however they overlap, one at most
\* commits a new pair; the others are told of the reuse or its consequences.
RotatedOnce ==
    \A q, p \in Requests :
        q # p /\ Rotated(q) /\ Rotated(p) => presented[q] # presented[p]

\* Once a session has been revoked, no refresh that begins later is answered
\* with tokens, not even for a token that the revocation overlooked.
NothingAfterClose ==
    \A q \in Requests :
        answer[q] = "rotated" => SessionOf(q) \notin closed[q]

\* When a reuse has been reported the session has ended, although the answer is
\* an error; so has it once the transaction of a confirmed logout is committed.
ReportedIsEnded ==
    \A q \in Requests :
        \/ answer[q] = "reuse"
        \/ answer[q] = "logged_out" /\ pc[q] = "done"
        => session[SessionOf(q)].status = "revoked"

-----------------------------------------------------------------------------
(* The families that the rows stand for.                                    *)

Opened == {s \in Sessions : session[s].status # "none"}
Heir == [s \in Opened |->
            CHOOSE t \in Tokens : token[t].session = s /\ ~token[t].rotated]
EndedSessions == {s \in Sessions : session[s].status = "revoked"}
CaughtSessions == {s \in Opened : token[Heir[s]].revoked}
Exchanged == {<<q, presented[q]>> : q \in {p \in Requests : Rotated(p)}}
Families == INSTANCE TokenFamilies WITH
    heir <- Heir, ended <- EndedSessions, caught <- CaughtSessions,
    exchanged <- Exchanged, late <- closed

\* Requests that lock and write rows one by one, look at some of them without a
\* lock, and may fail at any statement, exchange and end whole families at
\* their commits: as if each came alone, but for the heir that a revocation
\* overlooks.
ImplementsFamilies == Families!Spec
=============================================================================
