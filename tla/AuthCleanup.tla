----------------------------- MODULE AuthCleanup -----------------------------
(***************************************************************************)
(* A run of scripts/auth_cleanup.py next to the requests of AuthTokens:    *)
(* one transaction that reads which sessions are past retention, deletes   *)
(* their tokens, and then deletes the sessions, whose foreign key cascades *)
(* to the tokens that were added in between.  A request waits for rows     *)
(* that the run has deleted and not committed, and the other way round.    *)
(***************************************************************************)
EXTENDS AuthTokens

CONSTANTS
    Retention,  \* auth_cleanup_retention_seconds, in ticks
    Cleaner     \* the transaction of the run

ASSUME CleanupAssumption ==
    /\ Retention \in Nat \ {0} /\ Cleaner \notin Requests
    /\ IsFiniteSet(Sessions) /\ Tokens \cap Sessions = {}

VARIABLES
    revokedAt,  \* sessions.revoked_at, where a session is revoked
    step,       \* the next statement of the run
    doomed,     \* the sessions it has found
    scanned,    \* tokens that its current DELETE has still to delete
    deleted     \* tokens it has deleted and not committed

cleanerVars == <<step, doomed, scanned, deleted>>
cleanupVars == <<vars, revokedAt, cleanerVars>>

CleanupInit ==
    /\ Init
    /\ revokedAt = [s \in Sessions |-> 0]
    /\ step = "idle"
    /\ doomed = {} /\ scanned = {} /\ deleted = {}

-----------------------------------------------------------------------------
(* Requests.                                                                *)

\* The run holds the rows of the sessions it deletes.
Deleting(s) == step \in {"cascade", "commit"} /\ s \in doomed

\* A request that needs the row of its session: to revoke it, or to insert a
\* token that refers to it.
NeedsSession(q) ==
    \/ pc[q] = "revoke" /\ targets[q] = {}
    \/ pc[q] = "session" /\ kind[q] = "refresh"
       /\ ~Reused(Seen(q, presented[q])) /\ ~Refused(q)

StepBeside(q) ==
    /\ Step(q)
    /\ NeedsSession(q) => ~Deleting(SessionOf(q))
    /\ (DOMAIN draft'[q] \ DOMAIN draft[q]) \cap deleted = {}
    /\ revokedAt' = IF \/ pc[q] = "commit" /\ kind[q] = "logout"
                       \/ answer'[q] = "reuse"
                    THEN [revokedAt EXCEPT ![SessionOf(q)] = now[q]]
                    ELSE revokedAt
    /\ UNCHANGED cleanerVars

Others ==
    /\ \/ \E s \in Sessions : Login(s) /\ s \notin doomed
       \/ \E q \in Requests : Begin(q) \/ Lose(q)
       \/ Tick
    /\ UNCHANGED <<revokedAt, cleanerVars>>

-----------------------------------------------------------------------------
(* The run.                                                                 *)

\* Mutant of PastRetention: the retention is added.
PastRetentionFuture(s) ==
    /\ session[s].status # "none"
    /\ \/ session[s].expires < clock + Retention
       \/ session[s].status = "revoked" /\ revokedAt[s] < clock + Retention

PastRetention(s) ==
    /\ session[s].status # "none"
    /\ \/ session[s].expires < clock - Retention
       \/ session[s].status = "revoked" /\ revokedAt[s] < clock - Retention

TokensOf(S) == {t \in Tokens : token[t].session \in S} \ deleted

\* get_cleanup_candidate_ids; the run takes the time just before.
FindSessions ==
    /\ step = "idle"
    /\ doomed' = {s \in Sessions : PastRetention(s)}
    /\ step' = IF doomed' = {} THEN "done" ELSE "scan"
    /\ UNCHANGED <<vars, revokedAt, scanned, deleted>>

\* delete_by_session_ids begins, with the tokens that are committed now, ...
ScanTokens ==
    /\ step = "scan"
    /\ scanned' = TokensOf(doomed)
    /\ step' = "tokens"
    /\ UNCHANGED <<vars, revokedAt, doomed, deleted>>

\* ... and deletes each once no request has locked it.
DeleteToken ==
    /\ \E t \in scanned :
         /\ \A q \in Requests : t \notin DOMAIN draft[q]
         /\ scanned' = scanned \ {t}
         /\ deleted' = deleted \cup {t}
    /\ UNCHANGED <<vars, revokedAt, step, doomed>>

\* A request that has revoked the session, or inserted a token that refers to
\* it, has locked its row.
SessionHeld(s) ==
    \E q \in Requests :
        \/ /\ kind[q] = "logout" /\ pc[q] \in {"respond", "commit"}
           /\ SessionOf(q) = s
        \/ \E t \in DOMAIN draft[q] : token[t] = NoRow /\ draft[q][t].session = s

\* Mutant of DeleteSessions: the foreign key does not cascade.
DeleteSessionsOnly ==
    /\ step = "tokens" /\ scanned = {}
    /\ ~ \E s \in doomed : SessionHeld(s)
    /\ step' = "cascade"
    /\ UNCHANGED <<vars, revokedAt, doomed, scanned, deleted>>

\* delete_by_ids, once no request holds the sessions; the cascade finds the
\* tokens that were committed in between.
DeleteSessions ==
    /\ step = "tokens" /\ scanned = {}
    /\ ~ \E s \in doomed : SessionHeld(s)
    /\ step' = "cascade"
    /\ scanned' = TokensOf(doomed)
    /\ UNCHANGED <<vars, revokedAt, doomed, deleted>>

CascadeDone ==
    /\ step = "cascade" /\ scanned = {}
    /\ step' = "commit"
    /\ UNCHANGED <<vars, revokedAt, doomed, scanned, deleted>>

CommitCleanup ==
    /\ step = "commit"
    /\ token' = [t \in Tokens |-> IF t \in deleted THEN NoRow ELSE token[t]]
    /\ session' = [s \in Sessions |-> IF s \in doomed THEN Unopened ELSE session[s]]
    /\ step' = "done" /\ deleted' = {}
    /\ UNCHANGED <<clock, pc, kind, presented, now, draft, targets, answer, closed>>
    /\ UNCHANGED <<revokedAt, doomed, scanned>>

\* Mutant of RollbackRun: the failed run leaves its transaction open.
RollbackRunOpen ==
    /\ step' = "done" /\ scanned' = {}
    /\ UNCHANGED <<vars, revokedAt, doomed, deleted>>

RollbackRun ==
    /\ step' = "done" /\ scanned' = {} /\ deleted' = {}
    /\ UNCHANGED <<vars, revokedAt, doomed>>

\* The run fails or is killed before its commit.
LoseRun == step \notin {"idle", "done"} /\ RollbackRun

\* Who waits for which rows, the run included.
Held == [x \in Requests \cup {Cleaner} |->
    IF x = Cleaner
    THEN [r \in deleted \cup {s \in doomed : Deleting(s)} |-> TRUE]
    ELSE [r \in DOMAIN draft[x] \cup {s \in Sessions : /\ kind[x] = "logout"
                                                       /\ pc[x] \in {"respond", "commit"}
                                                       /\ SessionOf(x) = s} |-> TRUE]]
WantedRows == [x \in Requests \cup {Cleaner} |->
    IF x = Cleaner THEN scanned
    ELSE Wanted[x] \cup {s \in Sessions : NeedsSession(x) /\ SessionOf(x) = s}]

Waits == INSTANCE RowLocks WITH
    Rows <- Tokens \cup Sessions, Transactions <- Requests \cup {Cleaner},
    table <- token, draft <- Held

\* The run waits for requests that wait for it, and is rolled back.
RunVictim ==
    /\ step \in {"tokens", "cascade"}
    /\ Waits!InCircle(Cleaner, WantedRows)
    /\ RollbackRun

RunStep ==
    \/ ScanTokens \/ DeleteToken \/ DeleteSessions \/ CascadeDone
    \/ CommitCleanup \/ RunVictim

CleanupNext ==
    \/ Others \/ FindSessions \/ RunStep \/ LoseRun
    \/ \E q \in Requests : StepBeside(q)

CleanupSpec == CleanupInit /\ [][CleanupNext]_cleanupVars

\* The database serves the run and the requests that have begun.
CleanupFairness ==
    /\ WF_cleanupVars(RunStep)
    /\ \A q \in Requests : WF_cleanupVars(StepBeside(q))

CleanupFairSpec == CleanupSpec /\ CleanupFairness

-----------------------------------------------------------------------------
\* No token is left without its session, although a refresh may insert one
\* after the tokens were deleted (ForeignKey ... ondelete CASCADE).
NoOrphanTokens ==
    \A t \in Tokens :
        token[t] # NoRow => session[token[t].session].status # "none"

\* docs/auth.md:807-810: a session that is active is not deleted, nor is a token
\* of it, however the run and the requests overlap.
ActiveKept ==
    [][\A s \in Sessions :
         session[s].status = "active" /\ session[s].expires >= clock =>
            /\ session'[s].status # "none"
            /\ \A t \in Tokens : token[t].session = s => token'[t] # NoRow]_cleanupVars

\* What a request or the run waits for: rows that others have locked or, for a
\* request, that the run has deleted; the row of a session.
Underway == step \notin {"idle", "done"}
InProgress(q) == pc[q] \notin {"idle", "done", "lost"}
RequestWaits(q) ==
    \/ Wanted[q] # {} /\ \A t \in Wanted[q] : LockedByOther(q, t) \/ t \in deleted
    \/ NeedsSession(q) /\ Deleting(SessionOf(q))
    \/ pc[q] = "revoke" /\ targets[q] = {} /\ ~SessionFree(q)
RunWaits ==
    \/ scanned # {} /\ \A t \in scanned : \E q \in Requests : t \in DOMAIN draft[q]
    \/ step = "tokens" /\ scanned = {} /\ \E s \in doomed : SessionHeld(s)

\* When all that have not ended wait, some wait in a circle of rows, which the
\* database breaks; never for a lock that outlives its transaction.
WaitsAreCircles ==
    /\ \A q \in Requests : InProgress(q) => RequestWaits(q)
    /\ Underway => RunWaits
    =>
    \/ ~Underway /\ \A q \in Requests : ~InProgress(q)
    \/ \E q \in Requests : InCircle(q, Wanted)
    \/ Waits!InCircle(Cleaner, WantedRows)

\* Every request that has begun and every run is over in the end: none waits
\* for ever for rows that another holds, whether one that ended left them locked
\* or they wait for each other in a circle.
EventuallyOver ==
    /\ \A q \in Requests : pc[q] # "idle" ~> pc[q] \in {"done", "lost"}
    /\ step # "idle" ~> step = "done"
=============================================================================
