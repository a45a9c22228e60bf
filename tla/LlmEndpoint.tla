----------------------------- MODULE LlmEndpoint -----------------------------
(***************************************************************************)
(* POST /llm/generate around the pipeline: who may call it, the limiter of *)
(* each user's rate, the pool of worker threads with its queue, the        *)
(* deadline of the handler, and the pool of database connections that      *)
(* handlers and workers share.  A handler keeps the connection on which    *)
(* its user was looked up until it has answered; a worker takes one for    *)
(* each transaction of the quota (LlmUsage), and none while it calls the   *)
(* provider.                                                               *)
(***************************************************************************)
EXTENDS Integers, Sequences, FiniteSets

CONSTANTS
    Users,
    Allowed,    \* users signed in and on the allowlist
    Requests,
    UserOf,     \* the user of each request
    Oversized,  \* requests whose body is too large
    Workers,    \* max_workers of _PIPELINE_EXECUTOR
    PoolSize,   \* connections of the engine's pool, the overflow included
    Limit,      \* llm_rate_limit_requests
    Window,     \* llm_rate_limit_window_seconds, in ticks
    MaxCalls,   \* model calls of one job: guard, generator, repairs
    MaxClock    \* bound: the model's clock stops here

ASSUME EndpointAssumption ==
    /\ Allowed \subseteq Users /\ UserOf \in [Requests -> Users]
    /\ IsFiniteSet(Requests) /\ Oversized \subseteq Requests
    /\ {Workers, PoolSize, Limit, Window, MaxCalls} \subseteq Nat \ {0}
    /\ MaxClock \in Nat

VARIABLES
    clock,      \* monotonic(), in ticks
    hits,       \* InMemoryRateLimiter._hits: per user, stamps of requests
    pc,         \* where each handler is
    stamp,      \* the time each handler read for the limiter
    passed,     \* history: requests that the limiter let through
    answer,     \* what it answered
    queue,      \* jobs the executor has not started
    job,        \* where each job is
    calls,      \* model calls it has made
    handlers,   \* handlers that hold a connection
    busy        \* jobs that hold a connection

limiterVars == <<hits, stamp, passed>>
jobVars == <<queue, job, calls, busy>>
vars == <<clock, limiterVars, pc, answer, jobVars, handlers>>

Init ==
    /\ clock = 0
    /\ hits = [u \in Users |-> <<>>]
    /\ pc = [q \in Requests |-> "new"]
    /\ stamp = [q \in Requests |-> 0]
    /\ passed = {}
    /\ answer = [q \in Requests |-> "none"]
    /\ queue = <<>>
    /\ job = [q \in Requests |-> "none"]
    /\ calls = [q \in Requests |-> 0]
    /\ handlers = {}
    /\ busy = {}

FreeConnection == Cardinality(handlers) + Cardinality(busy) < PoolSize

\* The handler answers, and get_db closes its session.
Reply(q, result) ==
    /\ pc' = [pc EXCEPT ![q] = "done"]
    /\ answer' = [answer EXCEPT ![q] = result]
    /\ handlers' = handlers \ {q}

Goto(q, label) == pc' = [pc EXCEPT ![q] = label] /\ UNCHANGED answer

-----------------------------------------------------------------------------
(* The dependencies of the handler, in the order in which they run.         *)

\* enforce_llm_access.
MayCall(q) == UserOf[q] \in Allowed

\* get_current_user refuses a missing or false token before it asks for a
\* connection.
RejectToken(q) ==
    /\ pc[q] = "new" /\ ~MayCall(q)
    /\ Reply(q, "refused")
    /\ UNCHANGED <<clock, limiterVars, jobVars>>

\* It takes the connection of the request to find the user, who may turn out
\* to have no session left or no place on the allowlist.
Authenticate(q) ==
    /\ pc[q] = "new" /\ FreeConnection
    /\ IF MayCall(q)
       THEN Goto(q, "clock") /\ handlers' = handlers \cup {q}
       ELSE Reply(q, "refused")
    /\ UNCHANGED <<clock, limiterVars, jobVars>>

\* No connection becomes free in time.
PoolTimeout(q) ==
    /\ pc[q] = "new" /\ ~FreeConnection
    /\ Reply(q, "error")
    /\ UNCHANGED <<clock, limiterVars, jobVars>>

\* check reads the clock, and then waits for the lock.
ReadClock(q) ==
    /\ pc[q] = "clock"
    /\ stamp' = [stamp EXCEPT ![q] = clock]
    /\ Goto(q, "limiter")
    /\ UNCHANGED <<clock, hits, passed, jobVars, handlers>>

\* Mutant of Old: stamps leave the window a tick early.
OldEarly(s, now) == now - s >= Window - 1

Old(s, now) == now - s >= Window

\* The stamps left by the while loop: it stops at the first that is not old.
Recent(stamps, now) ==
    LET fresh == {n \in DOMAIN stamps : ~Old(stamps[n], now)}
    IN  IF fresh = {} THEN <<>>
        ELSE SubSeq(stamps, CHOOSE n \in fresh : \A k \in fresh : n <= k,
                    Len(stamps))

\* Under the lock.
CheckRate(q) ==
    /\ pc[q] = "limiter"
    /\ LET u == UserOf[q]
           recent == Recent(hits[u], stamp[q])
       IN  IF Len(recent) >= Limit
           THEN /\ hits' = [hits EXCEPT ![u] = recent]
                /\ Reply(q, "rate_limited")
                /\ UNCHANGED passed
           ELSE /\ hits' = [hits EXCEPT ![u] = Append(recent, stamp[q])]
                /\ passed' = passed \cup {q}
                /\ Goto(q, "body") /\ UNCHANGED handlers
    /\ UNCHANGED <<clock, stamp, jobVars>>

\* enforce_llm_body_size; the request has been counted already.
RejectBody(q) ==
    /\ pc[q] = "body" /\ q \in Oversized
    /\ Reply(q, "unprocessable")
    /\ UNCHANGED <<clock, limiterVars, jobVars>>

-----------------------------------------------------------------------------
(* The handler and the executor.                                            *)

Submit(q) ==
    /\ pc[q] = "body" /\ q \notin Oversized
    /\ queue' = Append(queue, q)
    /\ job' = [job EXCEPT ![q] = "queued"]
    /\ Goto(q, "wait")
    /\ UNCHANGED <<clock, limiterVars, calls, busy, handlers>>

Ended == {"ok", "failed", "error"}

\* Mutant of Deadline: the handler waits as long as the job takes.
DeadlineNever(q) == FALSE /\ UNCHANGED vars

\* future.result(timeout) gives up; the job stays queued, or goes on.
Deadline(q) ==
    /\ pc[q] = "wait" /\ job[q] \notin Ended
    /\ Reply(q, "timeout")
    /\ UNCHANGED <<clock, limiterVars, jobVars>>

Respond(q) ==
    /\ pc[q] = "wait" /\ job[q] \in Ended
    /\ Reply(q, job[q])
    /\ UNCHANGED <<clock, limiterVars, jobVars>>

Running == {q \in Requests : job[q] \notin {"none", "queued"} \cup Ended}

\* Mutant of StartJob: every job gets a thread.
StartJobAtOnce ==
    /\ queue # <<>>
    /\ job' = [job EXCEPT ![Head(queue)] = "reserve"]
    /\ queue' = Tail(queue)
    /\ UNCHANGED <<clock, limiterVars, pc, answer, calls, handlers, busy>>

\* A free worker takes the oldest job, whether or not its handler still waits.
StartJob ==
    /\ queue # <<>> /\ Cardinality(Running) < Workers
    /\ job' = [job EXCEPT ![Head(queue)] = "reserve"]
    /\ queue' = Tail(queue)
    /\ UNCHANGED <<clock, limiterVars, pc, answer, calls, handlers, busy>>

-----------------------------------------------------------------------------
(* The pipeline: the quota is reserved, and every call is started and       *)
(* settled; what is reserved for a call that is not made is released.  Each *)
(* of these is a transaction with a connection of its own.                  *)

\* What may come after each: the next transaction, the call, or the end of the
\* job.  A preflight that fails, and a guard that refuses, abandon what was
\* reserved: the call's own reservation or the search for those downstream
\* first, then the generator's.
Following ==
    [reserve |-> {"start", "abandon", "failed"},
     start   |-> {"provider", "failed"},
     settle  |-> {"start", "reserve", "abandon", "ok", "failed"},
     abandon |-> {"release", "failed"},
     release |-> {"failed"}]

Transactions == DOMAIN Following

TakeConnection(q) ==
    /\ job[q] \in Transactions /\ q \notin busy /\ FreeConnection
    /\ busy' = busy \cup {q}
    /\ UNCHANGED <<clock, limiterVars, pc, answer, queue, job, calls, handlers>>

\* The pool's error is not an LlmServiceError.
JobPoolTimeout(q) ==
    /\ job[q] \in Transactions /\ q \notin busy /\ ~FreeConnection
    /\ job' = [job EXCEPT ![q] = "error"]
    /\ UNCHANGED <<clock, limiterVars, pc, answer, queue, calls, handlers, busy>>

\* The transaction ends and gives its connection back.
EndTransaction(q) ==
    /\ q \in busy
    /\ \E next \in Following[job[q]] :
         /\ next \in {"reserve", "start", "provider"} => calls[q] < MaxCalls
         /\ job' = [job EXCEPT ![q] = next]
    /\ busy' = busy \ {q}
    /\ UNCHANGED <<clock, limiterVars, pc, answer, queue, calls, handlers>>

\* The provider answers or fails, within its client's own timeouts.
ProviderReturns(q) ==
    /\ job[q] = "provider"
    /\ job' = [job EXCEPT ![q] = "settle"]
    /\ calls' = [calls EXCEPT ![q] = @ + 1]
    /\ UNCHANGED <<clock, limiterVars, pc, answer, queue, handlers, busy>>

Tick ==
    /\ clock < MaxClock
    /\ clock' = clock + 1
    /\ UNCHANGED <<limiterVars, pc, answer, jobVars, handlers>>

\* What a handler or a job does as soon as it can.
Step(q) ==
    \/ RejectToken(q) \/ Authenticate(q) \/ ReadClock(q) \/ CheckRate(q)
    \/ RejectBody(q) \/ Submit(q) \/ Respond(q)
    \/ TakeConnection(q) \/ EndTransaction(q) \/ ProviderReturns(q)

Next ==
    \/ Tick \/ StartJob
    \/ \E q \in Requests :
         Step(q) \/ Deadline(q) \/ PoolTimeout(q) \/ JobPoolTimeout(q)

Spec == Init /\ [][Next]_vars

\* Threads run, workers take jobs, providers answer in the end and deadlines
\* pass.  The pool's own timeout is not relied upon.
FairSpec ==
    /\ Spec
    /\ WF_vars(StartJob)
    /\ \A q \in Requests : WF_vars(Step(q)) /\ WF_vars(Deadline(q))

-----------------------------------------------------------------------------
\* Types; the connections and the threads in use are within their pools, a
\* handler has one exactly while it is at work, and a queued job is in the
\* queue once.
TypeOK ==
    /\ clock \in 0 .. MaxClock
    /\ \A u \in Users : \A n \in DOMAIN hits[u] : hits[u][n] \in 0 .. clock
    /\ Cardinality(handlers) + Cardinality(busy) <= PoolSize
    /\ handlers = {q \in Requests : pc[q] \notin {"new", "done"}}
    /\ busy \subseteq Running /\ Cardinality(Running) <= Workers
    /\ LET queued == {q \in Requests : job[q] = "queued"}
       IN  {queue[n] : n \in DOMAIN queue} = queued /\ Len(queue) = Cardinality(queued)
    /\ \A q \in Requests : calls[q] \in 0 .. MaxCalls

\* Whatever the order in which stamps are appended, at no time has one user more
\* than Limit requests let through with a stamp in the last Window ticks (check).
RateCap ==
    \A u \in Users :
        Cardinality({q \in passed : /\ UserOf[q] = u
                                    /\ clock - stamp[q] < Window}) <= Limit

\* Handlers that wait for jobs hold the connections that the jobs wait for:
\* all of them come to an end, because the deadline breaks the circle.
EventuallyDone ==
    <>(\A q \in Requests : pc[q] = "done" /\ job[q] \in Ended \cup {"none"})
=============================================================================
