# A formal model of the JS Notebook API

The repository is a FastAPI service over PostgreSQL: passwordless login,
notebooks that are edited offline and merged, a language-model endpoint with
quotas, and a runner for notebook code. This directory holds TLA+ modules that
model it, TLC configurations that check them, and TLAPS proofs. Paths below are
relative to the repository; `PROJECT.json` maps every definition to the lines
it stands for.

## 1. Inventory

| Component | State it keeps | Operations | Interacts with |
|---|---|---|---|
| LLM usage quota (`app/modules/llm/services/usage_service.py`, `repositories/usage_repository.py`) | reservations, counters (four windows per call), an append-only ledger, entitlements | reserve two calls, reserve a repair, start, settle, release, release what is left of a request, change an entitlement | pipeline (calls), reconciliation (shared rows) |
| LLM pipeline (`generation_service.py`) | local variables of a worker thread | guard, generate, validate, repair up to `llm_max_retries` times | provider (network), quota |
| LLM reconciliation (`reconciliation_service.py`, `scripts/reconcile_llm_usage.py`) | a batch of candidates in memory | close reservations that stayed open too long | quota tables |
| LLM endpoint (`llm_controller.py`, `dependencies.py`) | a thread pool of four with its queue | check the caller, the rate and the size, submit, wait at most `llm_request_timeout_seconds`, answer 504 | pipeline, rate limiter, connection pool |
| LLM rate limiter (`rate_limiter.py`) | timestamps per user, in memory, under one lock | check, reset, drop idle users | endpoint |
| LLM providers (`openrouter_client.py`, `bedrock_client.py`) | none | preflight, converse, map errors | network |
| Auth: refresh and logout (`refresh_token_service.py`, `logout_service.py`) | sessions, refresh tokens in families | rotate, detect reuse, revoke a family, log out, check access | cleanup, every authenticated route |
| Auth: one-time codes (`otp_request_service.py`, `otp_verify_service.py`) | codes with attempts and expiry, users | request a code, verify it, create the user and a session | email, refresh tokens |
| Auth: cleanup (`cleanup_service.py`, `scripts/auth_cleanup.py`) | none | delete expired codes, and sessions past retention with their tokens | the same tables |
| Notebooks (`notebook_service.py`, `notebook_merge.py`) | one row per notebook with its cells | create, list, get, patch (merge), soft delete, restore the demo | AI context |
| AI context (`ai_context_service.py`, `summary.py`) | one row per notebook | store (roll up to a budget), get, clear | notebooks |
| Execution (`runner.py`, `execution_service.py`) | a child process, two reader threads, collected output | run, stop at a timeout or an output limit | operating system |
| Core (`app/core`) | database engine and sessions, settings | commit on success, rollback on an exception | all |
| Health, schema migrations, API export | none | read only, or outside the service | database |

What makes each part correct, and what is hard about it:

* **Quota.** Counters, reservations and ledger are three records of the same
  calls, and must agree although reserve, start, provider call and settle are
  separate transactions, a worker may die between any two of them, and
  reconciliation may close a call while its worker is only slow. Limits must
  hold under concurrent requests. A call that may have been billed must never
  be released. Windows roll over while calls are in flight.
* **Endpoint and limiter.** A timed-out request keeps its thread and
  connections; threads and connections are finite. The limiter reads the clock
  outside its lock.
* **Auth.** A token may be rotated once, and reuse of a rotated one must leave
  no usable token of its family. A response is sent before its transaction is
  committed. Rows are locked one statement at a time, so a
  revocation of a family can miss a token being inserted; an attempt counter
  matters only if it survives the failed request.
* **Notebooks.** The merge must be deterministic, must lose no newer cell, and
  must converge when both sides repeat it. Patch, delete and restore read,
  compute and write without a lock.
* **Execution.** The child, the two readers, the output limit and the timeout
  race, and the runner must return in every order.

`PROJECT.json` lists these as hazards at their lines, each with the properties
that cover it or a note why none does.

## 2. Modules and plan

| Module | Models | Section |
|---|---|---|
| `LlmUsage` over `QuotaWindows` and `Tally`; `LlmUsageProofs`, `LlmBudgetProofs` | quota, pipeline, reconciliation | 3 |
| `QuotaBudget` | what the quota promises: the abstract specification that `LlmUsage` implements | 3 |
| `LlmEndpoint`; `LlmEndpointProofs` | endpoint, rate limiter, executor, connection pool | 4 |
| `RowLocks` | transactions and row locks of PostgreSQL, for the five modules that follow | 5 |
| `AuthTokens`; `AuthTokensProofs` | refresh and logout | 5 |
| `TokenFamilies` | what refresh and logout promise: the abstract specification that `AuthTokens` implements | 5 |
| `AuthCleanup`, which extends `AuthTokens`; also in `AuthTokensProofs` | the cleanup job next to them | 6 |
| `AuthOtp`; `AuthOtpProofs` | one-time codes | 7 |
| `OneTimeCodes` | what the codes promise: the abstract specification that `AuthOtp` implements | 7 |
| `NotebookSync` over `NotebookMerge` | notebooks | 8 |
| `AiContext`, which extends `NotebookSync`; `NotebookProofs` | the stored context of a notebook, next to requests on the notebook | 8 |
| `ExecutionRunner`; `ExecutionRunnerProofs` | code execution | 9 |

`MC...` modules hold the instances that TLC checks, `CountingLemmas` the facts about
sums, cardinalities, extreme elements and circles of waiting that several proofs need.

Left to do, most important first: `LlmQuotaLocks`, the quota's transactions at the
granularity of row locks, to justify taking each as one step; `LlmEntitlement`, how
a user's limits follow from tier, override and validity; the mapping of provider
statuses to errors. Every safety and action property that a passing run checks is a
theorem, except `NobodyStuck`, which is about `ENABLED`; what it needs without
`ENABLED` is the theorem `WaitsAreCirclesAlways`. Liveness (`EventuallyClosed`,
`EventuallyDone`, `EventuallyOver`, `EventuallyAnswered`) stays with TLC.

## 3. The quota of the LLM pipeline

### 3.1 How the model corresponds to the code

| Module | Role |
|---|---|
| `LlmUsage` | the state machine |
| `QuotaWindows` | days, months and the counter rows a call belongs to |
| `QuotaBudget` | the abstract budget |
| `Tally` | `Total(S, f)`, the sum of `f` over a finite set |
| `CountingLemmas` | what adding, removing or changing an element does to a total |
| `LlmUsageProofs`, `LlmBudgetProofs` | theorems about `LlmUsage` |
| `MCLlmUsage` | its instances for TLC |

`res`, `ledger` and `counter` are the tables `llm_usage_reservation`,
`llm_usage_event` and `llm_usage_counter`; a reservation is named by its
request and the index of its call (0 guard, 1 generator, 2 and up repairs). `pc`,
`call`, `reading`, `outcome` and `todo` are the local state of the worker that
runs a request, `batch` that of a run of the reconciliation job. `clock`,
`configured` and `limits` are what they read from outside: time, the preflight
of each model role, and the limits a user resolves to.

A transaction is one action. Its first statement is a conditional UPDATE of
either the reservation it closes or the first of four counter rows; the rest of
the rows follow in the order global/day, global/month, user/day, user/month in
every transaction, and all locks are held to the commit. Two transactions that
share a row are therefore serialised at that first claim. What the code reads
*before* it, or in another session, is not protected, and is an action of its
own: `ReadLimits` (the clock and the limits of a reservation), `ReadStale` (the
candidates and their states), `ReadDownstream` (the ids to release). Provider
calls happen between transactions. `Crash` and `ReconcilerCrash` may strike
between any two steps; they also stand for a transaction that fails and is
rolled back, which ends the request in the same way.

| Action | Code |
|---|---|
| `ReadLimits`, `ReserveInitial`, `ReserveRepair` | `reserve_initial_generation`, `reserve_repair_call` |
| `PreflightFails`, `StartCall`, `StartRefused` | `start_call` and, for a refused guard, `_guard_prompt` |
| `ProviderReturns`, `SettleCall` | `provider.converse`, `settle_call`, and where the pipeline goes next |
| `ReadDownstream`, `ReleaseNext`, `FinishRelease` | `release_downstream_reservations`, `release_reservation` |
| `ReadStale`, `ReconcileNext`, `ReconcilerCrash` | `reconcile_stale_reservations` |
| `ChangeLimits`, `Tick`, `Crash` | an operator's entitlement change or its expiry, time, a dead process |

Costs are abstract amounts: `Bounds[c]` is what call `c` may reserve and
`ReportedCosts[c]` what the tokens a provider reports may cost. Cost 0 in an
outcome is a response whose usage is missing or partial, for which the code
keeps the bound.

### 3.2 Properties

* `TypeOK` includes the CHECK constraints of the counter table.
* `CallsAgree`, `CostsAgree`: every column of every window equals what the
  reservations and the ledger say it should be. These are the main results;
  double releases, late settlements and window mix-ups all break them.
* `OneEventPerCall`: the ledger has one row for each closed call that was
  started, whoever closed it.
* `CostCeiling`, `CallLimits`: admission is safe under concurrency. `CostCeiling` depends on `ConservativeBounds`, that no
  call reports more than it reserved.
* `SentIsCharged`: a call at the provider stays charged.
* `DoneHoldsNothing`: every path to the end of a request returns what it holds.
* `ImplementsBudget`: the whole implements `QuotaBudget`, which has a table of
  grants and no counters, ledger, workers or job. There a request's calls are granted
  in one step, if every day and month they fall in stays within the limits *summed
  anew over all grants*; a call that was not sent may be given back, and one that was
  sent counts from then on. The mapping (`Granted`) reads the state, amount and time
  of each grant off its reservation, with the cost of the ledger once it is settled.
  What only the code has is then shown to be harmless: counters that are adjusted and
  never recomputed, limits that are read before the rows are locked, two closers of
  one call, and dead workers.
* `EventuallyClosed`: whatever is left open is closed in the end.

### 3.3 Runs

| Run | Instance | Shows |
|---|---|---|
| `core` | two requests of one user, no repair, one reconciler, three instants over three days and two months | all safety properties but `DoneHoldsNothing`, and the refinement |
| `repair` | one request with two repairs, two overlapping reconcilers with batches of one, limits that change, three instants, fair specification | `DoneHoldsNothing` for every way a request may end, and `EventuallyClosed` |
| `excess` | `core` with a provider that reports a cost of 3 for bounds of 1 and 2 | `CostCeiling` fails |

Two requests are enough for two reservations to meet at a limit (a daily limit
of three calls has room for one request of two), for two releases of one call
to meet, and for a settlement to meet a reconciliation of the same call; a
third adds no new pair. A day of one tick and a month of two make every
request able to cross both boundaries. `StaleAfter = 1` makes a reservation
stale as soon as time passes, so that reconciliation overlaps live workers.
`MaxClock` bounds time; `ReadLimits` begins no reservation too late for the
clock to make it stale. Requests end and the clock stops, so deadlock is not
checked. Symmetry is over requests and over reconcilers; `repair`, which checks
liveness, does not use it. That the counters and limits hold through repairs and
while limits change is shown by the theorems, not by a run.

The `excess` run records a disagreement with
`docs/llm-usage-controls.md:565`, which calls the monthly cost ceiling "a real
bound rather than a post-hoc observation". Settlement adds whatever cost follows
from the reported tokens (`usage_service.py:522-539`), and the bound is computed
from an estimate of two bytes per token. It is a real bound exactly under
`ConservativeBounds`, as `CostCeilingAlways` proves.

**Fairness.** `FairSpec` assumes that time passes (`WF` of `Tick`), that the job
reads its candidates when there are some (`WF` of `ReadStale`), and that a job
that is started again and again gets to process a candidate although runs of it
may die (`SF` of `ReconcileNext`). Scheduling the job is an operational duty in
`docs/llm-usage-controls.md` section 10.1. Nothing is assumed of workers: they
may stop or die anywhere.

### 3.4 Proofs

All theorems hold for any users, requests, repairs, reconcilers, windows,
bounds and limits that satisfy `UsersAssumption` and `ConfigAssumption`
(finitely many requests, positive bounds and costs).

`Invariance` proves `Spec => []IInv`, where `IInv` is the conjunction of

* `TypeInv`, the types. They cannot be proved on their own: that a counter is
  not negative after a release follows only from the agreement below;
* `FreshCalls`: calls a worker has not reached have no reservation, so that an
  insert never overwrites one;
* `Answered`: a worker about to settle has a provider's answer;
* `Agree` (the counters), `OneEventPerCall` and `SentIsCharged`.

`Agree` is carried by lemmas on each kind of database step: moving one
reservation between states changes the cardinality of each counted set by at
most one, and each total by the amount of that reservation (`CountingLemmas`).
`TypeCorrect`, `CallsAgreeAlways`, `CostsAgreeAlways`, `OneEventAlways` and
`SentIsChargedAlways` follow from `IInv`, and `ForwardOnlyAlways`, an action property:
every step moves each reservation along its life cycle (`LegalStep`) or not at all.

`LlmBudgetProofs` adds the limits. `CallLimitsAlways` strengthens `CallLimits`
with the fact that the limits a worker has read are some user's limits.
`CostCeilingAlways` assumes `ConservativeBounds` and strengthens `CostCeiling`
with the facts that every reservation holds one of its call's bounds and every
answer costs at most what its call may report; settling then never raises the
sum of spent and reserved cost.

`DoneHoldsNothingAlways` needs `OpenAccounted`: for each label of a worker, which of
its calls may be reserved or started, and why (it died, it is making the call, or it is
about to release it). A reconciliation may close any of them meanwhile, so the
invariant only bounds what is open; `WorkerOpen` shows it for every step of the worker,
`OthersUntouched` that no other worker's step matters.

`Implementation` proves `Spec => ImplementsBudget`. The counters of the code are
brought together with the sums of the budget in the state *after* a reservation
(`BudgetRowAfter`): by `Agree` there, the call columns are the cardinality of the
counted calls and the cost columns the total over held and settled ones, which is one
total over both (`TotalUnion`). An admitted reservation therefore satisfies the
budget's test (`BudgetAdmits`, `ReserveGrants`), under the limits the worker has read.
The other database steps map to one step of the budget each (`ReleaseSeen`,
`UnknownSeen`, `StartSeen`, `SettleSeen`), all else to stuttering (`StepSeen`).

Model-checked only: `EventuallyClosed` (liveness is out of the prover's reach).

## 4. The endpoint, its rate limiter and its threads

### 4.1 How the model corresponds to the code

`LlmEndpoint` models `POST /llm/generate` around the pipeline. `pc` is the
handler of a request, `job` what the executor does for it; both live on after the
other has ended. `hits` is the limiter's dictionary, `queue` the executor's
queue, `handlers` and `busy` are those who hold a connection of the engine's
pool. The handler takes its connection when the user is looked up
(`get_current_user`) and gives it back with the response, so it holds it while
it waits for the job; a job takes one for each transaction of the quota and none
while the provider is called. Between two transactions the connection goes back:
reserving, starting a call, settling it and each release wait for one of their own
(`Following` says which may come after which).

| Action | Code |
|---|---|
| `RejectToken`, `Authenticate`, `PoolTimeout` | `get_current_user` and `enforce_llm_access`: refused by the token alone, before a connection is asked for, or after the user was looked up; no free connection |
| `ReadClock`, `CheckRate` | `InMemoryRateLimiter.check`: the clock, then the block under the lock |
| `RejectBody`, `Submit` | `enforce_llm_body_size`, and the executor's `submit` |
| `Deadline`, `Respond` | `future.result(timeout)` |
| `StartJob` | a free worker takes the oldest job |
| `TakeConnection`, `JobPoolTimeout`, `EndTransaction`, `ProviderReturns` | the job, of which only its need of connections and its length matter here; `LlmUsage` has the rest |

### 4.2 Properties and runs

* `TypeOK` includes the sizes of both pools.
* `RateCap`: stamps are read before the lock and may be appended out of order,
  while `check` only looks at the head. The cap holds all the same: at no time
  have more than `Limit` requests of one user with a stamp in the last `Window`
  ticks been let through. What the order costs is the opposite error, a request
  refused because an old stamp is hidden behind a newer one.
* `EventuallyDone`: handlers that wait for jobs hold the connections that the
  jobs wait for. Everybody comes to an end because of the deadline.

| Run | Instance | Shows |
|---|---|---|
| `endpoint` | three requests of one user, one of them too large, and one of a user who may not call; one worker, two connections, two requests per window, three instants, fair specification | all three |

Two handlers are enough to use up the pool while their jobs need a connection,
and to put a job in the queue behind another; a third is needed for the limiter
to refuse. One worker stands for `_PIPELINE_EXECUTOR`'s four and two connections
for the pool with its overflow: what matters is that handlers can outnumber
both. Three instants let a stamp leave the window of two ticks. `MaxCalls` bounds
the calls of a job.

**Fairness.** Threads run (`WF` of each `Step`), free workers take jobs (`WF` of
`StartJob`), providers answer or time out in the client, and deadlines pass
(`WF` of `Deadline`). The pool's own timeout (`PoolTimeout`, `JobPoolTimeout`)
may happen and is not relied on.

### 4.3 Proofs

`LlmEndpointProofs` proves `TypeOK` and `RateCap` for any users, requests, workers,
connections, limit, window and clock. The invariant has a part for each resource.

* `LimiterInv`: the list of stamps is not sorted and is only cut at its head, so the
  number of its stamps says nothing about who is still in the window. What is
  inductive is an assignment: every request that was let through and is still in the
  window has a position of its own in the list, which holds its stamp (`Keeps`). A cut
  drops nothing but old stamps (`RecentIsSuffix`), so it keeps the positions of all
  others, shifted (`CutKeeps`); a request let through takes the new last position.
  Since the list never has more than `Limit` stamps, neither has the window more
  requests.
* `JobInv`: a job is in the queue exactly once from `Submit` to `StartJob`, so that
  starting one moves one job and never exceeds the workers.
* `PoolInv`: who holds a connection, and that there are enough.

`EventuallyDone` is liveness and only model-checked.

## 5. Sessions and refresh tokens

### 5.1 How the model corresponds to the code

`AuthTokens` models `POST /auth/refresh` and `POST /auth/logout`. `session` and
`token` are the committed rows of `users.sessions` and `users.refresh_tokens`.
A family has one session and the other way round, so a token's session names
its family, and a token expires with its session
(`refresh_token_service.py:106`). Time stamps are reduced to whether they are
set. `kind`, `presented` and `now` are the inputs of a request, `pc` its next
statement, `answer` what it was answered, and `closed` only records which
sessions were revoked when it began.

Each request has one transaction at READ COMMITTED. An action is one statement
with the computation up to the next one, because the locks are taken one by
one:

| Action | Code |
|---|---|
| `Login` | `verify_otp` from the accepted code on |
| `Begin`, `LockToken` | the clock, and `get_by_hash_for_update` |
| `DetectReuse`, `Refuse`, `Rotate` | the decisions of `refresh`, with the session read without a lock |
| `LogoutFamily`, `LogoutAgain` | the decision of `logout` |
| `ScanFamily`, `RevokeRow` | the UPDATE of `revoke_family`: its snapshot, then row by row |
| `RevokeSession`, `ReportReuse` | the update of the session; for a reuse with the controller's own commit before 401 |
| `Respond`, `CommitRequest` | the response of a route and then the commit of `get_db` |
| `DeadlockVictim`, `Lose` | the database's deadlock detection; a lost process or connection |

What the code relies on the database for is modelled from PostgreSQL's
behaviour, in the module `RowLocks`. `draft[q]` is at once the set of rows `q` has locked and the values
it has written to them. A statement finds its rows among those committed when
it begins, and its own; it then waits for rows that others have locked and looks
at them again once it has them (`AsRevoked`). A row that was inserted but not
committed is therefore neither found by another request nor reached by its
UPDATE. Inserting a token takes only a key-share lock on its session, which
revoking the session does not conflict with. The order in which an UPDATE visits
its rows is not fixed.

`get_db` commits after its `yield`, and FastAPI runs that part of a dependency
after the response was sent (version 0.118 and later; `pyproject.toml` requires
0.136.1). So `Respond` precedes `CommitRequest`, and a request may be lost in
between. A rejection is an exception and rolls back at once.

### 5.2 Properties and runs

* `OneCurrentToken`: a family has at most one current token
  (`docs/auth.md:248`), and an active session never has none. It relates the
  rows that rotations insert, mark and commit to those that revocations touch.
* `NothingAfterClose`: a refresh that begins after its session was revoked is
  not answered with tokens. A revocation can overlook a token that is being
  inserted, so this rests on the check of the session.
* `ReportedIsEnded`: a reported reuse is durable although it is answered with an
  error, and so is a logout that committed.
* `ImplementsFamilies`: the whole implements `TokenFamilies`, which has no rows,
  locks or transactions. There each session has one token that is worth anything,
  its heir. `Exchange` replaces it in one step, at most once per request, unless the
  session had ended when the request arrived; `Close` ends a session, and catches
  its heir or overlooks it. The mapping reads the heir off the rows (the one that is
  not rotated) and the exchanges off the requests that have committed. An
  interleaving that rotates one token twice, leaves a session without a token,
  revives a rotated one, or ends half a family has no step there.

| Run | Instance | Shows |
|---|---|---|
| `auth_tokens` | three refreshes and a logout on one family, with any of its tokens; four tokens, two instants | all of them |

Four requests are one that makes a family of two tokens, two that then meet over
it in any way, and one that presents a token which a revocation has overlooked.
There is one token more than there are refreshes, so that `Fresh` never stops one.
Requests of different families share no row, so there is one session; the theorems
do not need that. A session lives one tick, and the clock moves once, when at most
two requests are left (`LateTick`), so that it may expire before a request or while
it waits. Runs without a logout are among these, since the logout need not begin;
two logouts are in `auth_cleanup`. Requests end, so deadlock in TLC's sense is not
checked. Symmetry is over tokens and requests.

Two more consequences can be read off the model, although no run is spent on
them. A logout and a reuse detection that present different tokens of one family
lock each other's rows; the database aborts one (`DeadlockVictim`), and a logout
that is aborted is not answered with 204. And a process lost between `Respond`
and `CommitRequest` leaves a session active whose logout was confirmed.

That no set of requests waits for ever is checked with the cleanup (section 6),
where a request in a circle is freed the same way: each runs in a thread of its
own, the database serves waiting transactions, and it breaks a circle of them.

### 5.3 Proofs

`AuthTokensProofs` proves all five safety properties for any sessions, tokens,
requests and workloads (`NamesAssumption`, `TimeAssumption`). `IInv` is `LockInv` and
`Answered`. `LockInv` consists of `TypeOK`; facts about the tables (`StoredRows`: rows belong to opened sessions;
`AtMostOne` and `AtLeastOne`: `OneCurrentToken` without cardinalities); and, for
each request, `RequestInv`: what it has locked (`Locks`), that it decides on the
row as it is (`FirstLook`), that a revocation changes rows of its own family and
only by revoking them (`Revocation`), and that an uncommitted rotation replaces a
token which still is current (`Rotation`). `Answered` is what a request's answer stands on.
`LockInv` is inductive without it, and therefore also holds beside a cleanup run
(section 6.3), which deletes the rows that an earlier answer stands on.

The argument is one of separation. `Kept` says that no step moves a row to
another family, undoes a rotation or reopens a session; `UntouchedKeeps` shows
that a request whose locked rows do not change keeps its part of the invariant
under any such step; and one lemma per step shows what it does to the request
that takes it. `RotationCommits` is the heart: the current token was locked since
it was read, so that replacing it leaves exactly one. `RotatedOnceAlways`, that of all
refreshes presenting one token one commits at most, needs a second induction: a
committed rotation has marked its token, and a rotation that is about to commit holds
one that is not marked.

`FamiliesImplementation` proves `Spec => ImplementsFamilies`. The mapping chooses an
heir, so the proof first shows that there is exactly one (`OneHeir`, from `AtMostOne`
and `AtLeastOne` for active sessions and carried by `HeirsStay` for ended ones), and
then maps each step: a login opens a session (`LoginSeen`), the commit of a rotation
exchanges its heir (`RotationSeen`: the token it presented *is* the heir, because it
has been locked and unrotated since it was read), the commit of a revocation closes
the session (`RevocationSeen`: it catches the heir if the UPDATE found it), and all
else arrives or stutters (`LocalSeen`). The logical step of a request is therefore its
commit, not its answer.

## 6. The cleanup job

### 6.1 How the model corresponds to the code

`AuthCleanup` extends `AuthTokens` with a run of `scripts/auth_cleanup.py`. A run
is one transaction of several statements: `FindSessions` reads the sessions past
retention (`get_cleanup_candidate_ids`), `ScanTokens` and `DeleteToken` delete
their tokens (`delete_by_session_ids`), `DeleteSessions` and `CascadeDone` delete
the sessions, whose foreign key deletes what was inserted in between, and
`CommitCleanup` ends it. `revokedAt` is the one column that retention needs and
`AuthTokens` leaves out. `StepBeside` is a step of a request that respects the
rows the run has deleted: it waits for them, and so does one that needs the row
of a session being deleted, to revoke it or to insert a token that refers to it.
`RunVictim` is the database's deadlock detection, `LoseRun` a run that fails. What a run has deleted is locked until
it commits or fails, and then by nobody.

In a circle of a request and the run the model always makes the run the victim.
PostgreSQL aborts whoever notices; a request that is aborted is in the state of
one that is lost, which `Lose` covers.

### 6.2 Properties and runs

* `NoOrphanTokens`: no token is left without its session, although the tokens
  are deleted by an earlier statement than the sessions.
* `ActiveKept`: nothing of an active session is deleted, and no token of one
  (`docs/auth.md:807-810` gives what may be).
* `EventuallyOver`: neither the run nor a request waits for ever, whatever circles
  of locks they form, and none waits for a transaction that was left open: the
  mutant that breaks it is a failed run that is not rolled back.

| Run | Instance | Shows |
|---|---|---|
| `auth_cleanup` | one session, two requests of either kind after a third, a run, four instants, fair specification | all three |

The third request is over when the run begins (`Earlier`): it has rotated the first
token of a family, or found nothing. In the first case the two others find a family
of two tokens, may present one each, and then lock each other's: a circle of requests
alone (`DeadlockVictim`). In the second they are a refresh and a logout of a family
that a login opens; a circle of a request and the run forms in either. The clock needs
four instants: a session lives one
tick, retention is one, and it must then be past both. Symmetry cannot be used
with liveness, so `MCSpec` keeps one of the initial states that differ by names
only.

**Fairness.** `CleanupFairSpec` has weak fairness of the run's steps once it has
begun and of each request's. Nothing is assumed of its start, of arrivals, losses
or time.

### 6.3 Proofs

`AuthTokensProofs` continues with `CleanupSpec`, for any sessions, tokens, requests,
retention and clock. `CleanupInvariance` is `LockInv`, which `BesideKeeps` and
`CommitKeeps` carry over the steps of both, together with `CleanerInv` about the run:

* `DoomedEnded`: the sessions it found without a lock are still revoked or expired;
  none comes back from that (`SessionsMove`).
* `DeletedDoomed`: it touches only tokens of these sessions, and holds them: no
  request has a deleted row in its draft.
* `NothingMissed`: once it holds the sessions, its cascade finds every token of them,
  and no request is about to commit another. This is what the separate deletion of
  tokens cannot give; the commit then leaves no row without its session
  (`StoredRows`), which is `NoOrphanTokensAlways`.

`OneCurrentBesideCleanup` repeats the main result of section 5 next to the run, and
`ActiveKeptAlways` follows because only the commit of the run deletes.
`EventuallyOver` is liveness and only model-checked.

`WaitsAreCirclesAlways` is the part of it that is safety, for any number of requests:
if everything that has not ended waits, some wait in a circle of rows, of requests
alone or with the run, and the database breaks it. It says that no lock
is left without a holder that is under way (`LockersInProgress`), and that whoever is
about to commit waits for nobody (`CommittersGoOn`); so everybody waits for a row that
another holds (`WaitForRows`). `CircleOfHolders` then gives the circle: of the sets
whose members all wait for each other, a smallest one has no member that nobody waits
for. The theorem needs sessions to be finitely many and no tokens
(`CleanupAssumption`). No run lists the invariant; the run's `EventuallyOver` is what
TLC checks of it.

## 7. One-time codes

### 7.1 How the model corresponds to the code

`AuthOtp` models `POST /auth/otp/request` and `POST /auth/otp/verify` for one
address: addresses share no row. `otp` holds its committed rows of `users.otps`,
each named by its code, and `user` its row of `users.users`, named by the
verification that created it. Requests are the transactions of `RowLocks`, as in
section 5; `targets` are the rows a statement has found in its snapshot and not
locked yet, `row` the code a request works on, `entered` the input of a
verification. `mailed`, `failures` and `dead` only record what happened.

| Action | Code |
|---|---|
| `BeginRequest`, `CountRecent` | the clock, and the count against the limit |
| `ScanUnused`, `MarkUsed` | the UPDATE of `mark_active_as_used_for_email`: its snapshot, then row by row |
| `CreateCode`, `MailFails`, `MailSent` | the insert, and `send_otp` with the 503 or the answer |
| `BeginVerify`, `SelectActive`, `LockCode`, `NoActiveCode` | `get_latest_active_by_email_for_update` |
| `FailAttempt`, `Raise` | the attempt that is counted, and the exception that rolls it back |
| `Accept` | `mark_used` |
| `FindUser`, `InsertUser`, `UserExists` | `get_or_create_by_email`, and the unique index on the email |
| `RespondVerified`, `CommitRequest` | session, tokens and answer, then the commit of `get_db` |
| `DeadlockVictim`, `Lose` | as in `AuthTokens` |

`SELECT ... ORDER BY ... LIMIT 1 FOR UPDATE` takes the newest row of its
snapshot, waits for its lock, looks at it again, and goes on to the next one if
it no longer qualifies, still holding the lock. An INSERT of an email that
another transaction has inserted waits for the end of that transaction.

A row expires `Ttl` after it was created, so the newest is the last to expire
and one time stamp is enough. `FailAttempt` has a case for a code that is
exhausted already; as `auth_otp_attempts` shows, no run reaches it.

### 7.2 Properties and runs

* `ConsumedOnce`: a code opens one session, whoever enters it at once.
* `StoredWasMailed`: a code is in the table only if it was mailed
  (`docs/auth.md:323`), and `UsedForAReason`: a code is used up only because it
  was accepted, replaced by one that is stored, or failed too often. A request
  that marks the old codes and then fails must change nothing.
* `FollowsPromise`: every step is a step of `OneTimeCodes` or changes nothing there.
  That module has no transactions, locks or mail: `Issue` adds a code and ends
  all that had been issued when its request arrived, and perhaps later ones; `Redeem`
  takes a code that has not ended and had not expired when its request arrived, and
  the first to do so names the account; each request does one of them at most
  once. The mapping takes codes from the committed rows and the deeds from the
  requests that have committed. Whatever fails on its way has done neither.
* `NobodyStuck`: as long as a request has not ended, some request can take a step,
  whatever circle of codes and users they wait in.
* `WaitsAreCircles`: when all requests wait, some wait in a circle of rows, which the
  database breaks. They never all wait for a lock that was left behind, nor in a
  circle that passes through the unique email.

| Run | Instance | Shows |
|---|---|---|
| `auth_otp` | up to three requests for a code and two verifications, three codes, two instants, one failure and one recent code allowed | all of them |
| `auth_otp_attempts` | one of each | the disagreement below |

Two verifications and two requests are every pair: two verifications of one code,
a verification and the request that supersedes it, two first verifications of a new
user. Two unused codes exist after requests that overlapped, and two verifications
may then meet over them. A third request that counted before those two committed
marks both codes, in either order, and so waits in a circle with a verification
that has passed over one code and wants the other (`DeadlockVictim`). All three
requests from the start are too many interleavings; `ReachedSpec` therefore starts
in one of two states that requests reach from `Init`: one of the three was lost at
once, and the other two may overlap; or two have overlapped the third, which has
counted and not yet scanned. A code lives one tick and the clock moves once, so that
codes may expire before a verification begins or while it waits. There is a code
for each request, so `Fresh` stops none. Symmetry is over codes, requests and
verifications. Requests end, so deadlock in TLC's sense is not checked;
`NobodyStuck` is the form of it that allows for requests that have ended.

`auth_otp_attempts` records a disagreement: `docs/auth.md:204` says that a code is
marked as used after `OTP_MAX_ATTEMPTS` failures. The count is written in the
transaction that the exception of the same failure rolls back, so it is always 0
afterwards. `tests/test_auth_otp_api.py:80` sees the limit work because the test's
session is shared by its requests and is not rolled back.

### 7.3 Proofs

`AuthOtpProofs` proves all that the run checks except `NobodyStuck`, which is about
what can happen next, for any codes, requests, verifications (finitely many, so
that failures can be counted), times, limits and clock (`OtpNamesAssumption`,
`OtpSettingsAssumption`). None of the invariants carries itself over a step: a
commit stores what was decided earlier. `IInv` therefore adds what a request would
commit.

* `SenderInv`: the rows a request has locked are stored codes, marked as used, and
  from its insert on exactly one new code (`Creates`), mailed before the commit.
* `VerifierInv`: a verification that decides works on a code that it holds and
  that is *still* active in the table (`Decides`), and would change nothing but
  that code (`Consumes`); codes dead at its beginning stay dead.
* `Separate`: no row is locked twice. This is what keeps the other two true while
  others commit (`SenderKept`, `VerifierKept`), which change only what they hold.
* `UserInv`: at most one verification is about to insert the user, and none once
  there is one.
* `Counted`: the failures of a code are the verifications that have ended on it.

Every step is then one of three: it commits nothing (`UncommittedStep`, and
`QuietStep` where it neither fails nor finds a user), it is rolled back
(`UndoneStep`), or it commits (`CommitSender`, `CommitVerifier`). `ConsumedOnce`
is decided in the last: the code is active until that commit, whereas one that was
consumed before is marked. `UsedForAReason` is too: a code that a request marks is
replaced, in the same commit, by the one it has mailed. Two more theorems say
of `IInv` what no run needs to repeat: `DeadCodeRefusedAlways`, that a code used,
superseded or expired when a verification began is not accepted by it, and
`OneUserAlways`, that all sessions of an address belong to one user.

`FollowsPromiseAlways` proves that the model starts as `OneTimeCodes` does and takes
only its steps. Only commits change what the mapping sees of the table
(`OnlyCommitsStore`). A verification redeems at its commit: the code it works on is
still active then (`VerifierCommits`, `RedeemSeen`). A request issues at its commit
(`IssueSeen`). That it ends every code stored when it began is not an
invariant of one state; `Supersedes` carries it: until the scan those codes are only
stored, between scan and insert each is used, still to be locked, or marked in the
request's draft, and from then on used or marked. It holds beside other
requests because codes are neither deleted nor made unused (`StepGrows`). The rate
limit and the mail need no counterpart in the promise: they only forbid steps.

`WaitsAreCirclesAlways` is `NobodyStuck` without `ENABLED`, for any number of codes
and requests. A request that waits for the user waits for one that is about to answer
or commit, which does not wait; so if all wait, each waits for a row that another has
locked and not given back (`WaitForRows`), and `CircleOfHolders` finds the circle as in section 6.3.
That a request which does not wait can take its step stays with TLC.

## 8. Notebooks and their contexts

### 8.1 How the model corresponds to the code

`NotebookMerge` is `merge_cells` and `_compute_updated_at` as operators: cells
are a sequence of records, the client's deletions a function from ids to times.
The order of the result (the client's cells, then those it did not know) is kept.

`NotebookSync` models creation, patch, deletion and restoration. No request locks
the row when it reads it, and the row is read twice: `Decide` is the service's
SELECT with its checks (`Verdict`), `Reread` the `db.get` of
`NotebookRepository.save`, which selects again because the first row is no longer
referenced by the session. `Flush` is the UPDATE or INSERT. SQLAlchemy writes
only the columns whose value differs from the one it loaded, so what is stored is
neither the old row nor the new one where another request has committed in
between (`Flushed`). Times are in coarse ticks and a deletion is a Boolean, so
an entity that looks like the row may still have a new `updated_at` or `deleted_at`
and be written: `Retimed` names the columns for which `Flush` lets that happen.
`FlushFails` is an INSERT of an id that was taken, or
`to_response` raising because the saved version is not a valid notebook; both
roll back. `CommitRequest` is `get_db` after the response, `Lose` a lost process.
`overlapped` only records who committed over a row that had changed since it first
read it.

`AiContext` extends it with `PUT`, `GET` and `DELETE` of a notebook's context.
`CheckNotebook` checks existence and owner, `RollUp` makes the history fit the
budget of items and bytes, `ReadContext` and then `StoreContext` or
`ClearContext` read and write the row. The UPDATE of a row that was deleted in
between finds no row and fails (`StoreFails`). The text of a summary is abstracted
to what it is about and any number of bytes within its budget.

### 8.2 Properties and runs

* `StoredIsReadable`: a merge may exceed the number of cells, and a request may
  overlap another; what is stored can be read again.
* `CommittedEditsStand`: as long as no request commits over a row that has changed
  since it first read it, no edit of a *committed* patch is lost. Each cell of the
  patch is stored in its version or a later one, or gave way to the stored version of
  the same time, unless a deletion that is as late was saved. Two things it does not
  say. An answer "ok" is not enough: it is sent before the commit, and `Lose` may
  come in between, as for a logout in 5.2. And of two patches that overlap one may be
  lost with all its cells, also when they edit different ones, because `save` writes
  the whole list; section 10 sets that against `docs/auth.md`.
* `RevivedByRestoreOrOverlap`: what brings a deleted notebook back. Besides a
  restoration it is a save that overlapped the deletion in one order only: a patch that
  read `deleted_at` as null and whose save reads the row after the deletion was
  committed (its entity differs from what save loaded). One whose save has read the
  row before does not. The property bounds this; that it happens at all is against the
  docstring of `DELETE` (section 10).
* `UpdatedIsNear`: clients' clocks cannot push a notebook to the top for good.
* `ContextFits`: the stored context fits a later generation request, with the
  summary that was put before it.
* `ClearedStaysCleared`: a store that overlaps a clear does not bring back what it
  had read.

| Run | Instance | Shows |
|---|---|---|
| `notebooks` | any three of eighteen requests of two users on one notebook that may be absent, stored or deleted, two instants | all of the above |
| `notebooks_created_once` | two creations of one id by two users, and a deletion | the disagreement below |

The eighteen requests have each kind and each verdict, older, newer and equal
times, deletions of cells, and patches that add cells to the limit of three and
beyond. Three requests are one that changes the row between the two readings of
another and a third that is answered on the result; requests on different
notebooks share no row. One of the patches offers a version of a cell with the time of the stored one.
The budgets (two items, three bytes) make a history fit,
be folded, and be refused. Requests end, so deadlock is not checked. Permuted
choices of three requests are left out by construction of `AnyThree`.

`notebooks_created_once` records a disagreement with the docstring at
`notebook_service.py:136-137`, by which an id is inserted and answered as created
once and another owner's creation of it is a 403. `save` finds the row that was
committed since `create` looked, and overwrites it, its owner included.

### 8.3 Proofs

`NotebookProofs` proves every property of the run of `ContextSpec`, for any users, notebooks, requests, cells
and budgets. The assumption on inputs is `InputsAssumption`: the schemas let only
well-typed requests in, and what is stored at first is valid. `IInv` says that
rows are well-formed (`TypeInv`), that no row is locked twice (`Exclusive`), that
a request which goes on to save passed its checks (`Admissible`), and that what it
would commit is exactly its entity over the row that is *now* stored (`Pending`,
`PendingContext`). The last needs `Exclusive`: the row cannot change while the
request holds it (`OtherKept`). Readability then carries over a commit because a
column is either the stored one or the entity's, and the entity passed
`to_response`. Of the two properties about steps, only a commit changes a row,
and `CommitEffect` says to what.

Three of the invariants are about what lists of cells and items contain, and come
with invariants of their own over `IInv`.

* `UpdatedIsNearAlways`: a request's version of a row is computed from rows it has
  read, so these are near as well (`NearInv`).
* `ContextFitsAlways`: `RollUpFits` shows that a roll-up fits whatever it keeps.
  Putting the summary before the kept items adds exactly its bytes (`BytesPrepended`):
  the sum is over positions, all of which move by one.
* `CommittedEditsStandAlways`: `MergeKeepsEdits` says that a merge loses a cell of
  either side only to a deletion that is as late or to a later version, and a client's
  cell to the stored version of the same time.
  That is not enough, because `save` writes the columns that differ from what *it* has
  read and leaves the others to whatever is stored. `EditsInv` therefore says of the
  row a save has read, too, that all its cells stand (`SecondStands`), and that a save
  which locked nothing had nothing to change (`Saving`).

About the merge alone, for any lists: `MergeKeepsEdits`; `MergeKeepsIdsApart`, that
two readable lists never merge into a double id; `MergeIsIdempotent`, that a patch
sent twice changes no cell the second time; and `MergeIsOrderFree`, that two patches
leave the same cells whichever comes first, if they do not edit one cell at one time and
neither deletes what the other edits. Section 10 says why it takes both conditions. They are provable because the model
describes `merge_cells` by what its result holds (`Select`, the elements at a set of
positions in their order) and not by recursion; `SelectPositions` shows that `Select`
lists exactly those positions.

## 9. Code execution

### 9.1 How the model corresponds to the code

`ExecutionRunner` models `POST /execute`. `phase` is the handler: `gate` (the
checks of the endpoint and the service, in their order: `Refuse`), `wait`, `kill`
and `reap` after the deadline, `join`, `done`. `state`, `holds` and `group` are
the operating system's: which processes run, which of the two pipes each has
inherited, and which are in the process group that `setsid` gave the child.
`pipe`, `reader` and `kept` are the pipes and the two threads that drain them
(`_BoundedStreamReader`). A chunk stands for bytes.

| Action | Code |
|---|---|
| `Start`, `StartFails` | `Popen` and the start of the readers; an error of `Popen` that nothing translates, answered as an internal error |
| `Reap`, `Deadline`, `Terminate` | `wait(timeout)`, `TimeoutExpired`, `_terminate_process_group` and the second `wait` |
| `Finish` | the joins, and the status of the outcome |
| `Read`, `EndOfFile` | a reader's loop |
| `WriteTo`, `Spawn`, `Exit` | the program; limits of CPU time and file size end a process |

### 9.2 Properties and runs

* `OutputComplete`: an answered program's output is all it wrote, up to the cap,
  however its end, the deadline and the readers meet.
* `DrainedWhileHeld`: a reader goes on past its cap, so that no process blocks on
  a full pipe.
* `NoOrphans`: nothing of the group survives a timeout, although the program may
  start processes until the signal.
* `EventuallyAnswered`: every request is answered.

| Run | Instance | Shows |
|---|---|---|
| `execution` | a child that may run for ever and two processes it may start, pipes of one chunk, a cap of one, two chunks per stream, fair specification | all of them |
| `execution_endless` | one process that runs for ever and may leave the group | the disagreement below |

Two processes are one in the group and one outside, or one that starts the other.
A stream of two chunks passes the cap and fills the pipe.

`execution_endless` records a disagreement with `runner.py:56`, which promises the
output within `timeout_ms`: a process that has left the group is not killed, its
copy of the pipes stays open, and the reader is joined without a timeout.

**Fairness.** The threads of the service run, the deadline passes, and processes
end by themselves unless they are in `Endless`. The deadline is what answers a
child that is endless.

### 9.3 Proofs

`ExecutionRunnerProofs` proves `TypeOK`, `OutputComplete`, `DrainedWhileHeld` and
`NoOrphans` for any processes, caps and pipes (`RunnerAssumption`). `IInv` says
that what was written and is no longer in the pipe has been kept up to the cap
(`Conserved`), that a reader ends only where the pipe is empty and no process can
write to it again (`Drained`; a process inherits only what its parent holds), that
a status is given only once both have ended (`Ran`), and that a killed group stays
dead (`Killed`: only a running member can add to it).

## 10. Other disagreements

Met while modelling; each can be read off the model, and no run is spent on them.

* `docs/auth.md:253` says that after a reuse every active token of the family is
  marked as revoked. The one that a concurrent refresh has inserted and not
  committed is not (`refresh_token_repository.py:89`). It is harmless, as
  `NothingAfterClose` shows, but an audit by those columns would miss it.
* `docs/auth.md:330` says that a request for a code marks all earlier unused codes
  as used. Not those of a request that has not committed
  (`otp_request_service.py:67`).
* `docs/auth.md:802` gives a limit of codes per window. Requests that overlap pass
  it together, because the count takes no lock (`otp_request_service.py:60`).
* `notebook_merge.py:13-14` says that the server's version of a cell wins at equal
  times, and that this makes the result independent of the order of requests. Of
  two clients' versions with one time the first to be stored wins. Nor is a deletion
  kept: an older edit by another client that comes after it adds the cell again, one
  that came before it is deleted (`notebook_merge.py:80-83`). `MergeIsOrderFree` holds
  exactly beside these two.
* `docs/auth.md:641-649` keeps a cell that only the server has, and `docs/auth.md:671`
  limits what is lost to an edit war within one cell. Of two patches that overlap one
  is lost as a whole, even when they edit different cells: each merges into the list it
  has read (`notebook_service.py:278`), and `save` writes the list
  (`notebook_repository.py:102-123`). Both are answered 200. In the model it is a
  reachable state with `overlapped # {}`, which `CommittedEditsStand` leaves out.
* `notebooks_controller.py:231-232` says that after a `DELETE` all later reads of the id
  answer 404. A patch that found the notebook before the deletion and whose `save` reads
  it after the deletion was committed writes `deleted_at` back to null
  (`notebook_repository.py:179-187`), although the `DELETE` was answered 204.
  `RevivedByRestoreOrOverlap` would not hold without its last disjunct.
* `rate_limiter.py:26-31` says that idle users are dropped in `check`; only
  `gc_idle` drops them, and nothing calls it.
* Summary and items of a stored context are separate columns, so that after two
  stores that overlap the summary may be about other items than those beside it.

## 11. Not modelled

* Prompt building and extraction of code from an answer, and the syntax check of
  a generated program: text handling, abstracted to usable or not.
* The mapping of provider statuses to errors. A timeout of the Bedrock client is
  answered as 502 and one of OpenRouter as 503, which the model does not tell
  apart.
* How a user's limits follow from tier, override and validity dates, and the two
  views of usage, which only read.
* The cleanup of expired codes, one independent DELETE, and the preview of a
  cleanup, which counts.
* Access tokens (signing and verification), hashing, sending mail: library calls
  and I/O. An access token's session is looked up on every request.
* A reader thread of the runner that cannot be started (`runner.py:220-223`): the
  request ends with an internal error while the program goes on, unwatched. It takes an
  exhausted process, in which little else of the model holds either.
* Configuration, error envelopes, logging, health, the API export and the
  migrations, which keep no state that steps of several actors could disturb.
