------------------------------ MODULE LlmUsage ------------------------------
(***************************************************************************)
(* The usage quota of the LLM pipeline: reservations, counters and ledger  *)
(* (app/modules/llm).  A generation request reserves quota for its guard   *)
(* and generator calls, starts, makes and settles each call, reserves a    *)
(* repair call when the generated code is invalid, and returns what it     *)
(* will not use.  A reconciliation job closes what a dead worker left      *)
(* open.  Every database transaction of the code is one action: its first  *)
(* statement claims a reservation row or a counter row with a conditional  *)
(* UPDATE and the others follow in one fixed lock order, so that           *)
(* transactions on the same rows are serialised.  What the code reads      *)
(* BEFORE its transaction locks anything (the clock, the user's limits,    *)
(* the candidates of a reconciliation, the ids to release) is read by an   *)
(* action of its own and may be stale when it is used.                     *)
(***************************************************************************)
EXTENDS QuotaWindows, FiniteSets, Sequences, Tally

CONSTANTS
    Requests,           \* POST /llm/generate requests, each run by one worker
    UserOf,             \* the user who sent each request
    Reconcilers,        \* runs of the reconciliation job that may overlap
    MaxRepairs,         \* settings.llm_max_retries
    Bounds,             \* Bounds[c]: the cost bounds call c may reserve
    ReportedCosts,      \* ReportedCosts[c]: costs its reported tokens may have
    LimitChoices,       \* the [daily, monthly] limits a user may resolve to
    GlobalDailyCalls,   \* settings.llm_global_daily_calls
    MonthlyCostCeiling, \* settings.llm_global_monthly_cost_ceiling_micros
    StaleAfter,         \* settings.llm_reconciliation_stale_seconds, in ticks
    BatchSize           \* settings.llm_reconciliation_batch_size

Guard == 0
Generator == 1
Calls == 0 .. MaxRepairs + 1        \* 2, 3, ... are the repair calls
Reservations == Requests \X Calls

ASSUME UsersAssumption ==
    /\ "global" \notin Users
    /\ UserOf \in [Requests -> Users]
    /\ IsFiniteSet(Requests)

\* Every bound and price is a positive integer (Settings validates them).
ASSUME ConfigAssumption ==
    /\ MaxRepairs \in Nat
    /\ Bounds \in [Calls -> SUBSET (Nat \ {0})]
    /\ ReportedCosts \in [Calls -> SUBSET (Nat \ {0})]
    /\ LimitChoices \subseteq Limits
    /\ LimitChoices # {}
    /\ GlobalDailyCalls \in Nat
    /\ MonthlyCostCeiling \in Nat
    /\ StaleAfter \in Nat \ {0}
    /\ BatchSize \in Nat \ {0}
    /\ TicksPerDay \in Nat \ {0}
    /\ TicksPerMonth \in Nat \ {0}
    /\ MaxClock \in Nat

VARIABLES
    clock,      \* now, in ticks
    configured, \* the model roles whose provider preflight succeeds
    limits,     \* limits[u]: what resolve_user_limits returns for u
    res,        \* users.llm_usage_reservation
    ledger,     \* users.llm_usage_event: ledger[id] lists id's events
    counter,    \* users.llm_usage_counter
    pc,         \* the next step of each request's worker
    call,       \* the call each worker is working on
    reading,    \* the clock and limits read at the start of a reservation
    outcome,    \* the provider's answer, before it is settled
    todo,       \* downstream calls the worker still has to release
    batch       \* the candidates each reconciler has still to process

dbVars == <<res, ledger, counter>>
envVars == <<clock, configured, limits>>
workerVars == <<pc, call, reading, outcome, todo>>
vars == <<clock, configured, limits, res, ledger, counter,
          pc, call, reading, outcome, todo, batch>>

-----------------------------------------------------------------------------
(* Counter rows.                                                            *)

\* The four rows a reservation is counted in.
RowsOf(id) == RowsAt(UserOf[id[1]], res[id].created)

ZeroCounter == [calls_reserved |-> 0, calls_settled |-> 0,
                cost_reserved |-> 0, cost |-> 0]

\* Mutants of Admits: the cost held by unfinished calls is forgotten, ...
AdmitsSpentOnly(row, calls, cost, lim) ==
    /\ row[1] = "global" /\ row[2][1] = "day"
         => counter[row].calls_reserved + calls <= GlobalDailyCalls
    /\ row[1] = "global" /\ row[2][1] = "month"
         => counter[row].cost + cost <= MonthlyCostCeiling
    /\ row[1] # "global" /\ row[2][1] = "day"
         => counter[row].calls_reserved + calls <= lim.daily
    /\ row[1] # "global" /\ row[2][1] = "month"
         => counter[row].calls_reserved + calls <= lim.monthly
\* ... or the limits are compared with what is used without the new calls.
AdmitsIfBelow(row, calls, cost, lim) ==
    /\ row[1] = "global" /\ row[2][1] = "day"
         => counter[row].calls_reserved <= GlobalDailyCalls
    /\ row[1] = "global" /\ row[2][1] = "month"
         => counter[row].cost + counter[row].cost_reserved + cost
              <= MonthlyCostCeiling
    /\ row[1] # "global" /\ row[2][1] = "day"
         => counter[row].calls_reserved <= lim.daily
    /\ row[1] # "global" /\ row[2][1] = "month"
         => counter[row].calls_reserved <= lim.monthly

\* reserve_quota's WHERE clause.  A row that does not exist yet counts as one
\* of zeros: its INSERT branch checks the same limits against the new amount.
Admits(row, calls, cost, lim) ==
    /\ row[1] = "global" /\ row[2][1] = "day"
         => counter[row].calls_reserved + calls <= GlobalDailyCalls
    /\ row[1] = "global" /\ row[2][1] = "month"
         => counter[row].cost + counter[row].cost_reserved + cost
              <= MonthlyCostCeiling
    /\ row[1] # "global" /\ row[2][1] = "day"
         => counter[row].calls_reserved + calls <= lim.daily
    /\ row[1] # "global" /\ row[2][1] = "month"
         => counter[row].calls_reserved + calls <= lim.monthly

\* The UPDATE of a set of counter rows, by the change of each column.
AddToRows(rows, calls, settled, held, cost) ==
    counter' = [row \in Rows |->
        IF row \in rows
        THEN [calls_reserved |-> counter[row].calls_reserved + calls,
              calls_settled |-> counter[row].calls_settled + settled,
              cost_reserved |-> counter[row].cost_reserved + held,
              cost |-> counter[row].cost + cost]
        ELSE counter[row]]

\* Mutant of ReleaseQuota: the cost is returned, the call is not.
ReleaseCostOnly(rows, bound) == AddToRows(rows, 0, 0, -bound, 0)

ReserveQuota(rows, calls, cost) == AddToRows(rows, calls, 0, cost, 0)
SettleQuota(rows, bound, settled) == AddToRows(rows, 0, 1, -bound, settled)
ReleaseQuota(rows, bound) == AddToRows(rows, -1, 0, -bound, 0)

-----------------------------------------------------------------------------
(* Reservation rows.  "none" is a row that was never inserted.              *)

States == {"none", "reserved", "started", "settled", "released", "unknown"}
NoReservation == [state |-> "none", bound |-> 0, created |-> 0]
Reserved(b, t) == [state |-> "reserved", bound |-> b, created |-> t]

Open == {"reserved", "started"}
\* States in which a call counts against its windows' call limits.
Charged == {"reserved", "started", "settled", "unknown"}
\* States in which its bound, not a settled cost, is held against them.
Held == {"reserved", "started", "unknown"}

\* Mutants of ReleaseReservation: the quota is returned without claiming the
\* reservation, ...
ReleaseUnclaimed(id) ==
    /\ res[id].state # "none"
    /\ res' = [res EXCEPT ![id].state = "released"]
    /\ ReleaseQuota(RowsOf(id), res[id].bound)
    /\ UNCHANGED ledger
\* ... or a started call is released like a reserved one.
ReleaseOpen(id) ==
    \/ /\ res[id].state \in Open
       /\ res' = [res EXCEPT ![id].state = "released"]
       /\ ReleaseQuota(RowsOf(id), res[id].bound)
       /\ UNCHANGED ledger
    \/ res[id].state \notin Open /\ UNCHANGED dbVars

\* The claim that makes concurrent releases of one reservation harmless: only
\* the transaction that moves it out of "reserved" returns its quota.
ReleaseReservation(id) ==
    \/ /\ res[id].state = "reserved"
       /\ res' = [res EXCEPT ![id].state = "released"]
       /\ ReleaseQuota(RowsOf(id), res[id].bound)
       /\ UNCHANGED ledger
    \/ /\ res[id].state # "reserved"
       /\ UNCHANGED dbVars

-----------------------------------------------------------------------------
NoReading == [now |-> 0, daily |-> 0, monthly |-> 0]
NoOutcome == [status |-> "none", cost |-> 0]

Init ==
    /\ clock = 0
    /\ configured \in SUBSET {"guard", "generator"}
    /\ limits \in [Users -> LimitChoices]
    /\ res = [id \in Reservations |-> NoReservation]
    /\ ledger = [id \in Reservations |-> <<>>]
    /\ counter = [row \in Rows |-> ZeroCounter]
    /\ pc = [q \in Requests |-> "idle"]
    /\ call = [q \in Requests |-> Guard]
    /\ reading = [q \in Requests |-> NoReading]
    /\ outcome = [q \in Requests |-> NoOutcome]
    /\ todo = [q \in Requests |-> {}]
    /\ batch = [r \in Reconcilers |-> {}]

Goto(q, label) == pc' = [pc EXCEPT ![q] = label]

-----------------------------------------------------------------------------
(* The worker: GenerationService.generate, one transaction or provider call *)
(* per action.                                                              *)

Role(c) == IF c = Guard THEN "guard" ELSE "generator"

\* The start of reserve_initial_generation and of reserve_repair_call: the
\* clock and the user's limits are read before any counter row is locked.
\* Bound: no reservation is begun too late for the clock to make it stale.
ReadLimits(q) ==
    /\ clock + StaleAfter <= MaxClock
    /\ \/ pc[q] = "idle" /\ Goto(q, "reserve")
       \/ pc[q] = "repair" /\ Goto(q, "reserveRepair")
    /\ reading' = [reading EXCEPT ![q] =
                     [now |-> clock,
                      daily |-> limits[UserOf[q]].daily,
                      monthly |-> limits[UserOf[q]].monthly]]
    /\ UNCHANGED <<envVars, dbVars, call, outcome, todo, batch>>

\* reserve_initial_generation: all four rows admit both calls, or nothing is
\* written and the request ends with LlmQuotaExceededError.
ReserveInitial(q) ==
    /\ pc[q] = "reserve"
    /\ \E guard \in Bounds[Guard], generator \in Bounds[Generator] :
         LET rows == RowsAt(UserOf[q], reading[q].now)
             cost == guard + generator
         IN \/ /\ \A row \in rows : Admits(row, 2, cost, reading[q])
               /\ ReserveQuota(rows, 2, cost)
               /\ res' = [res EXCEPT
                     ![<<q, Guard>>] = Reserved(guard, reading[q].now),
                     ![<<q, Generator>>] = Reserved(generator, reading[q].now)]
               /\ Goto(q, "start")
            \/ /\ \E row \in rows : ~Admits(row, 2, cost, reading[q])
               /\ Goto(q, "done")
               /\ UNCHANGED <<res, counter>>
    /\ reading' = [reading EXCEPT ![q] = NoReading]
    /\ UNCHANGED <<envVars, ledger, call, outcome, todo, batch>>

\* reserve_repair_call: the same for the one call after the current one; a
\* refusal ends the request with CodeValidationError.
ReserveRepair(q) ==
    /\ pc[q] = "reserveRepair"
    /\ \E c \in Calls :
         /\ c = call[q] + 1
         /\ \E bound \in Bounds[c] :
              LET rows == RowsAt(UserOf[q], reading[q].now)
              IN \/ /\ \A row \in rows : Admits(row, 1, bound, reading[q])
                    /\ ReserveQuota(rows, 1, bound)
                    /\ res' = [res EXCEPT
                                ![<<q, c>>] = Reserved(bound, reading[q].now)]
                    /\ call' = [call EXCEPT ![q] = c]
                    /\ Goto(q, "start")
                 \/ /\ \E row \in rows : ~Admits(row, 1, bound, reading[q])
                    /\ Goto(q, "done")
                    /\ UNCHANGED <<res, counter, call>>
    /\ reading' = [reading EXCEPT ![q] = NoReading]
    /\ UNCHANGED <<envVars, ledger, outcome, todo, batch>>

\* start_call when the provider's preflight refuses: the reservation is
\* released, and a refused guard also releases the generator's.
PreflightFails(q) ==
    /\ pc[q] = "start"
    /\ Role(call[q]) \notin configured
    /\ ReleaseReservation(<<q, call[q]>>)
    /\ IF call[q] = Guard
       THEN todo' = [todo EXCEPT ![q] = {Generator}] /\ Goto(q, "release")
       ELSE Goto(q, "done") /\ UNCHANGED todo
    /\ UNCHANGED <<envVars, call, reading, outcome, batch>>

\* start_call: reserved -> started, committed before the provider is called.
StartCall(q) ==
    /\ pc[q] = "start"
    /\ Role(call[q]) \in configured
    /\ res[<<q, call[q]>>].state = "reserved"
    /\ res' = [res EXCEPT ![<<q, call[q]>>].state = "started"]
    /\ Goto(q, "call")
    /\ UNCHANGED <<envVars, ledger, counter, call, reading, outcome, todo, batch>>

\* start_call when the reservation was closed meanwhile: the request ends with
\* an internal error that no handler of the pipeline cleans up after.
StartRefused(q) ==
    /\ pc[q] = "start"
    /\ Role(call[q]) \in configured
    /\ res[<<q, call[q]>>].state # "reserved"
    /\ Goto(q, "aborted")
    /\ UNCHANGED <<envVars, dbVars, call, reading, outcome, todo, batch>>

\* provider.converse returns or raises.  Cost 0 is a response whose usage data
\* is missing or partial.
ProviderReturns(q) ==
    /\ pc[q] = "call"
    /\ \E status \in {"ok", "provider_error", "timeout"},
          cost \in ReportedCosts[call[q]] \cup {0} :
         /\ status # "ok" => cost = 0
         /\ outcome' = [outcome EXCEPT ![q] = [status |-> status, cost |-> cost]]
    /\ Goto(q, "settle")
    /\ UNCHANGED <<envVars, dbVars, call, reading, todo, batch>>

\* settle_call's transaction.  The bound is kept unless usage was reported, and
\* a reservation that is no longer "started" is left alone.
SettledCost(id, o) ==
    IF o.status = "ok" /\ o.cost > 0 THEN o.cost ELSE res[id].bound

\* Mutants of SettleReservation: the counters of the current window are
\* settled, ...
SettleInCurrentWindow(id, o) ==
    \/ /\ res[id].state = "started"
       /\ res' = [res EXCEPT ![id].state = "settled"]
       /\ ledger' = [ledger EXCEPT ![id] =
                       Append(@, [status |-> o.status,
                                  cost |-> SettledCost(id, o)])]
       /\ SettleQuota(RowsAt(UserOf[id[1]], clock), res[id].bound,
                      SettledCost(id, o))
    \/ res[id].state # "started" /\ UNCHANGED dbVars
\* ... or a settlement that comes after the reconciliation still counts.
SettleUnclaimed(id, o) ==
    /\ res' = [res EXCEPT ![id].state = "settled"]
    /\ ledger' = [ledger EXCEPT ![id] =
                    Append(@, [status |-> o.status, cost |-> SettledCost(id, o)])]
    /\ SettleQuota(RowsOf(id), res[id].bound, SettledCost(id, o))

SettleReservation(id, o) ==
    \/ /\ res[id].state = "started"
       /\ res' = [res EXCEPT ![id].state = "settled"]
       /\ ledger' = [ledger EXCEPT ![id] =
                       Append(@, [status |-> o.status,
                                  cost |-> SettledCost(id, o)])]
       /\ SettleQuota(RowsOf(id), res[id].bound, SettledCost(id, o))
    \/ /\ res[id].state # "started"
       /\ UNCHANGED dbVars

\* Mutant of AfterSettle: a failed or unsafe guard ends the request at once.
AfterSettleAtOnce(q, c, status, usable) ==
    \/ /\ c = Guard /\ status = "ok" /\ usable
       /\ Goto(q, "start")
       /\ call' = [call EXCEPT ![q] = Generator]
    \/ /\ c # Guard /\ status = "ok" /\ ~usable /\ c <= MaxRepairs
       /\ Goto(q, "repair")
       /\ UNCHANGED call
    \/ /\ IF c = Guard THEN ~(status = "ok" /\ usable)
                        ELSE ~(status = "ok" /\ ~usable /\ c <= MaxRepairs)
       /\ Goto(q, "done")
       /\ UNCHANGED call

\* Where the pipeline goes once call c is settled: usable says that the guard
\* found the prompt safe, or that the code is valid or the answer is text.
AfterSettle(q, c, status, usable) ==
    \/ /\ c = Guard /\ status = "ok" /\ usable
       /\ Goto(q, "start")
       /\ call' = [call EXCEPT ![q] = Generator]
    \/ /\ c = Guard /\ ~(status = "ok" /\ usable)
       /\ Goto(q, "downstream")
       /\ UNCHANGED call
    \/ /\ c # Guard /\ status = "ok" /\ ~usable /\ c <= MaxRepairs
       /\ Goto(q, "repair")
       /\ UNCHANGED call
    \/ /\ c # Guard /\ ~(status = "ok" /\ ~usable /\ c <= MaxRepairs)
       /\ Goto(q, "done")
       /\ UNCHANGED call

SettleCall(q) ==
    /\ pc[q] = "settle"
    /\ SettleReservation(<<q, call[q]>>, outcome[q])
    /\ \E usable \in BOOLEAN :
         AfterSettle(q, call[q], outcome[q].status, usable)
    /\ outcome' = [outcome EXCEPT ![q] = NoOutcome]
    /\ UNCHANGED <<envVars, reading, todo, batch>>

\* release_downstream_reservations reads the ids that are still reserved, ...
ReadDownstream(q) ==
    /\ pc[q] = "downstream"
    /\ todo' = [todo EXCEPT ![q] =
                  {c \in Calls : res[<<q, c>>].state = "reserved"}]
    /\ Goto(q, "release")
    /\ UNCHANGED <<envVars, dbVars, call, reading, outcome, batch>>

\* ... and releases each in a transaction of its own, then the request fails.
ReleaseNext(q) ==
    /\ pc[q] = "release"
    /\ \E c \in todo[q] :
         /\ ReleaseReservation(<<q, c>>)
         /\ todo' = [todo EXCEPT ![q] = @ \ {c}]
    /\ UNCHANGED <<envVars, pc, call, reading, outcome, batch>>

FinishRelease(q) ==
    /\ pc[q] = "release"
    /\ todo[q] = {}
    /\ Goto(q, "done")
    /\ UNCHANGED <<envVars, dbVars, call, reading, outcome, todo, batch>>

\* The worker's process dies, or a transaction of its fails and is rolled
\* back: whatever was not committed is lost and nobody resumes the request.
Crash(q) ==
    /\ pc[q] \notin {"idle", "done", "aborted", "dead"}
    /\ Goto(q, "dead")
    /\ reading' = [reading EXCEPT ![q] = NoReading]
    /\ outcome' = [outcome EXCEPT ![q] = NoOutcome]
    /\ todo' = [todo EXCEPT ![q] = {}]
    /\ UNCHANGED <<envVars, dbVars, call, batch>>

-----------------------------------------------------------------------------
(* Reconciliation: LlmReconciliationService.reconcile_stale_reservations.   *)

\* Mutant of Stale: started calls are not looked for.
StaleReserved == {id \in Reservations :
                    /\ res[id].state = "reserved"
                    /\ res[id].created <= clock - StaleAfter}

\* get_stale_reservations: every open reservation created at the cutoff or
\* before it.
Stale == {id \in Reservations :
            /\ res[id].state \in Open
            /\ res[id].created <= clock - StaleAfter}

\* One read of the candidates, with the state each is in: the oldest
\* BatchSize of them.  No lock is kept on them.
ReadStale(r) ==
    /\ batch[r] = {}
    /\ Stale # {}
    /\ \E S \in SUBSET Stale :
         /\ Cardinality(S) = IF Cardinality(Stale) <= BatchSize
                             THEN Cardinality(Stale) ELSE BatchSize
         /\ \A id \in S, other \in Stale \ S :
              res[id].created <= res[other].created
         /\ batch' = [batch EXCEPT ![r] = {<<id, res[id].state>> : id \in S}]
    /\ UNCHANGED <<envVars, dbVars, workerVars>>

\* Mutant of MarkUnknown: the state that was read is trusted.
MarkUnknownStale(id) ==
    /\ res' = [res EXCEPT ![id].state = "unknown"]
    /\ ledger' = [ledger EXCEPT ![id] =
                    Append(@, [status |-> "unknown", cost |-> res[id].bound])]
    /\ UNCHANGED counter

\* started -> unknown with its ledger row; the counters keep the bound.
MarkUnknown(id) ==
    \/ /\ res[id].state = "started"
       /\ res' = [res EXCEPT ![id].state = "unknown"]
       /\ ledger' = [ledger EXCEPT ![id] =
                       Append(@, [status |-> "unknown", cost |-> res[id].bound])]
       /\ UNCHANGED counter
    \/ /\ res[id].state # "started"
       /\ UNCHANGED dbVars

\* The transaction of one candidate, chosen by the state that was READ.
ReconcileNext(r) ==
    /\ \E entry \in batch[r] :
         /\ \A other \in batch[r] : res[entry[1]].created <= res[other[1]].created
         /\ \/ entry[2] = "reserved" /\ ReleaseReservation(entry[1])
            \/ entry[2] = "started" /\ MarkUnknown(entry[1])
         /\ batch' = [batch EXCEPT ![r] = @ \ {entry}]
    /\ UNCHANGED <<envVars, workerVars>>

\* A run of the job dies between two candidates; the next run reads again.
ReconcilerCrash(r) ==
    /\ batch[r] # {}
    /\ batch' = [batch EXCEPT ![r] = {}]
    /\ UNCHANGED <<envVars, dbVars, workerVars>>

-----------------------------------------------------------------------------
Tick ==
    /\ clock < MaxClock
    /\ clock' = clock + 1
    /\ UNCHANGED <<configured, limits, dbVars, workerVars, batch>>

\* upsert_entitlement by an operator, or an entitlement passing valid_until.
ChangeLimits(u) ==
    /\ \E lim \in LimitChoices \ {limits[u]} :
         limits' = [limits EXCEPT ![u] = lim]
    /\ UNCHANGED <<clock, configured, dbVars, workerVars, batch>>

Worker(q) ==
    \/ ReadLimits(q) \/ ReserveInitial(q) \/ ReserveRepair(q)
    \/ PreflightFails(q) \/ StartCall(q) \/ StartRefused(q)
    \/ ProviderReturns(q) \/ SettleCall(q)
    \/ ReadDownstream(q) \/ ReleaseNext(q) \/ FinishRelease(q)

Reconciler(r) == ReadStale(r) \/ ReconcileNext(r)

Next ==
    \/ \E q \in Requests : Worker(q) \/ Crash(q)
    \/ \E r \in Reconcilers : Reconciler(r) \/ ReconcilerCrash(r)
    \/ Tick
    \/ \E u \in Users : ChangeLimits(u)

Spec == Init /\ [][Next]_vars

\* Time passes and the job is scheduled again and again; some of its runs
\* survive long enough to commit.  Nothing is assumed of the workers.
Fairness ==
    /\ WF_vars(Tick)
    /\ \A r \in Reconcilers : WF_vars(ReadStale(r)) /\ SF_vars(ReconcileNext(r))

FairSpec == Spec /\ Fairness

-----------------------------------------------------------------------------
(* Properties.                                                              *)

Labels == {"idle", "reserve", "start", "call", "settle", "downstream",
           "release", "repair", "reserveRepair", "done", "aborted", "dead"}
CounterRecord == [calls_reserved : Nat, calls_settled : Nat,
                  cost_reserved : Nat, cost : Nat]
ReservationRecord == [state : States, bound : Nat, created : Instants]
Event == [status : {"ok", "provider_error", "timeout", "unknown"}, cost : Nat]
Reading == [now : Instants, daily : Nat, monthly : Nat]
Outcome == [status : {"none", "ok", "provider_error", "timeout"}, cost : Nat]

\* Every variable has its type.  For the counters this is the CHECK constraint
\* of the table: a release or settlement that gave back more than was reserved
\* would make a column negative and fail its transaction.
TypeOK ==
    /\ clock \in Instants
    /\ configured \in SUBSET {"guard", "generator"}
    /\ limits \in [Users -> LimitChoices]
    /\ res \in [Reservations -> ReservationRecord]
    /\ ledger \in [Reservations -> Seq(Event)]
    /\ counter \in [Rows -> CounterRecord]
    /\ pc \in [Requests -> Labels]
    /\ call \in [Requests -> Calls]
    /\ reading \in [Requests -> Reading]
    /\ outcome \in [Requests -> Outcome]
    /\ todo \in [Requests -> SUBSET Calls]
    /\ batch \in [Reconcilers -> SUBSET (Reservations \X Open)]

\* The reservations of table r, in one of the given states, that a counter
\* row counts.
Counted(r, row, states) ==
    {id \in Reservations : /\ r[id].state \in states
                           /\ row \in RowsAt(UserOf[id[1]], r[id].created)}
InRow(row, states) == Counted(res, row, states)

\* What each reservation holds, and what the ledger charges for it.
BoundOf == [id \in Reservations |-> res[id].bound]
ChargeOf == [id \in Reservations |->
                IF ledger[id] = <<>> THEN 0 ELSE ledger[id][1].cost]

\* A row's call columns are exactly the calls recorded in its window: those
\* charged and not returned, and those settled.  A retried settle, two
\* releases of one reservation or a release racing a start would drift them.
CallsAgree ==
    \A row \in Rows :
        /\ counter[row].calls_reserved = Cardinality(InRow(row, Charged))
        /\ counter[row].calls_settled = Cardinality(InRow(row, {"settled"}))

\* A row's cost columns are exactly the bounds held by its unfinished and
\* unresolved calls and the costs the ledger shows for its settled ones, even
\* when the call is settled in a later window than it was reserved in.
CostsAgree ==
    \A row \in Rows :
        /\ counter[row].cost_reserved = Total(InRow(row, Held), BoundOf)
        /\ counter[row].cost = Total(InRow(row, {"settled"}), ChargeOf)

\* Every call that was closed after it was started has exactly one ledger row,
\* whoever closed it, and no other call has any: a settlement and a
\* reconciliation of the same call never both write theirs.
OneEventPerCall ==
    \A id \in Reservations :
        /\ res[id].state = "settled" =>
             Len(ledger[id]) = 1 /\ ledger[id][1].status # "unknown"
        /\ res[id].state = "unknown" =>
             Len(ledger[id]) = 1 /\ ledger[id][1].status = "unknown"
        /\ res[id].state \notin {"settled", "unknown"} => ledger[id] = <<>>

\* What a call may be reported to cost never exceeds what it may reserve.
ConservativeBounds ==
    \A c \in Calls : \A cost \in ReportedCosts[c], bound \in Bounds[c] :
        cost <= bound

\* docs/llm-usage-controls.md:565: the monthly cost ceiling "is a real bound
\* rather than a post-hoc observation".  Spent and reserved cost of a month
\* together never pass it, although settlement never re-checks it.
CostCeiling ==
    \A row \in Rows :
        row[1] = "global" /\ row[2][1] = "month" =>
            counter[row].cost + counter[row].cost_reserved <= MonthlyCostCeiling

\* No day admits more provider calls than the global limit, and no user more
\* than the most generous limit an entitlement ever gave: concurrent requests
\* cannot jointly overrun what each was admitted under.
CallLimits ==
    \A row \in Rows :
        /\ row[1] = "global" /\ row[2][1] = "day" =>
             counter[row].calls_reserved <= GlobalDailyCalls
        /\ row[1] # "global" =>
             \E lim \in LimitChoices :
                counter[row].calls_reserved <=
                    IF row[2][1] = "day" THEN lim.daily ELSE lim.monthly

\* While a worker talks to the provider, and until it settles, its call is
\* charged: no reconciliation can return the quota of a call that may be billed.
SentIsCharged ==
    \A q \in Requests :
        pc[q] \in {"call", "settle"} =>
            res[<<q, call[q]>>].state \in {"started", "unknown"}

\* A request whose worker ran to an end, successful or not, has left no quota
\* reserved for calls it will not make; only a dead worker or an aborted start
\* leaves that to reconciliation.
DoneHoldsNothing ==
    \A q \in Requests, c \in Calls :
        pc[q] = "done" => res[<<q, c>>].state \notin Open

\* What the reservations and the ledger say of each call: it counts at its
\* bound until it is settled, and then at what the ledger charges for it.
Costs == UNION {Bounds[c] \cup ReportedCosts[c] : c \in Calls}
Granted ==
    [id \in Reservations |->
        [state |-> res[id].state,
         amount |-> IF res[id].state = "settled" THEN ChargeOf[id]
                                                 ELSE res[id].bound,
         at |-> res[id].created]]
Budget == INSTANCE QuotaBudget WITH grant <- Granted

\* Four counter rows that each transaction locks one by one, limits read
\* before any of them is locked, workers that die and a job that closes what
\* they left: together they grant, return and charge calls exactly as if each
\* request's calls were checked in one step against sums over all calls.
ImplementsBudget == Budget!Spec

\* A reservation abandoned by its worker in any state is closed in the end, as
\* long as the reconciliation job keeps running.
EventuallyClosed ==
    \A id \in Reservations :
        res[id].state \in Open ~> res[id].state \notin Open \cup {"none"}
=============================================================================
