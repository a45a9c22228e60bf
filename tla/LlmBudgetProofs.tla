--------------------------- MODULE LlmBudgetProofs ---------------------------
(***************************************************************************)
(* The budgets hold for any number of concurrent requests: no day has more *)
(* calls than the limits admit, and, if no call costs more than it can     *)
(* reserve, no month costs more than its ceiling; and a request that ended *)
(* holds nothing of them.                                                  *)
(***************************************************************************)
EXTENDS LlmUsageProofs

\* The limits a worker will use are limits somebody gave its user.
LimitsRead ==
    \A q \in Requests :
        pc[q] \in {"reserve", "reserveRepair"} =>
            \E lim \in LimitChoices :
                reading[q].daily = lim.daily /\ reading[q].monthly = lim.monthly

\* Prices travel with the call: a bound is written once, when the row is
\* inserted, and an answer is settled by the call it was received for.
PricedRows ==
    \A id \in Reservations :
        res[id].state # "none" => res[id].bound \in Bounds[id[2]]
PricedAnswers ==
    \A q \in Requests :
        pc[q] = "settle" => outcome[q].cost \in ReportedCosts[call[q]] \cup {0}
Priced == PricedRows /\ PricedAnswers

-----------------------------------------------------------------------------
(* Call limits.                                                             *)

\* Every counter change but a reservation leaves the calls of a row as they
\* are or returns one.
CallsNotRaised ==
    \A row \in Rows : counter'[row].calls_reserved <= counter[row].calls_reserved

LEMMA ReleaseNotRaised ==
    ASSUME TypeInv, NEW id \in Reservations, ReleaseReservation(id)
    PROVE  CallsNotRaised
<1> SUFFICES ASSUME NEW row \in Rows
             PROVE  counter'[row].calls_reserved <= counter[row].calls_reserved
  BY DEF CallsNotRaised
<1>1. counter[row].calls_reserved \in Int
  BY DEF TypeInv, IntCounter
<1>2. CASE AddToRows(RowsOf(id), -1, 0, -res[id].bound, 0)
  <2>1. \/ counter'[row] = counter[row]
        \/ counter'[row].calls_reserved = counter[row].calls_reserved + (-1)
    BY <1>2 DEF AddToRows
  <2>2. QED
    BY <1>1, <2>1
<1>3. CASE counter' = counter
  BY <1>1, <1>3
<1>4. QED
  BY <1>2, <1>3 DEF ReleaseReservation, ReleaseQuota, dbVars

LEMMA SettleNotRaised ==
    ASSUME TypeInv, NEW id \in Reservations, NEW o, SettleReservation(id, o)
    PROVE  CallsNotRaised
<1> SUFFICES ASSUME NEW row \in Rows
             PROVE  counter'[row].calls_reserved <= counter[row].calls_reserved
  BY DEF CallsNotRaised
<1>1. counter[row].calls_reserved \in Int
  BY DEF TypeInv, IntCounter
<1>2. CASE AddToRows(RowsOf(id), 0, 1, -res[id].bound, SettledCost(id, o))
  <2>1. \/ counter'[row] = counter[row]
        \/ counter'[row].calls_reserved = counter[row].calls_reserved + 0
    BY <1>2 DEF AddToRows
  <2>2. QED
    BY <1>1, <2>1
<1>3. CASE counter' = counter
  BY <1>1, <1>3
<1>4. QED
  BY <1>2, <1>3 DEF SettleReservation, SettleQuota, dbVars

LEMMA SameNotRaised ==
    ASSUME TypeInv, counter' = counter
    PROVE  CallsNotRaised
<1>1. \A row \in Rows : counter[row].calls_reserved \in Int
  BY DEF TypeInv, IntCounter
<1>2. QED
  BY <1>1 DEF CallsNotRaised

\* What the limits admitted, the rows do not exceed afterwards.
LEMMA AdmittedLimits ==
    ASSUME TypeInv, CallLimits, NEW rows, NEW n \in Nat, NEW cost,
           AddToRows(rows, n, 0, cost, 0),
           NEW q \in Requests, NEW lim \in LimitChoices,
           reading[q].daily = lim.daily, reading[q].monthly = lim.monthly,
           \A row \in rows : Admits(row, n, cost, reading[q])
    PROVE  CallLimits'
<1> SUFFICES ASSUME NEW row \in Rows
             PROVE  /\ row[1] = "global" /\ row[2][1] = "day" =>
                         counter'[row].calls_reserved <= GlobalDailyCalls
                    /\ row[1] # "global" =>
                         \E l \in LimitChoices :
                            counter'[row].calls_reserved <=
                               IF row[2][1] = "day" THEN l.daily ELSE l.monthly
  BY DEF CallLimits
<1>1. row[2][1] \in {"day", "month"}
  BY DEF Rows, Windows, DayStart, MonthStart
<1>2. CASE row \in rows
  <2>1. counter'[row].calls_reserved = counter[row].calls_reserved + n
    BY <1>2, RowUpdate
  <2>2. Admits(row, n, cost, reading[q])
    BY <1>2
  <2>3. CASE row[1] = "global"
    BY <2>1, <2>2, <2>3 DEF Admits
  <2>4. CASE row[1] # "global"
    <3>1. CASE row[2][1] = "day"
      BY <2>1, <2>2, <2>4, <3>1 DEF Admits
    <3>2. CASE row[2][1] = "month"
      BY <2>1, <2>2, <2>4, <3>2 DEF Admits
    <3>3. QED
      BY <1>1, <3>1, <3>2
  <2>5. QED
    BY <2>3, <2>4
<1>3. CASE row \notin rows
  <2>1. counter'[row] = counter[row]
    BY <1>3, RowUpdate
  <2>2. QED
    BY <2>1 DEF CallLimits
<1>4. QED
  BY <1>2, <1>3

LEMMA NotRaisedLimits ==
    ASSUME TypeInv, counter' \in [Rows -> IntCounter], CallLimits, CallsNotRaised
    PROVE  CallLimits'
<1> SUFFICES ASSUME NEW row \in Rows
             PROVE  /\ row[1] = "global" /\ row[2][1] = "day" =>
                         counter'[row].calls_reserved <= GlobalDailyCalls
                    /\ row[1] # "global" =>
                         \E l \in LimitChoices :
                            counter'[row].calls_reserved <=
                               IF row[2][1] = "day" THEN l.daily ELSE l.monthly
  BY DEF CallLimits
<1>1. /\ counter'[row].calls_reserved <= counter[row].calls_reserved
      /\ counter'[row].calls_reserved \in Int
      /\ counter[row].calls_reserved \in Int
  BY DEF CallsNotRaised, TypeInv, IntCounter
<1>2. CASE row[1] = "global"
  BY <1>1, <1>2, ConfigAssumption DEF CallLimits
<1>3. CASE row[1] # "global"
  <2>1. PICK l \in LimitChoices :
          counter[row].calls_reserved <=
             IF row[2][1] = "day" THEN l.daily ELSE l.monthly
    BY <1>3 DEF CallLimits
  <2>2. l.daily \in Nat /\ l.monthly \in Nat
    BY ConfigAssumption DEF Limits
  <2>3. counter'[row].calls_reserved <=
          IF row[2][1] = "day" THEN l.daily ELSE l.monthly
    BY <1>1, <2>1, <2>2
  <2>4. QED
    BY <1>3, <2>3
<1>4. QED
  BY <1>2, <1>3

LEMMA LimitsStep ==
    ASSUME IInv, TypeInv', LimitsRead, CallLimits, [Next]_vars
    PROVE  CallLimits'
<1> USE DEF IInv
<1>1. counter' \in [Rows -> IntCounter]
  BY DEF TypeInv
<1>2. ASSUME NEW q \in Requests, ReserveInitial(q)
      PROVE  CallLimits'
  <2>1. PICK lim \in LimitChoices :
          reading[q].daily = lim.daily /\ reading[q].monthly = lim.monthly
    BY <1>2 DEF ReserveInitial, LimitsRead
  <2>2. PICK b, d :
          \/ /\ \A row \in RowsAt(UserOf[q], reading[q].now) :
                   Admits(row, 2, b + d, reading[q])
             /\ AddToRows(RowsAt(UserOf[q], reading[q].now), 2, 0, b + d, 0)
          \/ counter' = counter
    BY <1>2 DEF ReserveInitial, ReserveQuota
  <2>3. CASE counter' = counter
    BY <2>3 DEF CallLimits
  <2>4. QED
    BY <2>1, <2>2, <2>3, AdmittedLimits
<1>3. ASSUME NEW q \in Requests, ReserveRepair(q)
      PROVE  CallLimits'
  <2>1. PICK lim \in LimitChoices :
          reading[q].daily = lim.daily /\ reading[q].monthly = lim.monthly
    BY <1>3 DEF ReserveRepair, LimitsRead
  <2>2. PICK b :
          \/ /\ \A row \in RowsAt(UserOf[q], reading[q].now) :
                   Admits(row, 1, b, reading[q])
             /\ AddToRows(RowsAt(UserOf[q], reading[q].now), 1, 0, b, 0)
          \/ counter' = counter
    BY <1>3 DEF ReserveRepair, ReserveQuota
  <2>3. CASE counter' = counter
    BY <2>3 DEF CallLimits
  <2>4. QED
    BY <2>1, <2>2, <2>3, AdmittedLimits
<1>4. ASSUME NEW q \in Requests, Worker(q) \/ Crash(q),
             ~ReserveInitial(q), ~ReserveRepair(q)
      PROVE  CallsNotRaised
  <2>1. <<q, call[q]>> \in Reservations
    BY DEF TypeInv, Reservations
  <2>2. CASE PreflightFails(q)
    BY <2>1, <2>2, ReleaseNotRaised DEF PreflightFails
  <2>3. CASE SettleCall(q)
    BY <2>1, <2>3, SettleNotRaised DEF SettleCall
  <2>4. CASE ReleaseNext(q)
    <3>1. PICK c \in todo[q] : ReleaseReservation(<<q, c>>)
      BY <2>4 DEF ReleaseNext
    <3>2. <<q, c>> \in Reservations
      BY DEF TypeInv, Reservations
    <3>3. QED
      BY <3>1, <3>2, ReleaseNotRaised
  <2>5. CASE \/ ReadLimits(q) \/ StartCall(q) \/ StartRefused(q)
             \/ ProviderReturns(q) \/ ReadDownstream(q) \/ FinishRelease(q)
             \/ Crash(q)
    BY <2>5, SameNotRaised DEF ReadLimits, StartCall, StartRefused,
       ProviderReturns, ReadDownstream, FinishRelease, Crash, dbVars
  <2>6. QED
    BY <1>4, <2>2, <2>3, <2>4, <2>5 DEF Worker
<1>5. ASSUME NEW r \in Reconcilers, ReconcileNext(r)
      PROVE  CallsNotRaised
  <2>1. PICK entry \in batch[r] :
          ReleaseReservation(entry[1]) \/ MarkUnknown(entry[1])
    BY <1>5 DEF ReconcileNext
  <2>2. entry[1] \in Reservations
    BY DEF TypeInv
  <2>3. QED
    BY <2>1, <2>2, ReleaseNotRaised, UnknownType, SameNotRaised
<1>6. CASE counter' = counter
  BY <1>6, SameNotRaised, NotRaisedLimits, <1>1
<1>7. QED
  BY <1>1, <1>2, <1>3, <1>4, <1>5, <1>6, NotRaisedLimits
     DEF Next, Reconciler, ReadStale, ReconcilerCrash, Tick, ChangeLimits,
         vars, dbVars

LEMMA LimitsReadStep ==
    ASSUME IInv, LimitsRead, [Next]_vars
    PROVE  LimitsRead'
<1> USE DEF IInv
<1> SUFFICES ASSUME NEW p \in Requests, pc'[p] \in {"reserve", "reserveRepair"}
             PROVE  \E lim \in LimitChoices :
                       reading'[p].daily = lim.daily /\ reading'[p].monthly = lim.monthly
  BY DEF LimitsRead
<1>1. CASE ReadLimits(p)
  <2>1. limits[UserOf[p]] \in LimitChoices
    BY UsersAssumption DEF TypeInv
  <2>2. /\ reading'[p].daily = limits[UserOf[p]].daily
        /\ reading'[p].monthly = limits[UserOf[p]].monthly
    BY <1>1 DEF ReadLimits, TypeInv
  <2>3. QED
    BY <2>1, <2>2
<1>2. CASE pc'[p] = pc[p] /\ reading'[p] = reading[p]
  BY <1>2 DEF LimitsRead
<1>3. ASSUME NEW q \in Requests, Worker(q) \/ Crash(q)
      PROVE  ReadLimits(p) \/ (pc'[p] = pc[p] /\ reading'[p] = reading[p])
  <2>1. CASE q # p
    BY <1>3, <2>1, GotoOther DEF Worker, ReadLimits, ReserveInitial,
       ReserveRepair, PreflightFails, StartCall, StartRefused, ProviderReturns,
       SettleCall, AfterSettle, ReadDownstream, ReleaseNext, FinishRelease,
       Crash, TypeInv
  <2>2. CASE q = p
    <3>1. \A label : Goto(p, label) => pc'[p] = label
      BY GotoOther
    <3>2. CASE ReleaseNext(p)
      BY <3>2 DEF ReleaseNext
    <3>3. CASE ~ReleaseNext(p)
      BY <1>3, <2>2, <3>1, <3>3 DEF Worker, ReserveInitial,
         ReserveRepair, PreflightFails, StartCall, StartRefused,
         ProviderReturns, SettleCall, AfterSettle, ReadDownstream,
         FinishRelease, Crash
    <3>4. QED
      BY <3>2, <3>3
  <2>3. QED
    BY <2>1, <2>2
<1>4. CASE UNCHANGED <<pc, reading>>
  BY <1>2, <1>4
<1>5. QED
  BY <1>1, <1>2, <1>3, <1>4
     DEF Next, Reconciler, ReadStale, ReconcileNext, ReconcilerCrash, Tick,
         ChangeLimits, vars, workerVars

\* Concurrent requests never jointly overrun the daily and monthly call limits
\* each of them was admitted under.
THEOREM CallLimitsAlways == Spec => []CallLimits
<1> DEFINE Inv == IInv /\ LimitsRead /\ CallLimits
<1>1. Init => Inv
  <2> SUFFICES ASSUME Init
               PROVE  LimitsRead /\ CallLimits
    BY InitInv
  <2>1. LimitsRead
    BY DEF Init, LimitsRead
  <2>2. \A row \in Rows : counter[row].calls_reserved = 0
    BY DEF Init, ZeroCounter
  <2>3. PICK lim \in LimitChoices : TRUE
    BY ConfigAssumption
  <2>4. lim.daily \in Nat /\ lim.monthly \in Nat /\ GlobalDailyCalls \in Nat
    BY ConfigAssumption DEF Limits
  <2>5. QED
    BY <2>1, <2>2, <2>4 DEF CallLimits
<1>2. Inv /\ [Next]_vars => Inv'
  <2> SUFFICES ASSUME IInv, LimitsRead, CallLimits, [Next]_vars
               PROVE  Inv'
    OBVIOUS
  <2>1. IInv' /\ TypeInv'
    BY StepInv DEF IInv
  <2>2. QED
    BY <2>1, LimitsStep, LimitsReadStep
<1>3. QED
  BY <1>1, <1>2, PTL DEF Spec

-----------------------------------------------------------------------------
(* The monthly cost ceiling.                                                *)

\* What a row has spent and holds.
Spend(row) == counter[row].cost + counter[row].cost_reserved

SpendNotRaised == \A row \in Rows : Spend(row)' <= Spend(row)

LEMMA ReleaseSpend ==
    ASSUME TypeInv, NEW id \in Reservations, ReleaseReservation(id)
    PROVE  SpendNotRaised
<1> SUFFICES ASSUME NEW row \in Rows
             PROVE  Spend(row)' <= Spend(row)
  BY DEF SpendNotRaised
<1>1. counter[row].cost \in Int /\ counter[row].cost_reserved \in Int
  BY DEF TypeInv, IntCounter
<1>2. res[id].bound \in Nat
  BY DEF TypeInv, ReservationRecord
<1>3. CASE AddToRows(RowsOf(id), -1, 0, -res[id].bound, 0)
  <2>1. \/ counter'[row] = counter[row]
        \/ /\ counter'[row].cost = counter[row].cost + 0
           /\ counter'[row].cost_reserved
                = counter[row].cost_reserved + (-res[id].bound)
    BY <1>3 DEF AddToRows
  <2>2. QED
    BY <1>1, <1>2, <2>1 DEF Spend
<1>4. CASE counter' = counter
  BY <1>1, <1>4 DEF Spend
<1>5. QED
  BY <1>3, <1>4 DEF ReleaseReservation, ReleaseQuota, dbVars

LEMMA SettleSpend ==
    ASSUME TypeInv, Priced, ConservativeBounds, NEW id \in Reservations,
           NEW o \in Outcome, o.cost \in ReportedCosts[id[2]] \cup {0},
           SettleReservation(id, o)
    PROVE  SpendNotRaised
<1> SUFFICES ASSUME NEW row \in Rows
             PROVE  Spend(row)' <= Spend(row)
  BY DEF SpendNotRaised
<1>1. counter[row].cost \in Int /\ counter[row].cost_reserved \in Int
  BY DEF TypeInv, IntCounter
<1>2. res[id].bound \in Nat /\ SettledCost(id, o) \in Nat
  BY DEF TypeInv, ReservationRecord, SettledCost, Outcome
<1>3. CASE /\ res[id].state = "started"
           /\ AddToRows(RowsOf(id), 0, 1, -res[id].bound, SettledCost(id, o))
  <2>1. SettledCost(id, o) <= res[id].bound
    <3>1. res[id].bound \in Bounds[id[2]]
      BY <1>3 DEF Priced, PricedRows
    <3>2. id[2] \in Calls
      BY DEF Reservations
    <3>3. CASE o.status = "ok" /\ o.cost > 0
      <4>1. o.cost \in ReportedCosts[id[2]]
        BY <3>3
      <4>2. QED
        BY <3>1, <3>2, <3>3, <4>1 DEF SettledCost, ConservativeBounds
    <3>4. CASE ~(o.status = "ok" /\ o.cost > 0)
      BY <1>2, <3>4 DEF SettledCost
    <3>5. QED
      BY <3>3, <3>4
  <2>2. \/ counter'[row] = counter[row]
        \/ /\ counter'[row].cost = counter[row].cost + SettledCost(id, o)
           /\ counter'[row].cost_reserved
                = counter[row].cost_reserved + (-res[id].bound)
    BY <1>3 DEF AddToRows
  <2>3. QED
    BY <1>1, <1>2, <2>1, <2>2 DEF Spend
<1>4. CASE counter' = counter
  BY <1>1, <1>4 DEF Spend
<1>5. QED
  BY <1>3, <1>4 DEF SettleReservation, SettleQuota, dbVars

LEMMA SameSpend ==
    ASSUME TypeInv, counter' = counter
    PROVE  SpendNotRaised
<1>1. \A row \in Rows : Spend(row) \in Int /\ Spend(row)' = Spend(row)
  BY DEF TypeInv, IntCounter, Spend
<1>2. QED
  BY <1>1 DEF SpendNotRaised

LEMMA NotRaisedCeiling ==
    ASSUME TypeInv, TypeInv', CostCeiling, SpendNotRaised
    PROVE  CostCeiling'
<1>1. \A row \in Rows : Spend(row) \in Int /\ Spend(row)' \in Int
  BY DEF TypeInv, IntCounter, Spend
<1>2. \A row \in Rows : row[1] = "global" /\ row[2][1] = "month" =>
                          Spend(row) <= MonthlyCostCeiling
  BY DEF CostCeiling, Spend
<1>3. \A row \in Rows : row[1] = "global" /\ row[2][1] = "month" =>
                          Spend(row)' <= MonthlyCostCeiling
  BY <1>1, <1>2, ConfigAssumption DEF SpendNotRaised
<1>4. QED
  BY <1>3 DEF CostCeiling, Spend

LEMMA AdmittedCeiling ==
    ASSUME TypeInv, CostCeiling, NEW rows, NEW n, NEW cost \in Nat, NEW lim,
           AddToRows(rows, n, 0, cost, 0),
           \A row \in rows : Admits(row, n, cost, lim)
    PROVE  CostCeiling'
<1> SUFFICES ASSUME NEW row \in Rows, row[1] = "global", row[2][1] = "month"
             PROVE  counter'[row].cost + counter'[row].cost_reserved
                       <= MonthlyCostCeiling
  BY DEF CostCeiling
<1>1. counter[row].cost \in Int /\ counter[row].cost_reserved \in Int
  BY DEF TypeInv, IntCounter
<1>2. CASE row \in rows
  <2>1. /\ counter'[row].cost = counter[row].cost + 0
        /\ counter'[row].cost_reserved = counter[row].cost_reserved + cost
    BY <1>2, RowUpdate
  <2>2. counter[row].cost + counter[row].cost_reserved + cost
          <= MonthlyCostCeiling
    BY <1>2 DEF Admits
  <2>3. QED
    BY <1>1, <2>1, <2>2
<1>3. CASE row \notin rows
  BY <1>3, RowUpdate DEF CostCeiling
<1>4. QED
  BY <1>2, <1>3

LEMMA CeilingStep ==
    ASSUME IInv, TypeInv', Priced, ConservativeBounds, CostCeiling, [Next]_vars
    PROVE  CostCeiling'
<1> USE DEF IInv
<1>1. ASSUME NEW q \in Requests, ReserveInitial(q)
      PROVE  CostCeiling'
  <2>1. PICK b \in Bounds[Guard], d \in Bounds[Generator] :
          \/ /\ \A row \in RowsAt(UserOf[q], reading[q].now) :
                   Admits(row, 2, b + d, reading[q])
             /\ AddToRows(RowsAt(UserOf[q], reading[q].now), 2, 0, b + d, 0)
          \/ counter' = counter
    BY <1>1 DEF ReserveInitial, ReserveQuota
  <2>2. b + d \in Nat
    BY BoundsType, CallsType
  <2>3. CASE counter' = counter
    BY <2>3 DEF CostCeiling
  <2>4. QED
    BY <2>1, <2>2, <2>3, AdmittedCeiling
<1>2. ASSUME NEW q \in Requests, ReserveRepair(q)
      PROVE  CostCeiling'
  <2>1. PICK c \in Calls : \E b \in Bounds[c] :
          \/ /\ \A row \in RowsAt(UserOf[q], reading[q].now) :
                   Admits(row, 1, b, reading[q])
             /\ AddToRows(RowsAt(UserOf[q], reading[q].now), 1, 0, b, 0)
          \/ counter' = counter
    BY <1>2 DEF ReserveRepair, ReserveQuota
  <2>2. PICK b \in Nat :
          \/ /\ \A row \in RowsAt(UserOf[q], reading[q].now) :
                   Admits(row, 1, b, reading[q])
             /\ AddToRows(RowsAt(UserOf[q], reading[q].now), 1, 0, b, 0)
          \/ counter' = counter
    BY <2>1, BoundsType
  <2>3. CASE counter' = counter
    BY <2>3 DEF CostCeiling
  <2>4. QED
    BY <2>2, <2>3, AdmittedCeiling
<1>3. ASSUME NEW q \in Requests, Worker(q) \/ Crash(q),
             ~ReserveInitial(q), ~ReserveRepair(q)
      PROVE  SpendNotRaised
  <2>1. <<q, call[q]>> \in Reservations /\ outcome[q] \in Outcome
    BY DEF TypeInv, Reservations
  <2>2. CASE PreflightFails(q)
    BY <2>1, <2>2, ReleaseSpend DEF PreflightFails
  <2>3. CASE SettleCall(q)
    <3>1. outcome[q].cost \in ReportedCosts[<<q, call[q]>>[2]] \cup {0}
      BY <2>3 DEF SettleCall, Priced, PricedAnswers
    <3>2. QED
      BY <2>1, <2>3, <3>1, SettleSpend DEF SettleCall
  <2>4. CASE ReleaseNext(q)
    <3>1. PICK c \in todo[q] : ReleaseReservation(<<q, c>>)
      BY <2>4 DEF ReleaseNext
    <3>2. <<q, c>> \in Reservations
      BY DEF TypeInv, Reservations
    <3>3. QED
      BY <3>1, <3>2, ReleaseSpend
  <2>5. CASE \/ ReadLimits(q) \/ StartCall(q) \/ StartRefused(q)
             \/ ProviderReturns(q) \/ ReadDownstream(q) \/ FinishRelease(q)
             \/ Crash(q)
    BY <2>5, SameSpend DEF ReadLimits, StartCall, StartRefused,
       ProviderReturns, ReadDownstream, FinishRelease, Crash, dbVars
  <2>6. QED
    BY <1>3, <2>2, <2>3, <2>4, <2>5 DEF Worker
<1>4. ASSUME NEW r \in Reconcilers, ReconcileNext(r)
      PROVE  SpendNotRaised
  <2>1. PICK entry \in batch[r] :
          ReleaseReservation(entry[1]) \/ MarkUnknown(entry[1])
    BY <1>4 DEF ReconcileNext
  <2>2. entry[1] \in Reservations
    BY DEF TypeInv
  <2>3. QED
    BY <2>1, <2>2, ReleaseSpend, UnknownType, SameSpend
<1>5. CASE counter' = counter
  BY <1>5, SameSpend, NotRaisedCeiling
<1>6. QED
  BY <1>1, <1>2, <1>3, <1>4, <1>5, NotRaisedCeiling
     DEF Next, Reconciler, ReadStale, ReconcilerCrash, Tick, ChangeLimits,
         vars, dbVars

LEMMA LegalKeepsBound ==
    ASSUME NEW from \in ReservationRecord, NEW to, LegalStep(from, to),
           from.state # "none"
    PROVE  to.bound = from.bound
BY DEF LegalStep, ReservationRecord

LEMMA PricedRowsStep ==
    ASSUME IInv, PricedRows, [Next]_vars
    PROVE  PricedRows'
<1> USE DEF IInv
<1> SUFFICES ASSUME NEW id \in Reservations, res'[id].state # "none"
             PROVE  res'[id].bound \in Bounds[id[2]]
  BY DEF PricedRows
<1>1. CASE res[id].state # "none" /\ LegalStep(res[id], res'[id])
  <2>1. res[id] \in ReservationRecord
    BY DEF TypeInv
  <2>2. QED
    BY <1>1, <2>1, LegalKeepsBound DEF PricedRows
<1>2. CASE res'[id] = res[id]
  BY <1>2 DEF PricedRows
<1>3. ASSUME NEW q \in Requests, ReserveInitial(q)
      PROVE  res'[id].bound \in Bounds[id[2]]
  <2>1. PICK b \in Bounds[Guard], d \in Bounds[Generator] :
          \/ res' = [res EXCEPT ![<<q, Guard>>] = Reserved(b, reading[q].now),
                                ![<<q, Generator>>] = Reserved(d, reading[q].now)]
          \/ res' = res
    BY <1>3 DEF ReserveInitial
  <2>2. \/ res'[id] = res[id]
        \/ id = <<q, Guard>> /\ res'[id].bound = b
        \/ id = <<q, Generator>> /\ res'[id].bound = d
    <3>1. \/ res'[id] = res[id]
          \/ id = <<q, Guard>> /\ res'[id] = Reserved(b, reading[q].now)
          \/ id = <<q, Generator>> /\ res'[id] = Reserved(d, reading[q].now)
      BY <2>1 DEF TypeInv
    <3>2. QED
      BY <3>1 DEF Reserved
  <2>3. QED
    BY <1>2, <2>2
<1>4. ASSUME NEW q \in Requests, ReserveRepair(q)
      PROVE  res'[id].bound \in Bounds[id[2]]
  <2>1. PICK c \in Calls : \E b \in Bounds[c] :
          \/ res' = [res EXCEPT ![<<q, c>>] = Reserved(b, reading[q].now)]
          \/ res' = res
    BY <1>4 DEF ReserveRepair
  <2>2. PICK b \in Bounds[c] :
          \/ res' = [res EXCEPT ![<<q, c>>] = Reserved(b, reading[q].now)]
          \/ res' = res
    BY <2>1
  <2>3. \/ res'[id] = res[id]
        \/ id = <<q, c>> /\ res'[id].bound = b
    <3>1. \/ res'[id] = res[id]
          \/ id = <<q, c>> /\ res'[id] = Reserved(b, reading[q].now)
      BY <2>2 DEF TypeInv
    <3>2. QED
      BY <3>1 DEF Reserved
  <2>4. QED
    BY <1>2, <2>3
<1>5. ASSUME NEW q \in Requests, Worker(q) \/ Crash(q),
             ~ReserveInitial(q), ~ReserveRepair(q)
      PROVE  res[id].state # "none" /\ LegalStep(res[id], res'[id])
  <2>1. <<q, call[q]>> \in Reservations
    BY DEF TypeInv, Reservations
  <2>2. LegalStep(res[id], res'[id])
    BY <1>5, WorkerLegal
  <2>3. res[id].state = "none" => res'[id].state = "none"
    <3>1. CASE PreflightFails(q)
      BY <2>1, <3>1, ReleaseMoves, MoveFresh DEF PreflightFails
    <3>2. CASE StartCall(q)
      BY <2>1, <3>2, StartMoves, MoveFresh
    <3>3. CASE SettleCall(q)
      BY <2>1, <3>3, SettleMoves, MoveFresh DEF SettleCall
    <3>4. CASE ReleaseNext(q)
      <4>1. PICK c \in todo[q] : ReleaseReservation(<<q, c>>)
        BY <3>4 DEF ReleaseNext
      <4>2. <<q, c>> \in Reservations
        BY DEF TypeInv, Reservations
      <4>3. QED
        BY <4>1, <4>2, ReleaseMoves, MoveFresh
    <3>5. CASE res' = res
      BY <3>5
    <3>6. QED
      BY <1>5, <3>1, <3>2, <3>3, <3>4, <3>5
         DEF Worker, ReadLimits, StartRefused, ProviderReturns,
             ReadDownstream, FinishRelease, Crash, dbVars
  <2>4. QED
    BY <2>2, <2>3
<1>6. ASSUME NEW r \in Reconcilers, ReconcileNext(r)
      PROVE  res[id].state # "none" /\ LegalStep(res[id], res'[id])
  <2>1. PICK entry \in batch[r] :
          ReleaseReservation(entry[1]) \/ MarkUnknown(entry[1])
    BY <1>6 DEF ReconcileNext
  <2>2. entry[1] \in Reservations
    BY DEF TypeInv
  <2>3. Moves(entry[1])
    BY <2>1, <2>2, ReleaseMoves, UnknownMoves
  <2>4. QED
    BY <2>2, <2>3, MoveLegal, MoveFresh
<1>7. QED
  BY <1>1, <1>2, <1>3, <1>4, <1>5, <1>6
     DEF Next, Reconciler, ReadStale, ReconcilerCrash, Tick, ChangeLimits,
         vars, dbVars

LEMMA PricedAnswersStep ==
    ASSUME IInv, PricedAnswers, [Next]_vars
    PROVE  PricedAnswers'
<1> USE DEF IInv
<1> SUFFICES ASSUME NEW p \in Requests, pc'[p] = "settle"
             PROVE  outcome'[p].cost \in ReportedCosts[call'[p]] \cup {0}
  BY DEF PricedAnswers
<1>1. CASE ProviderReturns(p)
  <2>1. PICK status \in {"ok", "provider_error", "timeout"},
             cost \in ReportedCosts[call[p]] \cup {0} :
          outcome' = [outcome EXCEPT ![p] = [status |-> status, cost |-> cost]]
    BY <1>1 DEF ProviderReturns
  <2>2. outcome'[p].cost = cost /\ call'[p] = call[p]
    BY <1>1, <2>1 DEF ProviderReturns, TypeInv
  <2>3. QED
    BY <2>2
<1>2. CASE pc'[p] = pc[p] /\ outcome'[p] = outcome[p] /\ call'[p] = call[p]
  BY <1>2 DEF PricedAnswers
<1>3. ASSUME NEW q \in Requests, Worker(q) \/ Crash(q)
      PROVE  \/ ProviderReturns(p)
             \/ pc'[p] = pc[p] /\ outcome'[p] = outcome[p] /\ call'[p] = call[p]
  <2>1. CASE q # p
    <3>1. pc'[p] = pc[p] /\ outcome'[p] = outcome[p]
      BY <1>3, <2>1, GotoOther DEF Worker, ReadLimits, ReserveInitial,
         ReserveRepair, PreflightFails, StartCall, StartRefused,
         ProviderReturns, SettleCall, AfterSettle, ReadDownstream, ReleaseNext,
         FinishRelease, Crash, TypeInv
    <3>2. call' = call \/ \E c : call' = [call EXCEPT ![q] = c]
      BY <1>3 DEF Worker, ReadLimits, ReserveInitial,
         ReserveRepair, PreflightFails, StartCall, StartRefused,
         ProviderReturns, SettleCall, AfterSettle, ReadDownstream, ReleaseNext,
         FinishRelease, Crash
    <3>3. QED
      BY <2>1, <3>1, <3>2 DEF TypeInv
  <2>2. CASE q = p
    <3>1. \A label : Goto(p, label) => pc'[p] = label
      BY GotoOther
    <3>2. CASE ReleaseNext(p)
      BY <3>2 DEF ReleaseNext
    <3>3. CASE ~ReleaseNext(p)
      BY <1>3, <2>2, <3>1, <3>3 DEF Worker, ReadLimits, ReserveInitial,
         ReserveRepair, PreflightFails, StartCall, StartRefused, SettleCall,
         AfterSettle, ReadDownstream, FinishRelease, Crash
    <3>4. QED
      BY <3>2, <3>3
  <2>3. QED
    BY <2>1, <2>2
<1>4. CASE UNCHANGED <<pc, outcome, call>>
  BY <1>2, <1>4
<1>5. QED
  BY <1>1, <1>2, <1>3, <1>4
     DEF Next, Reconciler, ReadStale, ReconcileNext, ReconcilerCrash, Tick,
         ChangeLimits, vars, workerVars

\* If no call can be reported to cost more than it may reserve, the months'
\* spent and reserved cost never passes the ceiling: the check at reservation
\* time is enough, although settlement replaces bounds by costs unchecked.
THEOREM CostCeilingAlways == ConservativeBounds => (Spec => []CostCeiling)
<1> SUFFICES ASSUME ConservativeBounds
             PROVE  Spec => []CostCeiling
  OBVIOUS
<1> DEFINE Inv == IInv /\ PricedRows /\ PricedAnswers /\ CostCeiling
<1>1. Init => Inv
  <2> SUFFICES ASSUME Init
               PROVE  PricedRows /\ PricedAnswers /\ CostCeiling
    BY InitInv
  <2>1. PricedRows /\ PricedAnswers
    BY DEF Init, PricedRows, PricedAnswers, NoReservation
  <2>2. \A row \in Rows : counter[row].cost = 0 /\ counter[row].cost_reserved = 0
    BY DEF Init, ZeroCounter
  <2>3. QED
    BY <2>1, <2>2, ConfigAssumption DEF CostCeiling
<1>2. Inv /\ [Next]_vars => Inv'
  <2> SUFFICES ASSUME IInv, PricedRows, PricedAnswers, CostCeiling, [Next]_vars
               PROVE  Inv'
    OBVIOUS
  <2>1. IInv' /\ TypeInv'
    BY StepInv DEF IInv
  <2>2. PricedRows' /\ PricedAnswers'
    BY PricedRowsStep, PricedAnswersStep
  <2>3. CostCeiling'
    BY <2>1, CeilingStep DEF Priced
  <2>4. QED
    BY <2>1, <2>2, <2>3
<1>3. QED
  BY <1>1, <1>2, PTL DEF Spec
-----------------------------------------------------------------------------
(* What a request may still hold, by the step its worker is at.             *)

\* The calls a worker has yet to deal with: the current one, and the
\* generator's while the guard's is not settled.
Awaits(q, c) == c = call[q] \/ (call[q] = Guard /\ c = Generator)

\* Why a call may be open: its worker died or gave up on it, will start it,
\* is making it, or is about to release it.  Only the current call is ever
\* started.
MayBeOpen(q, c) ==
    \/ pc[q] \in {"aborted", "dead"}
    \/ pc[q] \in {"call", "settle"} /\ c = call[q]
    \/ /\ res[<<q, c>>].state = "reserved"
       /\ \/ pc[q] \in {"start", "call", "settle"} /\ Awaits(q, c)
          \/ pc[q] = "downstream"
          \/ pc[q] = "release" /\ c \in todo[q]

OpenAccounted ==
    \A q \in Requests, c \in Calls :
        res[<<q, c>>].state \in Open => MayBeOpen(q, c)

\* A step that moves neither the worker nor the row keeps the reason.
LEMMA OpenKept ==
    ASSUME OpenAccounted, NEW q \in Requests, NEW c \in Calls,
           res'[<<q, c>>].state = res[<<q, c>>].state,
           res'[<<q, c>>].state \in Open,
           pc'[q] = pc[q], call'[q] = call[q], todo'[q] = todo[q]
    PROVE  MayBeOpen(q, c)'
BY DEF OpenAccounted, MayBeOpen, Awaits

LEMMA ReleaseCloses ==
    ASSUME TypeInv, NEW id \in Reservations, ReleaseReservation(id),
           res[id].state # "started"
    PROVE  res'[id].state \notin Open
<1>1. CASE res[id].state = "reserved"
  BY <1>1 DEF ReleaseReservation, TypeInv, ReservationRecord, Open
<1>2. CASE res[id].state # "reserved"
  BY <1>2 DEF ReleaseReservation, dbVars, Open
<1>3. QED
  BY <1>1, <1>2

\* The reconciler closes rows and does nothing else.
LEMMA ReconcilerOpen ==
    ASSUME TypeInv, OpenAccounted, NEW r \in Reconcilers, ReconcileNext(r)
    PROVE  OpenAccounted'
<1> SUFFICES ASSUME NEW q \in Requests, NEW c \in Calls,
                    res'[<<q, c>>].state \in Open
             PROVE  MayBeOpen(q, c)'
  BY DEF OpenAccounted
<1>1. PICK entry \in batch[r] :
        ReleaseReservation(entry[1]) \/ MarkUnknown(entry[1])
  BY DEF ReconcileNext
<1>2. entry[1] \in Reservations /\ <<q, c>> \in Reservations
  BY DEF TypeInv, Reservations
<1>3. /\ \A x \in Reservations : x # entry[1] => res'[x] = res[x]
      /\ \/ res'[entry[1]] = res[entry[1]]
         \/ res'[entry[1]].state \in {"released", "unknown"}
  BY <1>1, <1>2, ReleaseMoves, UnknownMoves DEF Moves
<1>4. res'[<<q, c>>].state = res[<<q, c>>].state
  BY <1>2, <1>3 DEF Open
<1>5. UNCHANGED <<pc, call, todo>>
  BY DEF ReconcileNext, workerVars
<1>6. QED
  BY <1>4, <1>5, OpenKept

\* A worker changes the rows of its own request only.
LEMMA OthersUntouched ==
    ASSUME TypeInv, FreshCalls, NEW q \in Requests, Worker(q) \/ Crash(q),
           NEW p \in Requests, p # q
    PROVE  /\ \A c \in Calls : res'[<<p, c>>] = res[<<p, c>>]
           /\ pc'[p] = pc[p] /\ call'[p] = call[p] /\ todo'[p] = todo[p]
<1>1. \A c \in Calls : res'[<<p, c>>] = res[<<p, c>>]
  <2> SUFFICES ASSUME NEW c \in Calls
               PROVE  res'[<<p, c>>] = res[<<p, c>>]
    OBVIOUS
  <2>1. /\ <<p, c>> \in Reservations /\ <<q, call[q]>> \in Reservations
        /\ \A d \in todo[q] : <<q, d>> \in Reservations
    BY DEF TypeInv, Reservations
  <2>2. CASE ReserveInitial(q) \/ ReserveRepair(q)
    BY <2>1, <2>2, ReserveInitialInserts, ReserveRepairInserts DEF Inserts
  <2>3. CASE PreflightFails(q)
    BY <2>1, <2>3, ReleaseMoves DEF PreflightFails, Moves
  <2>4. CASE StartCall(q)
    BY <2>1, <2>4, StartMoves DEF Moves
  <2>5. CASE SettleCall(q)
    BY <2>1, <2>5, SettleMoves DEF SettleCall, Moves
  <2>6. CASE ReleaseNext(q)
    BY <2>1, <2>6, ReleaseMoves DEF ReleaseNext, Moves
  <2>7. CASE \/ ReadLimits(q) \/ StartRefused(q) \/ ProviderReturns(q)
             \/ ReadDownstream(q) \/ FinishRelease(q) \/ Crash(q)
    BY <2>7 DEF ReadLimits, StartRefused, ProviderReturns, ReadDownstream,
                FinishRelease, Crash, dbVars
  <2>8. QED
    BY <2>2, <2>3, <2>4, <2>5, <2>6, <2>7 DEF Worker
<1>2. pc'[p] = pc[p]
  BY GotoOther DEF Worker, ReadLimits, ReserveInitial, ReserveRepair,
     PreflightFails, StartCall, StartRefused, ProviderReturns, SettleCall,
     AfterSettle, ReadDownstream, ReleaseNext, FinishRelease, Crash
<1>3. call' = call \/ \E c : call' = [call EXCEPT ![q] = c]
  BY DEF Worker, ReadLimits, ReserveInitial, ReserveRepair,
     PreflightFails, StartCall, StartRefused, ProviderReturns, SettleCall,
     AfterSettle, ReadDownstream, ReleaseNext, FinishRelease, Crash
<1>4. todo' = todo \/ \E S : todo' = [todo EXCEPT ![q] = S]
  BY DEF Worker, ReadLimits, ReserveInitial, ReserveRepair,
     PreflightFails, StartCall, StartRefused, ProviderReturns, SettleCall,
     AfterSettle, ReadDownstream, ReleaseNext, FinishRelease, Crash
<1>5. QED
  BY <1>1, <1>2, <1>3, <1>4 DEF TypeInv

LEMMA WorkerOpen ==
    ASSUME IInv, OpenAccounted, NEW q \in Requests, Worker(q) \/ Crash(q)
    PROVE  OpenAccounted'
<1> USE DEF IInv
<1> SUFFICES ASSUME NEW p \in Requests, NEW c \in Calls,
                    res'[<<p, c>>].state \in Open
             PROVE  MayBeOpen(p, c)'
  BY DEF OpenAccounted
<1>1. CASE p # q
  BY <1>1, OthersUntouched, OpenKept
<1>2. CASE p = q
  <2>1. /\ <<q, c>> \in Reservations /\ <<q, call[q]>> \in Reservations
        /\ \A d \in todo[q] : <<q, d>> \in Reservations
    BY DEF TypeInv, Reservations
  <2>2. res[<<q, c>>].state \in Open => MayBeOpen(q, c)
    BY DEF OpenAccounted
  <2>3. \A label : Goto(q, label) => pc'[q] = label
    BY GotoOther
  <2>4. res'[<<q, c>>].state \in Open
    BY <1>2
  <2>5. CASE ReadLimits(q)
    <3>1. res' = res /\ pc[q] \in {"idle", "repair"}
      BY <2>5 DEF ReadLimits, dbVars
    <3>2. pc[q] = "idle" => res[<<q, c>>].state = "none"
      BY DEF FreshCalls
    <3>3. QED
      BY <2>2, <2>4, <3>1, <3>2 DEF MayBeOpen, Open
  <2>6. CASE ReserveInitial(q)
    <3>1. res[<<q, c>>].state = "none" /\ call[q] = Guard
      BY <2>6 DEF ReserveInitial, FreshCalls
    <3>2. res'[<<q, c>>].state = "reserved" /\ c \in {Guard, Generator}
      BY <2>1, <2>4, <2>6, <3>1, ReserveInitialInserts DEF Inserts, Open
    <3>3. res' # res
      BY <3>1, <3>2
    <3>4. pc'[q] = "start" /\ call' = call
      BY <2>3, <2>6, <3>3 DEF ReserveInitial
    <3>5. QED
      BY <1>2, <3>1, <3>2, <3>4 DEF MayBeOpen, Awaits
  <2>7. CASE ReserveRepair(q)
    <3>1. res[<<q, c>>].state \notin Open
      BY <2>2, <2>7 DEF ReserveRepair, MayBeOpen
    <3>2. /\ res'[<<q, c>>].state = "reserved" /\ c = call[q] + 1
          /\ call' = [call EXCEPT ![q] = call[q] + 1]
      BY <2>1, <2>4, <2>7, <3>1, ReserveRepairInserts DEF Inserts, Open
    <3>3. res' # res
      BY <2>4, <3>1
    <3>4. pc'[q] = "start" /\ call'[q] = c
      BY <2>3, <2>7, <3>2, <3>3 DEF ReserveRepair, TypeInv
    <3>5. QED
      BY <1>2, <3>2, <3>4 DEF MayBeOpen, Awaits
  <2>8. CASE PreflightFails(q)
    <3>1. /\ pc[q] = "start" /\ call' = call
          /\ ReleaseReservation(<<q, call[q]>>)
      BY <2>8 DEF PreflightFails
    <3>2. c # call[q]
      <4>1. res[<<q, c>>].state # "started"
        BY <2>2, <3>1 DEF MayBeOpen, Open
      <4>2. ~ReleaseReservation(<<q, c>>)
        BY <2>1, <2>4, <4>1, ReleaseCloses
      <4>3. QED
        BY <3>1, <4>2
    <3>3. res'[<<q, c>>] = res[<<q, c>>]
      BY <2>1, <3>1, <3>2, ReleaseMoves DEF Moves
    <3>4. res'[<<q, c>>].state = "reserved" /\ call[q] = Guard /\ c = Generator
      BY <2>2, <2>4, <3>1, <3>2, <3>3 DEF MayBeOpen, Awaits
    <3>5. pc'[q] = "release" /\ todo'[q] = {Generator}
      BY <2>3, <2>8, <3>4 DEF PreflightFails, TypeInv
    <3>6. QED
      BY <1>2, <3>4, <3>5 DEF MayBeOpen
  <2>9. CASE StartCall(q)
    <3>1. pc[q] = "start" /\ pc'[q] = "call" /\ call' = call
      BY <2>3, <2>9 DEF StartCall
    <3>2. c = call[q] \/ res'[<<q, c>>] = res[<<q, c>>]
      BY <2>1, <2>9, StartMoves DEF Moves
    <3>3. QED
      BY <1>2, <2>2, <2>4, <3>1, <3>2 DEF MayBeOpen, Awaits
  <2>10. CASE ProviderReturns(q)
    <3>1. /\ pc[q] = "call" /\ pc'[q] = "settle"
          /\ res' = res /\ call' = call
      BY <2>3, <2>10 DEF ProviderReturns, dbVars
    <3>2. QED
      BY <1>2, <2>2, <2>4, <3>1 DEF MayBeOpen, Awaits
  <2>11. CASE SettleCall(q)
    <3>1. pc[q] = "settle" /\ SettleReservation(<<q, call[q]>>, outcome[q])
      BY <2>11 DEF SettleCall
    <3>2. c # call[q]
      <4>1. res[<<q, call[q]>>].state \in {"started", "unknown"}
        BY <3>1 DEF SentIsCharged
      <4>2. res'[<<q, call[q]>>].state \notin Open
        <5>1. CASE res[<<q, call[q]>>].state = "started"
          BY <2>1, <3>1, <5>1 DEF SettleReservation, TypeInv,
             ReservationRecord, Open
        <5>2. CASE res[<<q, call[q]>>].state = "unknown"
          BY <3>1, <5>2 DEF SettleReservation, dbVars, Open
        <5>3. QED
          BY <4>1, <5>1, <5>2
      <4>3. QED
        BY <2>4, <4>2
    <3>3. res'[<<q, c>>] = res[<<q, c>>]
      BY <2>1, <3>1, <3>2, SettleMoves DEF Moves
    <3>4. res'[<<q, c>>].state = "reserved" /\ call[q] = Guard /\ c = Generator
      BY <2>2, <2>4, <3>1, <3>2, <3>3 DEF MayBeOpen, Awaits
    <3>5. \/ pc'[q] = "start" /\ call'[q] = Generator
          \/ pc'[q] = "downstream"
      BY <2>3, <2>11, <3>4 DEF SettleCall, AfterSettle, TypeInv
    <3>6. QED
      BY <1>2, <3>4, <3>5 DEF MayBeOpen, Awaits
  <2>12. CASE ReadDownstream(q)
    <3>1. pc[q] = "downstream" /\ pc'[q] = "release" /\ res' = res
      BY <2>3, <2>12 DEF ReadDownstream, dbVars
    <3>2. res[<<q, c>>].state = "reserved"
      BY <2>2, <2>4, <3>1 DEF MayBeOpen
    <3>3. c \in todo'[q]
      BY <2>12, <3>2 DEF ReadDownstream, TypeInv
    <3>4. QED
      BY <1>2, <3>1, <3>2, <3>3 DEF MayBeOpen
  <2>13. CASE ReleaseNext(q)
    <3>1. PICK d \in todo[q] : /\ ReleaseReservation(<<q, d>>)
                               /\ todo' = [todo EXCEPT ![q] = @ \ {d}]
      BY <2>13 DEF ReleaseNext
    <3>2. pc[q] = "release" /\ pc' = pc
      BY <2>13 DEF ReleaseNext
    <3>3. c # d
      <4>1. res[<<q, c>>].state # "started"
        BY <2>2, <3>2 DEF MayBeOpen, Open
      <4>2. ~ReleaseReservation(<<q, c>>)
        BY <2>1, <2>4, <4>1, ReleaseCloses
      <4>3. QED
        BY <3>1, <4>2
    <3>4. res'[<<q, c>>] = res[<<q, c>>]
      BY <2>1, <3>1, <3>3, ReleaseMoves DEF Moves
    <3>5. res[<<q, c>>].state = "reserved" /\ c \in todo[q]
      BY <2>2, <2>4, <3>2, <3>4 DEF MayBeOpen
    <3>6. c \in todo'[q]
      BY <3>1, <3>3, <3>5 DEF TypeInv
    <3>7. QED
      BY <1>2, <3>2, <3>4, <3>5, <3>6 DEF MayBeOpen
  <2>14. CASE FinishRelease(q)
    BY <2>2, <2>4, <2>14 DEF FinishRelease, dbVars, MayBeOpen
  <2>15. CASE StartRefused(q) \/ Crash(q)
    <3>1. pc'[q] \in {"aborted", "dead"}
      BY <2>3, <2>15 DEF StartRefused, Crash
    <3>2. QED
      BY <1>2, <3>1 DEF MayBeOpen
  <2>16. QED
    BY <2>5, <2>6, <2>7, <2>8, <2>9, <2>10, <2>11, <2>12, <2>13, <2>14,
       <2>15 DEF Worker
<1>3. QED
  BY <1>1, <1>2

\* Whatever path a request takes, once its worker has run to an end nothing is
\* reserved for it any more: the guard's refusal, a failed preflight and a
\* failed repair each return what they will not use.
THEOREM DoneHoldsNothingAlways == Spec => []DoneHoldsNothing
<1>1. Init => OpenAccounted
  BY DEF Init, OpenAccounted, Reservations, NoReservation, Open
<1>2. IInv /\ OpenAccounted /\ [Next]_vars => OpenAccounted'
  <2> SUFFICES ASSUME IInv, OpenAccounted, [Next]_vars
               PROVE  OpenAccounted'
    OBVIOUS
  <2>1. CASE \E q \in Requests : Worker(q) \/ Crash(q)
    BY <2>1, WorkerOpen
  <2>2. CASE \E r \in Reconcilers : ReconcileNext(r)
    BY <2>2, ReconcilerOpen DEF IInv
  <2>3. CASE UNCHANGED <<res, pc, call, todo>>
    BY <2>3 DEF OpenAccounted, MayBeOpen, Awaits
  <2>4. QED
    BY <2>1, <2>2, <2>3 DEF Next, Reconciler, ReadStale, ReconcilerCrash,
       Tick, ChangeLimits, vars, dbVars, workerVars
<1>3. OpenAccounted => DoneHoldsNothing
  BY DEF OpenAccounted, MayBeOpen, DoneHoldsNothing
<1>4. QED
  BY <1>1, <1>2, <1>3, Invariance, PTL DEF Spec

-----------------------------------------------------------------------------
(* The refinement: what the counters admit is what the budget admits.       *)

LEMMA BudgetRows ==
    ASSUME NEW u, NEW t
    PROVE  Budget!RowsAt(u, t) = RowsAt(u, t)
BY DEF Budget!RowsAt, Budget!DayStart, Budget!MonthStart, RowsAt, DayStart,
       MonthStart

LEMMA BudgetIds == Budget!Ids = Reservations /\ Budget!Instants = Instants
BY DEF Budget!Ids, Budget!Instants, Reservations, Instants

LEMMA GrantedFields ==
    /\ \A id \in Reservations :
         /\ Granted[id].state = res[id].state
         /\ Granted[id].at = res[id].created
         /\ Granted[id].amount = IF res[id].state = "settled" THEN ChargeOf[id]
                                  ELSE res[id].bound
    /\ \A id \in Reservations :
         /\ Granted'[id].state = res'[id].state
         /\ Granted'[id].at = res'[id].created
         /\ Granted'[id].amount = IF res'[id].state = "settled" THEN ChargeOf'[id]
                                   ELSE res'[id].bound
BY DEF Granted

\* What a row counts after a step, as the budget sees it.
LEMMA BudgetCountedAfter ==
    ASSUME TypeInv', NEW row
    PROVE  Budget!Counted(row)' = Counted(res', row, Charged)
<1>1. \A id \in Reservations : res'[id].state \in States
  BY DEF TypeInv, ReservationRecord
<1>2. \A id \in Reservations :
        Granted'[id].state \notin {"none", "released"} <=> res'[id].state \in Charged
  BY <1>1, GrantedFields DEF States, Charged
<1>3. \A id \in Reservations :
        row \in Budget!RowsAt(UserOf[id[1]], Granted'[id].at)
          <=> row \in RowsAt(UserOf[id[1]], res'[id].created)
  BY GrantedFields, BudgetRows
<1>4. QED
  BY <1>2, <1>3, BudgetIds DEF Budget!Counted, Counted

LEMMA BudgetSums ==
    ASSUME NEW S, NEW f
    PROVE  /\ Budget!Cardinality(S) = Cardinality(S)
           /\ Budget!Total(S, f) = Total(S, f)
BY DEF Budget!Total, Budget!Units, Total, Units, Budget!Cardinality, Cardinality,
       Budget!IsFiniteSet, IsFiniteSet

\* The counters of a row are the sums the budget would count anew.
LEMMA BudgetRowAfter ==
    ASSUME TypeInv', Agree', NEW row \in Rows
    PROVE  /\ Cardinality(Budget!Counted(row)') = counter'[row].calls_reserved
           /\ Total(Budget!Counted(row)', Budget!Amount')
                = counter'[row].cost + counter'[row].cost_reserved
<1> DEFINE held == Counted(res', row, Held)
           settled == Counted(res', row, {"settled"})
           all == Counted(res', row, Charged)
<1>1. Cardinality(all) = counter'[row].calls_reserved
  BY DEF Agree, CallsAgree, InRow
<1>2. all = held \cup settled /\ held \cap settled = {}
  BY DEF Counted, Charged, Held
<1>3. \A id \in held : /\ Budget!Amount'[id] = BoundOf'[id]
                       /\ BoundOf'[id] \in Nat
  <2>1. \A id \in held : id \in Reservations /\ res'[id].state # "settled"
    BY DEF Counted, Held
  <2>2. \A id \in Reservations : res'[id].bound \in Nat
    BY DEF TypeInv, ReservationRecord
  <2>3. QED
    BY <2>1, <2>2, GrantedFields, BudgetIds DEF Budget!Amount, BoundOf
<1>4. \A id \in settled : /\ Budget!Amount'[id] = ChargeOf'[id]
                          /\ ChargeOf'[id] \in Nat
  <2>1. \A id \in settled : id \in Reservations /\ res'[id].state = "settled"
    BY DEF Counted
  <2>2. \A id \in Reservations : ChargeOf'[id] \in Nat
    <3> SUFFICES ASSUME NEW id \in Reservations
                 PROVE  ChargeOf'[id] \in Nat
      OBVIOUS
    <3>1. ledger'[id] \in Seq(Event)
      BY DEF TypeInv
    <3>2. CASE ledger'[id] = <<>>
      BY <3>2 DEF ChargeOf
    <3>3. CASE ledger'[id] # <<>>
      <4>1. ledger'[id][1] \in Event
        BY <3>1, <3>3
      <4>2. QED
        BY <3>3, <4>1 DEF ChargeOf, Event
    <3>4. QED
      BY <3>2, <3>3
  <2>3. QED
    BY <2>1, <2>2, GrantedFields, BudgetIds DEF Budget!Amount
<1>5. IsFiniteSet(held) /\ IsFiniteSet(settled)
  <2>1. held \subseteq Reservations /\ settled \subseteq Reservations
    BY DEF Counted
  <2>2. QED
    BY <2>1, FiniteReservations, FS_Subset
<1>6. /\ counter'[row].cost_reserved = Total(held, BoundOf')
      /\ counter'[row].cost = Total(settled, ChargeOf')
  BY DEF Agree, CostsAgree, InRow
<1> HIDE DEF held, settled, all
<1>7. /\ Total(held, Budget!Amount') = Total(held, BoundOf')
      /\ Total(settled, Budget!Amount') = Total(settled, ChargeOf')
  BY <1>3, <1>4, TotalSame
<1>8. Total(all, Budget!Amount')
        = Total(held, Budget!Amount') + Total(settled, Budget!Amount')
  BY <1>2, <1>3, <1>4, <1>5, TotalUnion
<1>9. counter'[row].cost \in Int /\ counter'[row].cost_reserved \in Int
  BY DEF TypeInv, IntCounter
<1>10. Budget!Counted(row)' = all
  BY BudgetCountedAfter DEF all
<1>11. Total(Budget!Counted(row)', Budget!Amount')
         = counter'[row].cost + counter'[row].cost_reserved
  BY <1>6, <1>7, <1>8, <1>9, <1>10
<1>12. QED
  BY <1>1, <1>10, <1>11

\* What the four counter rows admitted, the budget admits.
LEMMA BudgetAdmits ==
    ASSUME TypeInv, TypeInv', Agree', NEW n, NEW cost, NEW rows,
           AddToRows(rows, n, 0, cost, 0), NEW row \in rows, row \in Rows,
           NEW q \in Requests, NEW lim \in LimitChoices,
           reading[q].daily = lim.daily, reading[q].monthly = lim.monthly,
           Admits(row, n, cost, reading[q]), cost \in Nat
    PROVE  Budget!Within(row, lim)'
<1>1. /\ counter'[row].calls_reserved = counter[row].calls_reserved + n
      /\ counter'[row].cost_reserved = counter[row].cost_reserved + cost
      /\ counter'[row].cost = counter[row].cost + 0
  BY RowUpdate
<1>2. counter[row].cost_reserved \in Int /\ counter[row].cost \in Int
  BY DEF TypeInv, IntCounter
<1>3. /\ row[1] = "global" /\ row[2][1] = "day"
           => counter'[row].calls_reserved <= GlobalDailyCalls
      /\ row[1] = "global" /\ row[2][1] = "month"
           => counter'[row].cost + counter'[row].cost_reserved
                <= MonthlyCostCeiling
      /\ row[1] # "global" /\ row[2][1] = "day"
           => counter'[row].calls_reserved <= lim.daily
      /\ row[1] # "global" /\ row[2][1] = "month"
           => counter'[row].calls_reserved <= lim.monthly
  BY <1>1, <1>2 DEF Admits
<1>4. QED
  BY <1>3, BudgetRowAfter, BudgetSums DEF Budget!Within

\* Rows that are inserted together are calls that are granted together.
LEMMA InsertGrants ==
    ASSUME TypeInv, TypeInv', Agree', LimitsRead, NEW q \in Requests,
           pc[q] \in {"reserve", "reserveRepair"},
           NEW New \in (SUBSET ({q} \X Calls)) \ {{}},
           \A id \in New : res[id].state = "none",
           \A id \in New : /\ res'[id].state = "reserved"
                           /\ res'[id].created = reading[q].now
                           /\ res'[id].bound \in Costs,
           \A id \in Reservations \ New : res'[id] = res[id],
           ledger' = ledger,
           NEW n, NEW cost \in Nat,
           AddToRows(RowsAt(UserOf[q], reading[q].now), n, 0, cost, 0),
           \A row \in RowsAt(UserOf[q], reading[q].now) :
              Admits(row, n, cost, reading[q])
    PROVE  Budget!Grant(q)
<1> DEFINE t == reading[q].now
           paid == [id \in New |-> res'[id].bound]
           after == [id \in Budget!Ids |->
                        IF id \in New
                        THEN [state |-> "reserved", amount |-> paid[id],
                              at |-> t]
                        ELSE Granted[id]]
<1>1. New \subseteq Reservations
  BY DEF Reservations
<1>2. t \in Instants /\ UserOf[q] \in Users
  BY UsersAssumption DEF TypeInv, Reading
<1>3. \A id \in New : Granted[id].state = "none"
  BY <1>1, GrantedFields
<1>4. paid \in [New -> Costs]
  OBVIOUS
<1>5. Granted' = after
  <2>1. ASSUME NEW id \in Reservations
        PROVE  Granted'[id] = after[id]
    <3>1. CASE id \in New
      <4>1. res'[id].state = "reserved" /\ res'[id].created = t
        BY <3>1
      <4>2. Granted'[id] = [state |-> "reserved", amount |-> res'[id].bound,
                            at |-> t]
        BY <4>1 DEF Granted
      <4>3. QED
        BY <3>1, <4>2, BudgetIds
    <3>2. CASE id \notin New
      <4>1. res'[id] = res[id] /\ ChargeOf'[id] = ChargeOf[id]
        BY <3>2 DEF ChargeOf
      <4>2. Granted'[id] = Granted[id]
        BY <4>1 DEF Granted
      <4>3. QED
        BY <3>2, <4>2, BudgetIds
    <3>3. QED
      BY <3>1, <3>2
  <2>2. Granted' = [id \in Reservations |-> Granted'[id]]
    BY DEF Granted
  <2> HIDE DEF paid
  <2>3. QED
    BY <2>1, <2>2, BudgetIds
<1>6. PICK lim \in LimitChoices :
        reading[q].daily = lim.daily /\ reading[q].monthly = lim.monthly
  BY DEF LimitsRead
<1>7. \A row \in Budget!RowsAt(UserOf[q], t) : Budget!Within(row, lim)'
  <2> SUFFICES ASSUME NEW row \in RowsAt(UserOf[q], t)
               PROVE  Budget!Within(row, lim)'
    BY BudgetRows
  <2>1. row \in Rows
    BY <1>2, RowsAtType
  <2>2. QED
    BY <1>6, <2>1, BudgetAdmits
<1> HIDE DEF t, paid
<1>8. QED
  BY <1>2, <1>3, <1>4, <1>5, <1>6, <1>7, BudgetIds DEF Budget!Grant

\* The two reservation transactions grant their calls or change nothing.
LEMMA ReserveGrants ==
    ASSUME IInv, IInv', LimitsRead, NEW q \in Requests,
           ReserveInitial(q) \/ ReserveRepair(q)
    PROVE  Budget!Grant(q) \/ Granted' = Granted
<1> USE DEF IInv
<1> DEFINE t == reading[q].now
           rows == RowsAt(UserOf[q], t)
<1>1. CASE ReserveInitial(q)
  <2>1. PICK b \in Bounds[Guard], d \in Bounds[Generator] :
          \/ /\ \A row \in rows : Admits(row, 2, b + d, reading[q])
             /\ AddToRows(rows, 2, 0, b + d, 0)
             /\ res' = [res EXCEPT ![<<q, Guard>>] = Reserved(b, t),
                                   ![<<q, Generator>>] = Reserved(d, t)]
          \/ res' = res
    BY <1>1 DEF ReserveInitial, ReserveQuota
  <2>2. ledger' = ledger /\ pc[q] = "reserve"
    BY <1>1 DEF ReserveInitial
  <2>3. CASE res' = res
    BY <2>2, <2>3 DEF Granted, ChargeOf
  <2>4. CASE /\ \A row \in rows : Admits(row, 2, b + d, reading[q])
             /\ AddToRows(rows, 2, 0, b + d, 0)
             /\ res' = [res EXCEPT ![<<q, Guard>>] = Reserved(b, t),
                                   ![<<q, Generator>>] = Reserved(d, t)]
    <3> DEFINE New == {<<q, Guard>>, <<q, Generator>>}
    <3>1. /\ b \in Nat /\ d \in Nat /\ b + d \in Nat
          /\ b \in Costs /\ d \in Costs
      BY CallsType, ConfigAssumption DEF Costs
    <3>2. New \in (SUBSET ({q} \X Calls)) \ {{}}
      BY CallsType
    <3>3. \A id \in New : res[id].state = "none"
      BY <2>2, CallsType DEF FreshCalls
    <3>4. /\ res'[<<q, Guard>>] = Reserved(b, t)
          /\ res'[<<q, Generator>>] = Reserved(d, t)
          /\ \A id \in Reservations \ New : res'[id] = res[id]
      <4>1. /\ <<q, Guard>> \in Reservations /\ <<q, Generator>> \in Reservations
            /\ <<q, Guard>> # <<q, Generator>>
        BY CallsType DEF Reservations, Guard, Generator
      <4>2. QED
        BY <2>4, <4>1 DEF TypeInv
    <3>5. \A id \in New : /\ res'[id].state = "reserved"
                          /\ res'[id].created = t
                          /\ res'[id].bound \in Costs
      BY <3>1, <3>4 DEF Reserved
    <3> HIDE DEF New
    <3>6. Budget!Grant(q)
      BY <2>2, <2>4, <3>1, <3>2, <3>3, <3>4, <3>5, InsertGrants
    <3>7. QED
      BY <3>6
  <2>5. QED
    BY <2>1, <2>3, <2>4
<1>2. CASE ReserveRepair(q)
  <2>1. PICK c \in Calls : c = call[q] + 1 /\ \E b \in Bounds[c] :
          \/ /\ \A row \in rows : Admits(row, 1, b, reading[q])
             /\ AddToRows(rows, 1, 0, b, 0)
             /\ res' = [res EXCEPT ![<<q, c>>] = Reserved(b, t)]
          \/ res' = res
    BY <1>2 DEF ReserveRepair, ReserveQuota
  <2>2. PICK b \in Bounds[c] :
          \/ /\ \A row \in rows : Admits(row, 1, b, reading[q])
             /\ AddToRows(rows, 1, 0, b, 0)
             /\ res' = [res EXCEPT ![<<q, c>>] = Reserved(b, t)]
          \/ res' = res
    BY <2>1
  <2>3. ledger' = ledger /\ pc[q] = "reserveRepair"
    BY <1>2 DEF ReserveRepair
  <2>4. CASE res' = res
    BY <2>3, <2>4 DEF Granted, ChargeOf
  <2>5. CASE /\ \A row \in rows : Admits(row, 1, b, reading[q])
             /\ AddToRows(rows, 1, 0, b, 0)
             /\ res' = [res EXCEPT ![<<q, c>>] = Reserved(b, t)]
    <3> DEFINE New == {<<q, c>>}
    <3>1. b \in Nat /\ b \in Costs
      BY ConfigAssumption DEF Costs
    <3>2. New \in (SUBSET ({q} \X Calls)) \ {{}}
      OBVIOUS
    <3>3. \A id \in New : res[id].state = "none"
      <4>1. c > Generator /\ c > call[q]
        BY <2>1, <2>3, ConfigAssumption DEF FreshCalls, Generator
      <4>2. QED
        BY <4>1 DEF FreshCalls
    <3>4. /\ res'[<<q, c>>] = Reserved(b, t)
          /\ \A id \in Reservations \ New : res'[id] = res[id]
      <4>1. <<q, c>> \in Reservations
        BY DEF Reservations
      <4>2. QED
        BY <2>5, <4>1 DEF TypeInv
    <3>5. \A id \in New : /\ res'[id].state = "reserved"
                          /\ res'[id].created = t
                          /\ res'[id].bound \in Costs
      BY <3>1, <3>4 DEF Reserved
    <3> HIDE DEF New
    <3>6. Budget!Grant(q)
      BY <2>3, <2>5, <3>1, <3>2, <3>3, <3>4, <3>5, InsertGrants
    <3>7. QED
      BY <3>6
  <2>6. QED
    BY <2>2, <2>4, <2>5
<1>3. QED
  BY <1>1, <1>2

\* A step that moves one reservation is seen as a step of its call alone.
LEMMA MoveSeen ==
    ASSUME NEW id \in Reservations, Moves(id)
    PROVE  Granted' = [Granted EXCEPT ![id] = Granted'[id]]
<1>1. \A x \in Reservations \ {id} : Granted'[x] = Granted[x]
  <2> SUFFICES ASSUME NEW x \in Reservations \ {id}
               PROVE  Granted'[x] = Granted[x]
    OBVIOUS
  <2>1. res'[x] = res[x] /\ ledger'[x] = ledger[x]
    BY DEF Moves
  <2>2. QED
    BY <2>1 DEF Granted, ChargeOf
<1>2. /\ Granted = [x \in Reservations |-> Granted[x]]
      /\ Granted' = [x \in Reservations |-> Granted'[x]]
  BY DEF Granted
<1>3. QED
  BY <1>1, <1>2

LEMMA SameSeen ==
    ASSUME NEW id \in Reservations, Moves(id),
           res'[id] = res[id], ledger'[id] = ledger[id]
    PROVE  Granted' = Granted
<1>1. \A x \in Reservations : res'[x] = res[x] /\ ledger'[x] = ledger[x]
  BY DEF Moves
<1>2. QED
  BY <1>1 DEF Granted, ChargeOf

\* A move between states other than "settled" keeps amount and time.
LEMMA StateSeen ==
    ASSUME TypeInv, NEW id \in Reservations, Moves(id), NEW s,
           res[id].state # "none", res[id].state # "settled",
           s # "settled", res'[id].state = s
    PROVE  /\ Granted[id].state = res[id].state
           /\ Granted' = [Granted EXCEPT ![id].state = s]
<1> DEFINE old == Granted[id]
<1>1. res[id] \in ReservationRecord
  BY DEF TypeInv
<1>2. /\ res'[id].bound = res[id].bound
      /\ res'[id].created = res[id].created
  BY <1>1 DEF Moves, LegalStep, ReservationRecord
<1>3. /\ old \in [state : {res[id].state}, amount : {res[id].bound},
                  at : {res[id].created}]
      /\ Granted'[id] = [state |-> s, amount |-> res[id].bound,
                         at |-> res[id].created]
  BY <1>2 DEF Granted
<1> HIDE DEF old
<1>4. Granted'[id] = [old EXCEPT !.state = s]
  BY <1>3
<1>5. QED
  BY <1>4, MoveSeen, GrantedFields DEF old

\* A release gives the call back, or changes nothing.
LEMMA ReleaseSeen ==
    ASSUME TypeInv, NEW id \in Reservations, ReleaseReservation(id)
    PROVE  Budget!Return(id) \/ Granted' = Granted
<1>1. CASE res[id].state = "reserved" /\ res'[id].state = "released"
  BY <1>1, ReleaseMoves, StateSeen DEF Budget!Return
<1>2. CASE res'[id] = res[id]
  BY <1>2, ReleaseMoves, SameSeen
<1>3. QED
  BY <1>1, <1>2, ReleaseMoves

LEMMA UnknownSeen ==
    ASSUME TypeInv, NEW id \in Reservations, MarkUnknown(id)
    PROVE  Budget!GiveUp(id) \/ Granted' = Granted
<1>1. CASE res[id].state = "started" /\ res'[id].state = "unknown"
  BY <1>1, UnknownMoves, StateSeen DEF Budget!GiveUp
<1>2. CASE res'[id] = res[id] /\ ledger'[id] = ledger[id]
  BY <1>2, UnknownMoves, SameSeen
<1>3. QED
  BY <1>1, <1>2, UnknownMoves

LEMMA StartSeen ==
    ASSUME TypeInv, NEW q \in Requests, StartCall(q)
    PROVE  Budget!Send(<<q, call[q]>>)
<1>1. <<q, call[q]>> \in Reservations
  BY DEF TypeInv, Reservations
<1>2. QED
  BY <1>1, StartMoves, StateSeen DEF Budget!Send

\* A settlement charges what the ledger row says, which is a price of the call.
LEMMA SettleSeen ==
    ASSUME IInv, Priced, NEW q \in Requests, pc[q] = "settle",
           SettleReservation(<<q, call[q]>>, outcome[q])
    PROVE  Budget!Charge(<<q, call[q]>>) \/ Granted' = Granted
<1> USE DEF IInv
<1> DEFINE id == <<q, call[q]>>
           cost == SettledCost(id, outcome[q])
<1>1. id \in Reservations /\ call[q] \in Calls
  BY DEF TypeInv, Reservations
<1>2. Moves(id)
  BY <1>1, SettleMoves
<1>3. CASE /\ res[id].state = "started" /\ res'[id].state = "settled"
           /\ ledger'[id] = Append(ledger[id],
                [status |-> outcome[q].status, cost |-> cost])
  <2>1. cost \in Costs
    <3>1. CASE outcome[q].status = "ok" /\ outcome[q].cost > 0
      <4>1. cost \in ReportedCosts[call[q]]
        BY <3>1 DEF SettledCost, Priced, PricedAnswers
      <4>2. QED
        BY <1>1, <4>1 DEF Costs
    <3>2. CASE ~(outcome[q].status = "ok" /\ outcome[q].cost > 0)
      <4>1. cost \in Bounds[call[q]]
        BY <1>1, <1>3, <3>2 DEF SettledCost, Priced, PricedRows
      <4>2. QED
        BY <1>1, <4>1 DEF Costs
    <3>3. QED
      BY <3>1, <3>2
  <2>2. ledger[id] = <<>>
    BY <1>1, <1>3 DEF OneEventPerCall
  <2>3. ChargeOf'[id] = cost
    <3> HIDE DEF cost, id
    <3> DEFINE e == [status |-> outcome[q].status, cost |-> cost]
    <3>1. ledger'[id] = Append(<<>>, e)
      BY <1>3, <2>2
    <3>2. e.cost = cost
      OBVIOUS
    <3> HIDE DEF e
    <3>3. ledger'[id] # <<>> /\ ledger'[id][1] = e
      BY <3>1
    <3>4. QED
      BY <1>1, <3>2, <3>3 DEF ChargeOf
  <2>4. res'[id].created = res[id].created
    <3>1. res[id] \in ReservationRecord
      BY <1>1 DEF TypeInv
    <3>2. QED
      BY <1>2, <1>3, <3>1 DEF Moves, LegalStep, ReservationRecord
  <2> HIDE DEF cost, id
  <2>5. Granted'[id] = [state |-> "settled", amount |-> cost,
                        at |-> Granted[id].at]
    BY <1>1, <1>3, <2>3, <2>4 DEF Granted
  <2>6. Granted' = [Granted EXCEPT
           ![id] = [state |-> "settled", amount |-> cost, at |-> Granted[id].at]]
    BY <1>1, <1>2, <2>5, MoveSeen
  <2>7. Granted[id].state = "started"
    BY <1>1, <1>3, GrantedFields
  <2>8. Budget!Charge(id)
    BY <2>1, <2>6, <2>7 DEF Budget!Charge
  <2>9. QED
    BY <2>8 DEF id
<1>4. CASE res'[id] = res[id] /\ ledger'[id] = ledger[id]
  BY <1>1, <1>2, <1>4, SameSeen
<1>5. QED
  BY <1>1, <1>3, <1>4, SettleMoves

\* Every step of the system is a step of the budget or changes nothing of it.
LEMMA StepSeen ==
    ASSUME IInv, IInv', LimitsRead, Priced, [Next]_vars
    PROVE  [Budget!Next]_Granted
<1> USE DEF IInv
<1>1. ASSUME NEW q \in Requests, Worker(q) \/ Crash(q)
      PROVE  [Budget!Next]_Granted
  <2>1. <<q, call[q]>> \in Reservations
    BY DEF TypeInv, Reservations
  <2>2. CASE ReserveInitial(q) \/ ReserveRepair(q)
    BY <2>2, ReserveGrants DEF Budget!Next
  <2>3. CASE PreflightFails(q)
    BY <2>1, <2>3, ReleaseSeen, BudgetIds DEF PreflightFails, Budget!Next
  <2>4. CASE StartCall(q)
    BY <2>1, <2>4, StartSeen, BudgetIds DEF Budget!Next
  <2>5. CASE SettleCall(q)
    BY <2>1, <2>5, SettleSeen, BudgetIds DEF SettleCall, Budget!Next
  <2>6. CASE ReleaseNext(q)
    <3>1. PICK c \in todo[q] : ReleaseReservation(<<q, c>>)
      BY <2>6 DEF ReleaseNext
    <3>2. <<q, c>> \in Reservations
      BY DEF TypeInv, Reservations
    <3>3. QED
      BY <3>1, <3>2, ReleaseSeen, BudgetIds DEF Budget!Next
  <2>7. CASE res' = res /\ ledger' = ledger
    BY <2>7 DEF Granted, ChargeOf
  <2>8. QED
    BY <1>1, <2>2, <2>3, <2>4, <2>5, <2>6, <2>7
       DEF Worker, ReadLimits, StartRefused, ProviderReturns, ReadDownstream,
           FinishRelease, Crash, dbVars
<1>2. ASSUME NEW r \in Reconcilers, ReconcileNext(r)
      PROVE  [Budget!Next]_Granted
  <2>1. PICK entry \in batch[r] :
          ReleaseReservation(entry[1]) \/ MarkUnknown(entry[1])
    BY <1>2 DEF ReconcileNext
  <2>2. entry[1] \in Reservations
    BY DEF TypeInv
  <2>3. QED
    BY <2>1, <2>2, ReleaseSeen, UnknownSeen, BudgetIds DEF Budget!Next
<1>3. CASE res' = res /\ ledger' = ledger
  BY <1>3 DEF Granted, ChargeOf
<1>4. QED
  BY <1>1, <1>2, <1>3
     DEF Next, Reconciler, ReadStale, ReconcilerCrash, Tick, ChangeLimits,
         vars, dbVars

\* For any requests, prices, limits and windows, the four counter rows, the
\* ledger, the workers and the reconciliation job together behave as the
\* budget: every call is granted under limits of its user that the sums over
\* all calls respect at that moment, returned only if it was not sent, and
\* counted once it was.
THEOREM Implementation == Spec => ImplementsBudget
<1> DEFINE Inv == IInv /\ LimitsRead /\ Priced
<1>1. Init => Inv
  BY InitInv DEF Init, LimitsRead, Priced, PricedRows, PricedAnswers,
                 NoReservation
<1>2. Inv /\ [Next]_vars => Inv'
  BY StepInv, LimitsReadStep, PricedRowsStep, PricedAnswersStep DEF Priced
<1>3. Init => Budget!Init
  BY BudgetIds DEF Init, Budget!Init, Budget!NoGrant, Granted, NoReservation
<1>4. Inv /\ Inv' /\ [Next]_vars => [Budget!Next]_Granted
  BY StepSeen
<1> HIDE DEF Inv
<1>5. QED
  BY <1>1, <1>2, <1>3, <1>4, PTL DEF Spec, ImplementsBudget, Budget!Spec
=============================================================================
