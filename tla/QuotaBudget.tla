----------------------------- MODULE QuotaBudget -----------------------------
(***************************************************************************)
(* What the usage quota promises, without counters, ledger, workers or a   *)
(* reconciliation job: a table of grants, and budgets that are sums over   *)
(* the whole table.  All the calls a request reserves together are granted *)
(* in one step, only if every day and month they fall in, counted anew     *)
(* from the table, stays within its limits.  A granted call is given back  *)
(* only if it was never sent; once sent it stays in its budgets, at what   *)
(* it cost or, if nobody knows, at what it could have cost.                *)
(***************************************************************************)
EXTENDS QuotaWindows, FiniteSets, Tally

CONSTANTS
    Requests,           \* the requests that may be granted calls
    Calls,              \* the calls of a request
    UserOf,             \* the user who sent each request
    Costs,              \* what a call may be held or charged at
    LimitChoices,       \* the limits a user may have
    GlobalDailyCalls,   \* the calls of all users together in a day
    MonthlyCostCeiling  \* the cost of all users together in a month

VARIABLE grant          \* grant[id]: the state, amount and time of call id

Ids == Requests \X Calls
NoGrant == [state |-> "none", amount |-> 0, at |-> 0]

\* The calls that count in a row: all that were granted and not given back.
Counted(row) ==
    {id \in Ids : /\ grant[id].state \notin {"none", "released"}
                  /\ row \in RowsAt(UserOf[id[1]], grant[id].at)}
Amount == [id \in Ids |-> grant[id].amount]

\* Only cost is limited in a month of all users, only calls elsewhere.
Within(row, lim) ==
    /\ row[1] = "global" /\ row[2][1] = "day"
         => Cardinality(Counted(row)) <= GlobalDailyCalls
    /\ row[1] = "global" /\ row[2][1] = "month"
         => Total(Counted(row), Amount) <= MonthlyCostCeiling
    /\ row[1] # "global" /\ row[2][1] = "day"
         => Cardinality(Counted(row)) <= lim.daily
    /\ row[1] # "global" /\ row[2][1] = "month"
         => Cardinality(Counted(row)) <= lim.monthly

Init == grant = [id \in Ids |-> NoGrant]

\* Request q is granted calls it had not been granted before, all at once.
Grant(q) ==
    \E ids \in (SUBSET ({q} \X Calls)) \ {{}} :
        /\ \A id \in ids : grant[id].state = "none"
        /\ \E t \in Instants :
             /\ \E cost \in [ids -> Costs] :
                  grant' = [id \in Ids |->
                              IF id \in ids
                              THEN [state |-> "reserved", amount |-> cost[id],
                                    at |-> t]
                              ELSE grant[id]]
             /\ \E lim \in LimitChoices :
                  \A row \in RowsAt(UserOf[q], t) : Within(row, lim)'

\* The call will not be made.
Return(id) ==
    /\ grant[id].state = "reserved"
    /\ grant' = [grant EXCEPT ![id].state = "released"]

\* The call is about to be made.
Send(id) ==
    /\ grant[id].state = "reserved"
    /\ grant' = [grant EXCEPT ![id].state = "started"]

\* The call was made: from now on it counts at its cost.
Charge(id) ==
    /\ grant[id].state = "started"
    /\ \E cost \in Costs :
         grant' = [grant EXCEPT
                     ![id] = [state |-> "settled", amount |-> cost, at |-> @.at]]

\* Whether the call was made will never be known.
GiveUp(id) ==
    /\ grant[id].state = "started"
    /\ grant' = [grant EXCEPT ![id].state = "unknown"]

Next ==
    \/ \E q \in Requests : Grant(q)
    \/ \E id \in Ids : Return(id) \/ Send(id) \/ Charge(id) \/ GiveUp(id)

Spec == Init /\ [][Next]_grant
=============================================================================
