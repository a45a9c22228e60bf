---------------------------- MODULE QuotaWindows ----------------------------
(***************************************************************************)
(* The windows quota is counted in (app/modules/llm): UTC days and months, *)
(* for every user and for all users together.  One counter row stands for  *)
(* each scope and window.                                                  *)
(***************************************************************************)
EXTENDS Integers

CONSTANTS
    Users,              \* authenticated users
    TicksPerDay,        \* length of a UTC day, in ticks
    TicksPerMonth,      \* length of a UTC month, in ticks
    MaxClock            \* bound: the model's clock stops here

Instants == 0 .. MaxClock

\* get_window_dates: the UTC day and month an instant lies in.
DayStart(t) == <<"day", t - (t % TicksPerDay)>>
MonthStart(t) == <<"month", t - (t % TicksPerMonth)>>

Scopes == Users \cup {"global"}
Windows == {DayStart(t) : t \in Instants} \cup {MonthStart(t) : t \in Instants}
Rows == Scopes \X Windows

\* The four rows a call of user u reserved at instant t is counted in.
RowsAt(u, t) == {"global", u} \X {DayStart(t), MonthStart(t)}

\* A user's daily and monthly limits on calls.
Limits == [daily : Nat, monthly : Nat]
=============================================================================
