--------------------------- MODULE LlmUsageProofs ---------------------------
(***************************************************************************)
(* Proofs about LlmUsage for any number of users, requests, repairs and    *)
(* reconcilers, any prices, limits and window lengths.                     *)
(***************************************************************************)
EXTENDS LlmUsage, CountingLemmas

IntCounter == [calls_reserved : Int, calls_settled : Int,
               cost_reserved : Int, cost : Int]

\* TypeOK with counters that might be negative: that they are not follows
\* only from their agreement with the reservations and the ledger.
TypeInv ==
    /\ clock \in Instants
    /\ configured \in SUBSET {"guard", "generator"}
    /\ limits \in [Users -> LimitChoices]
    /\ res \in [Reservations -> ReservationRecord]
    /\ ledger \in [Reservations -> Seq(Event)]
    /\ counter \in [Rows -> IntCounter]
    /\ pc \in [Requests -> Labels]
    /\ call \in [Requests -> Calls]
    /\ reading \in [Requests -> Reading]
    /\ outcome \in [Requests -> Outcome]
    /\ todo \in [Requests -> SUBSET Calls]
    /\ batch \in [Reconcilers -> SUBSET (Reservations \X Open)]

\* Which reservations a request can already have, by the step it is at: none
\* before its first transaction, no repair beyond the current call.
FreshCalls ==
    \A q \in Requests :
        /\ pc[q] \in {"idle", "reserve"} =>
             call[q] = Guard /\ \A c \in Calls : res[<<q, c>>].state = "none"
        /\ pc[q] \in {"repair", "reserveRepair"} => call[q] \in 1 .. MaxRepairs
        /\ \A c \in Calls :
             c > Generator /\ c > call[q] => res[<<q, c>>].state = "none"

\* A worker about to settle has an answer to settle with.
Answered ==
    \A q \in Requests : pc[q] = "settle" => outcome[q].status # "none"

Agree == CallsAgree /\ CostsAgree

\* A reservation only moves forward: a started one is never released, and a
\* closed one is never reopened, settled again or given another bound.
LegalStep(from, to) ==
    \/ to = from
    \/ from.state = "none" /\ to.state = "reserved"
    \/ /\ to = [from EXCEPT !.state = to.state]
       /\ <<from.state, to.state>> \in
            {<<"reserved", "started">>, <<"reserved", "released">>,
             <<"started", "settled">>, <<"started", "unknown">>}

ForwardOnly == [][\A id \in Reservations : LegalStep(res[id], res'[id])]_res

\* The inductive invariant.
IInv ==
    /\ TypeInv
    /\ FreshCalls
    /\ Answered
    /\ Agree
    /\ OneEventPerCall
    /\ SentIsCharged

-----------------------------------------------------------------------------
(* Rows and reservations.                                                   *)

\* The rows a user's calls are counted in are rows of the table.
LEMMA RowsAtType ==
    ASSUME NEW u \in Users, NEW t \in Instants
    PROVE  RowsAt(u, t) \subseteq Rows
BY DEF RowsAt, Rows, Scopes, Windows

LEMMA CallsType == /\ Guard \in Calls /\ Generator \in Calls
                   /\ Calls \subseteq Nat
BY ConfigAssumption DEF Guard, Generator, Calls

LEMMA RowsOfType ==
    ASSUME TypeInv, NEW id \in Reservations
    PROVE  RowsOf(id) \subseteq Rows
<1>1. id[1] \in Requests /\ UserOf[id[1]] \in Users
  BY UsersAssumption DEF Reservations
<1>2. res[id].created \in Instants
  BY DEF TypeInv, ReservationRecord
<1>3. QED
  BY <1>1, <1>2, RowsAtType DEF RowsOf

LEMMA FiniteReservations ==
    /\ IsFiniteSet(Reservations)
    /\ \A r, row, states : IsFiniteSet(Counted(r, row, states))
<1>1. IsFiniteSet(Calls)
  <2>1. MaxRepairs + 1 \in Int /\ 0 \in Int
    BY ConfigAssumption
  <2>2. QED
    BY <2>1, FS_Interval DEF Calls
<1>2. IsFiniteSet(Reservations)
  BY <1>1, UsersAssumption, FS_Product DEF Reservations
<1>3. \A r, row, states : Counted(r, row, states) \in SUBSET Reservations
  BY DEF Counted
<1>4. QED
  BY <1>2, <1>3, FS_Subset

-----------------------------------------------------------------------------
(* Type correctness, action by action.                                      *)

\* An update of counter rows by integers keeps the columns integers.
LEMMA CounterType ==
    ASSUME TypeInv, NEW rows, NEW n \in Int, NEW k \in Int, NEW m \in Int,
           NEW c \in Int, AddToRows(rows, n, k, m, c)
    PROVE  counter' \in [Rows -> IntCounter]
BY DEF AddToRows, TypeInv, IntCounter

\* Changing the state of a reservation row keeps it a reservation row.
LEMMA MoveType ==
    ASSUME TypeInv, NEW id \in Reservations, NEW s \in States,
           res' = [res EXCEPT ![id].state = s]
    PROVE  res' \in [Reservations -> ReservationRecord]
<1>1. res[id] \in ReservationRecord
  BY DEF TypeInv
<1>2. [res[id] EXCEPT !.state = s] \in ReservationRecord
  BY <1>1 DEF ReservationRecord
<1>3. QED
  BY <1>2 DEF TypeInv

LEMMA ReleaseType ==
    ASSUME TypeInv, NEW id \in Reservations, ReleaseReservation(id)
    PROVE  /\ res' \in [Reservations -> ReservationRecord]
           /\ ledger' = ledger
           /\ counter' \in [Rows -> IntCounter]
<1>1. CASE res[id].state = "reserved"
  <2>1. res[id].bound \in Int
    BY DEF TypeInv, ReservationRecord
  <2>2. counter' \in [Rows -> IntCounter]
    BY <1>1, <2>1, CounterType DEF ReleaseReservation, ReleaseQuota
  <2>3. res' \in [Reservations -> ReservationRecord]
    BY <1>1, MoveType DEF ReleaseReservation, States
  <2>4. QED
    BY <1>1, <2>2, <2>3 DEF ReleaseReservation
<1>2. CASE res[id].state # "reserved"
  BY <1>2 DEF ReleaseReservation, TypeInv, dbVars
<1>3. QED
  BY <1>1, <1>2

LEMMA SettleType ==
    ASSUME TypeInv, NEW id \in Reservations, NEW q \in Requests,
           outcome[q].status # "none", SettleReservation(id, outcome[q])
    PROVE  /\ res' \in [Reservations -> ReservationRecord]
           /\ ledger' \in [Reservations -> Seq(Event)]
           /\ counter' \in [Rows -> IntCounter]
<1> DEFINE o == outcome[q]
<1>1. o \in Outcome /\ res[id].bound \in Nat /\ ledger[id] \in Seq(Event)
  BY DEF TypeInv, ReservationRecord
<1>2. SettledCost(id, o) \in Nat
  BY <1>1 DEF SettledCost, Outcome
<1>3. CASE res[id].state = "started"
  <2>1. res' \in [Reservations -> ReservationRecord]
    BY <1>3, MoveType DEF SettleReservation, States
  <2>2. counter' \in [Rows -> IntCounter]
    <3>1. SettleQuota(RowsOf(id), res[id].bound, SettledCost(id, o))
      BY <1>3 DEF SettleReservation
    <3>2. -res[id].bound \in Int /\ SettledCost(id, o) \in Int
      BY <1>1, <1>2
    <3>3. QED
      BY <3>1, <3>2, CounterType DEF SettleQuota
  <2>3. [status |-> o.status, cost |-> SettledCost(id, o)] \in Event
    BY <1>1, <1>2 DEF Event, Outcome
  <2>4. ledger' \in [Reservations -> Seq(Event)]
    <3> DEFINE e == [status |-> o.status, cost |-> SettledCost(id, o)]
    <3>1. ledger' = [ledger EXCEPT ![id] = Append(ledger[id], e)]
      BY <1>3 DEF SettleReservation
    <3>2. Append(ledger[id], e) \in Seq(Event)
      BY <1>1, <2>3
    <3>3. QED
      BY <3>1, <3>2 DEF TypeInv
  <2>5. QED
    BY <2>1, <2>2, <2>4
<1>4. CASE res[id].state # "started"
  BY <1>4 DEF SettleReservation, TypeInv, dbVars
<1>5. QED
  BY <1>3, <1>4

LEMMA UnknownType ==
    ASSUME TypeInv, NEW id \in Reservations, MarkUnknown(id)
    PROVE  /\ res' \in [Reservations -> ReservationRecord]
           /\ ledger' \in [Reservations -> Seq(Event)]
           /\ counter' = counter
<1>1. CASE res[id].state = "started"
  <2>1. res' \in [Reservations -> ReservationRecord]
    BY <1>1, MoveType DEF MarkUnknown, States
  <2>2. [status |-> "unknown", cost |-> res[id].bound] \in Event
    BY DEF TypeInv, ReservationRecord, Event
  <2>3. ledger[id] \in Seq(Event)
    BY DEF TypeInv
  <2>4. ledger' \in [Reservations -> Seq(Event)]
    <3> DEFINE e == [status |-> "unknown", cost |-> res[id].bound]
    <3>1. ledger' = [ledger EXCEPT ![id] = Append(ledger[id], e)]
      BY <1>1 DEF MarkUnknown
    <3>2. Append(ledger[id], e) \in Seq(Event)
      BY <2>2, <2>3
    <3>3. QED
      BY <3>1, <3>2 DEF TypeInv
  <2>5. QED
    BY <1>1, <2>1, <2>4 DEF MarkUnknown
<1>2. CASE res[id].state # "started"
  BY <1>2 DEF MarkUnknown, TypeInv, dbVars
<1>3. QED
  BY <1>1, <1>2

-----------------------------------------------------------------------------
(* How the reservations a row counts change with one state change.          *)

LEMMA BoundOfType ==
    ASSUME TypeInv
    PROVE  \A id \in Reservations : BoundOf[id] \in Nat
BY DEF BoundOf, TypeInv, ReservationRecord

LEMMA ChargeOfType ==
    ASSUME TypeInv
    PROVE  \A id \in Reservations : ChargeOf[id] \in Nat
<1> SUFFICES ASSUME NEW id \in Reservations
             PROVE  ChargeOf[id] \in Nat
  OBVIOUS
<1>1. ledger[id] \in Seq(Event)
  BY DEF TypeInv
<1>2. CASE ledger[id] # <<>>
  <2>1. Len(ledger[id]) \in Nat \ {0}
    BY <1>1, <1>2
  <2>2. ledger[id][1] \in Event
    BY <1>1, <2>1
  <2>3. QED
    BY <1>2, <2>2 DEF ChargeOf, Event
<1>3. QED
  BY <1>2 DEF ChargeOf

\* A reservation that changes state keeps its bound and its four rows.
LEMMA MoveOne ==
    ASSUME TypeInv, NEW id \in Reservations, NEW s,
           res' = [res EXCEPT ![id].state = s]
    PROVE  /\ res'[id].state = s
           /\ \A x \in Reservations :
                /\ res'[x].created = res[x].created
                /\ res'[x].bound = res[x].bound
                /\ x # id => res'[x] = res[x]
BY DEF TypeInv, ReservationRecord

LEMMA MoveKeepsBounds ==
    ASSUME TypeInv, NEW id \in Reservations, NEW s,
           res' = [res EXCEPT ![id].state = s]
    PROVE  BoundOf' = BoundOf
<1>1. \A x \in Reservations : res'[x].bound = res[x].bound
  BY DEF TypeInv, ReservationRecord
<1>2. QED
  BY <1>1 DEF BoundOf

\* What AddToRows does to one row.
LEMMA RowUpdate ==
    ASSUME TypeInv, NEW rows, NEW n, NEW k, NEW h, NEW c,
           AddToRows(rows, n, k, h, c), NEW row \in Rows
    PROVE  /\ row \in rows =>
                /\ counter'[row].calls_reserved = counter[row].calls_reserved + n
                /\ counter'[row].calls_settled = counter[row].calls_settled + k
                /\ counter'[row].cost_reserved = counter[row].cost_reserved + h
                /\ counter'[row].cost = counter[row].cost + c
           /\ row \notin rows => counter'[row] = counter[row]
BY DEF AddToRows

\* Starting a call, or closing a started one as unknown, changes no sum: it
\* was charged and held before and is so after.
LEMMA HeldMove ==
    ASSUME TypeInv, NEW id \in Reservations, res[id].state \in Held,
           NEW s \in Held, res' = [res EXCEPT ![id].state = s]
    PROVE  \A row :
             /\ Counted(res', row, Charged) = Counted(res, row, Charged)
             /\ Counted(res', row, Held) = Counted(res, row, Held)
             /\ Counted(res', row, {"settled"}) = Counted(res, row, {"settled"})
<1>1. \A x \in Reservations :
         /\ res'[x].created = res[x].created
         /\ res'[x].state \in Charged <=> res[x].state \in Charged
         /\ res'[x].state \in Held <=> res[x].state \in Held
         /\ res'[x].state \in {"settled"} <=> res[x].state \in {"settled"}
  BY MoveOne DEF Charged, Held
<1>2. QED
  BY <1>1 DEF Counted

LEMMA StartAgrees ==
    ASSUME TypeInv, Agree, NEW id \in Reservations,
           res[id].state = "reserved",
           res' = [res EXCEPT ![id].state = "started"],
           ledger' = ledger, counter' = counter
    PROVE  Agree'
<1>1. \A row : /\ Counted(res', row, Charged) = Counted(res, row, Charged)
               /\ Counted(res', row, Held) = Counted(res, row, Held)
               /\ Counted(res', row, {"settled"}) = Counted(res, row, {"settled"})
  <2>1. res[id].state \in Held /\ "started" \in Held
    BY DEF Held
  <2>2. QED
    BY <2>1, HeldMove
<1>2. BoundOf' = BoundOf /\ ChargeOf' = ChargeOf
  BY MoveKeepsBounds DEF ChargeOf
<1>3. QED
  BY <1>1, <1>2 DEF Agree, CallsAgree, CostsAgree, InRow

LEMMA UnknownAgrees ==
    ASSUME TypeInv, Agree, NEW id \in Reservations, MarkUnknown(id)
    PROVE  Agree'
<1>1. CASE res[id].state = "started"
  <2>1. res' = [res EXCEPT ![id].state = "unknown"] /\ counter' = counter
    BY <1>1 DEF MarkUnknown
  <2>2. \A row : /\ Counted(res', row, Charged) = Counted(res, row, Charged)
                 /\ Counted(res', row, Held) = Counted(res, row, Held)
                 /\ Counted(res', row, {"settled"}) = Counted(res, row, {"settled"})
    <3>1. res[id].state \in Held /\ "unknown" \in Held
      BY <1>1 DEF Held
    <3>2. QED
      BY <1>1, <2>1, <3>1, HeldMove
  <2>3. BoundOf' = BoundOf
    BY <2>1, MoveKeepsBounds
  <2>4. \A row : \A x \in Counted(res, row, {"settled"}) : ChargeOf'[x] = ChargeOf[x]
    <3>1. \A x \in Reservations : x # id => ledger'[x] = ledger[x]
      BY <1>1 DEF MarkUnknown, TypeInv
    <3>2. QED
      BY <1>1, <3>1 DEF Counted, ChargeOf
  <2>5. \A row : Total(Counted(res, row, {"settled"}), ChargeOf')
                 = Total(Counted(res, row, {"settled"}), ChargeOf)
    BY <2>4, TotalSame
  <2>6. QED
    BY <2>1, <2>2, <2>3, <2>5 DEF Agree, CallsAgree, CostsAgree, InRow
<1>2. CASE res[id].state # "started"
  <2>1. res' = res /\ ledger' = ledger /\ counter' = counter
    BY <1>2 DEF MarkUnknown, dbVars
  <2>2. QED
    BY <2>1 DEF Agree, CallsAgree, CostsAgree, InRow, BoundOf, ChargeOf
<1>3. QED
  BY <1>1, <1>2

\* A released reservation leaves the rows it was counted in.
LEMMA ReleasedCounted ==
    ASSUME TypeInv, NEW id \in Reservations, res[id].state = "reserved",
           res' = [res EXCEPT ![id].state = "released"]
    PROVE  \A row :
             /\ row \in RowsOf(id) <=> id \in Counted(res, row, Charged)
             /\ row \in RowsOf(id) <=> id \in Counted(res, row, Held)
             /\ Counted(res', row, Charged) = Counted(res, row, Charged) \ {id}
             /\ Counted(res', row, Held) = Counted(res, row, Held) \ {id}
             /\ Counted(res', row, {"settled"}) = Counted(res, row, {"settled"})
<1>1. \A row : /\ row \in RowsOf(id) <=> id \in Counted(res, row, Charged)
               /\ row \in RowsOf(id) <=> id \in Counted(res, row, Held)
  BY DEF Counted, RowsOf, Charged, Held
<1>2. \A x \in Reservations :
         /\ res'[x].created = res[x].created
         /\ res'[x].state \in Charged <=> res[x].state \in Charged /\ x # id
         /\ res'[x].state \in Held <=> res[x].state \in Held /\ x # id
         /\ res'[x].state \in {"settled"} <=> res[x].state \in {"settled"}
  <2>1. /\ res'[id].state = "released"
        /\ \A x \in Reservations : /\ res'[x].created = res[x].created
                                   /\ x # id => res'[x] = res[x]
    BY MoveOne
  <2>2. QED
    BY <2>1 DEF Charged, Held
<1>3. QED
  BY <1>1, <1>2 DEF Counted

LEMMA ReleaseAgrees ==
    ASSUME TypeInv, Agree, NEW id \in Reservations, ReleaseReservation(id)
    PROVE  Agree'
<1>1. CASE res[id].state = "reserved"
  <2>1. /\ res' = [res EXCEPT ![id].state = "released"]
        /\ ledger' = ledger
        /\ AddToRows(RowsOf(id), -1, 0, -res[id].bound, 0)
    BY <1>1 DEF ReleaseReservation, ReleaseQuota
  <2>2. BoundOf' = BoundOf /\ ChargeOf' = ChargeOf
    BY <2>1, MoveKeepsBounds DEF ChargeOf
  <2>3. SUFFICES ASSUME NEW row \in Rows
                 PROVE  /\ counter'[row].calls_reserved
                              = Cardinality(Counted(res', row, Charged))
                        /\ counter'[row].calls_settled
                              = Cardinality(Counted(res', row, {"settled"}))
                        /\ counter'[row].cost_reserved
                              = Total(Counted(res', row, Held), BoundOf)
                        /\ counter'[row].cost
                              = Total(Counted(res', row, {"settled"}), ChargeOf)
    BY <2>2 DEF Agree, CallsAgree, CostsAgree, InRow
  <2>4. /\ counter[row] \in IntCounter
        /\ counter[row].calls_reserved = Cardinality(Counted(res, row, Charged))
        /\ counter[row].calls_settled = Cardinality(Counted(res, row, {"settled"}))
        /\ counter[row].cost_reserved = Total(Counted(res, row, Held), BoundOf)
        /\ counter[row].cost = Total(Counted(res, row, {"settled"}), ChargeOf)
    BY DEF Agree, CallsAgree, CostsAgree, InRow, TypeInv
  <2>5. /\ row \in RowsOf(id) <=> id \in Counted(res, row, Charged)
        /\ row \in RowsOf(id) <=> id \in Counted(res, row, Held)
        /\ Counted(res', row, Charged) = Counted(res, row, Charged) \ {id}
        /\ Counted(res', row, Held) = Counted(res, row, Held) \ {id}
        /\ Counted(res', row, {"settled"}) = Counted(res, row, {"settled"})
    BY <1>1, <2>1, ReleasedCounted
  <2>6. CASE row \in RowsOf(id)
    <3>1. /\ counter'[row].calls_reserved = counter[row].calls_reserved - 1
          /\ counter'[row].calls_settled = counter[row].calls_settled
          /\ counter'[row].cost_reserved = counter[row].cost_reserved - res[id].bound
          /\ counter'[row].cost = counter[row].cost
      <4>1. res[id].bound \in Int
        BY DEF TypeInv, ReservationRecord
      <4>2. QED
        BY <2>1, <2>4, <2>6, <4>1, RowUpdate DEF IntCounter
    <3>2. Cardinality(Counted(res, row, Charged) \ {id})
            = Cardinality(Counted(res, row, Charged)) - 1
      BY <2>5, <2>6, FiniteReservations, FS_RemoveElement
    <3>3. Total(Counted(res, row, Held) \ {id}, BoundOf)
            = Total(Counted(res, row, Held), BoundOf) - BoundOf[id]
      <4>1. id \in Counted(res, row, Held) /\ IsFiniteSet(Counted(res, row, Held))
        BY <2>5, <2>6, FiniteReservations
      <4>2. \A y \in Counted(res, row, Held) : BoundOf[y] \in Nat
        BY BoundOfType DEF Counted
      <4>3. QED
        BY <4>1, <4>2, TotalRemove
    <3>4. BoundOf[id] = res[id].bound
      BY DEF BoundOf
    <3>5. QED
      BY <2>4, <2>5, <3>1, <3>2, <3>3, <3>4
  <2>7. CASE row \notin RowsOf(id)
    <3>1. counter'[row] = counter[row]
      BY <2>1, <2>7, RowUpdate
    <3>2. QED
      BY <2>4, <2>5, <2>7, <3>1
  <2>8. QED
    BY <2>6, <2>7
<1>2. CASE res[id].state # "reserved"
  <2>1. res' = res /\ ledger' = ledger /\ counter' = counter
    BY <1>2 DEF ReleaseReservation, dbVars
  <2>2. QED
    BY <2>1 DEF Agree, CallsAgree, CostsAgree, InRow, BoundOf, ChargeOf
<1>3. QED
  BY <1>1, <1>2

\* A settled reservation is charged as before; the ledger's cost replaces the
\* bound it held.
LEMMA SettledCounted ==
    ASSUME TypeInv, NEW id \in Reservations, res[id].state = "started",
           res' = [res EXCEPT ![id].state = "settled"]
    PROVE  \A row :
             /\ row \in RowsOf(id) <=> id \in Counted(res, row, Held)
             /\ id \notin Counted(res, row, {"settled"})
             /\ Counted(res', row, Charged) = Counted(res, row, Charged)
             /\ Counted(res', row, Held) = Counted(res, row, Held) \ {id}
             /\ row \in RowsOf(id) =>
                  Counted(res', row, {"settled"})
                    = Counted(res, row, {"settled"}) \cup {id}
             /\ row \notin RowsOf(id) =>
                  Counted(res', row, {"settled"}) = Counted(res, row, {"settled"})
<1>1. \A row : /\ row \in RowsOf(id) <=> id \in Counted(res, row, Held)
               /\ id \notin Counted(res, row, {"settled"})
  BY DEF Counted, RowsOf, Held
<1>2. \A x \in Reservations :
         /\ res'[x].created = res[x].created
         /\ res'[x].state \in Charged <=> res[x].state \in Charged
         /\ res'[x].state \in Held <=> res[x].state \in Held /\ x # id
         /\ res'[x].state \in {"settled"} <=> res[x].state \in {"settled"} \/ x = id
  <2>1. /\ res'[id].state = "settled"
        /\ \A x \in Reservations : /\ res'[x].created = res[x].created
                                   /\ x # id => res'[x] = res[x]
    BY MoveOne
  <2>2. QED
    BY <2>1 DEF Charged, Held
<1>3. \A row : row \in RowsOf(id) <=> row \in RowsAt(UserOf[id[1]], res[id].created)
  BY DEF RowsOf
<1>4. QED
  BY <1>1, <1>2, <1>3 DEF Counted

LEMMA SettleAgrees ==
    ASSUME TypeInv, Agree, OneEventPerCall, NEW id \in Reservations,
           NEW o \in Outcome, SettleReservation(id, o)
    PROVE  Agree'
<1> DEFINE charge == SettledCost(id, o)
<1>0. charge \in Nat /\ res[id].bound \in Nat
  BY DEF SettledCost, Outcome, TypeInv, ReservationRecord
<1>1. CASE res[id].state = "started"
  <2>1. /\ res' = [res EXCEPT ![id].state = "settled"]
        /\ ledger' = [ledger EXCEPT ![id] =
                         Append(ledger[id], [status |-> o.status, cost |-> charge])]
        /\ AddToRows(RowsOf(id), 0, 1, -res[id].bound, charge)
    BY <1>1 DEF SettleReservation, SettleQuota
  <2>2. BoundOf' = BoundOf
    BY <2>1, MoveKeepsBounds
  <2>3. /\ ChargeOf'[id] = charge
        /\ \A x \in Reservations : x # id => ChargeOf'[x] = ChargeOf[x]
    <3>1. ledger[id] = <<>>
      BY <1>1 DEF OneEventPerCall
    <3>2. /\ ledger'[id] = <<[status |-> o.status, cost |-> charge]>>
          /\ \A x \in Reservations : x # id => ledger'[x] = ledger[x]
      BY <2>1, <3>1 DEF TypeInv
    <3> HIDE DEF charge
    <3>3. ChargeOf'[id] = charge
      BY <3>2 DEF ChargeOf
    <3>4. QED
      BY <3>2, <3>3 DEF ChargeOf
  <2> HIDE DEF charge
  <2>4. SUFFICES ASSUME NEW row \in Rows
                 PROVE  /\ counter'[row].calls_reserved
                              = Cardinality(Counted(res', row, Charged))
                        /\ counter'[row].calls_settled
                              = Cardinality(Counted(res', row, {"settled"}))
                        /\ counter'[row].cost_reserved
                              = Total(Counted(res', row, Held), BoundOf)
                        /\ counter'[row].cost
                              = Total(Counted(res', row, {"settled"}), ChargeOf')
    BY <2>2 DEF Agree, CallsAgree, CostsAgree, InRow
  <2>5. /\ counter[row] \in IntCounter
        /\ counter[row].calls_reserved = Cardinality(Counted(res, row, Charged))
        /\ counter[row].calls_settled = Cardinality(Counted(res, row, {"settled"}))
        /\ counter[row].cost_reserved = Total(Counted(res, row, Held), BoundOf)
        /\ counter[row].cost = Total(Counted(res, row, {"settled"}), ChargeOf)
    BY DEF Agree, CallsAgree, CostsAgree, InRow, TypeInv
  <2>6. /\ row \in RowsOf(id) <=> id \in Counted(res, row, Held)
        /\ id \notin Counted(res, row, {"settled"})
        /\ Counted(res', row, Charged) = Counted(res, row, Charged)
        /\ Counted(res', row, Held) = Counted(res, row, Held) \ {id}
        /\ row \in RowsOf(id) =>
             Counted(res', row, {"settled"}) = Counted(res, row, {"settled"}) \cup {id}
        /\ row \notin RowsOf(id) =>
             Counted(res', row, {"settled"}) = Counted(res, row, {"settled"})
    BY <1>1, <2>1, SettledCounted
  <2>7. Total(Counted(res, row, {"settled"}), ChargeOf')
          = Total(Counted(res, row, {"settled"}), ChargeOf)
    <3>1. \A x \in Counted(res, row, {"settled"}) : ChargeOf'[x] = ChargeOf[x]
      BY <2>3, <2>6 DEF Counted
    <3>2. QED
      BY <3>1, TotalSame
  <2>8. CASE row \in RowsOf(id)
    <3>1. /\ counter'[row].calls_reserved = counter[row].calls_reserved
          /\ counter'[row].calls_settled = counter[row].calls_settled + 1
          /\ counter'[row].cost_reserved = counter[row].cost_reserved - res[id].bound
          /\ counter'[row].cost = counter[row].cost + charge
      BY <1>0, <2>1, <2>5, <2>8, RowUpdate DEF IntCounter
    <3>2. Cardinality(Counted(res, row, {"settled"}) \cup {id})
            = Cardinality(Counted(res, row, {"settled"})) + 1
      BY <2>6, FiniteReservations, FS_AddElement
    <3>3. Total(Counted(res, row, Held) \ {id}, BoundOf)
            = Total(Counted(res, row, Held), BoundOf) - BoundOf[id]
      <4>1. id \in Counted(res, row, Held) /\ IsFiniteSet(Counted(res, row, Held))
        BY <2>6, <2>8, FiniteReservations
      <4>2. \A y \in Counted(res, row, Held) : BoundOf[y] \in Nat
        BY BoundOfType DEF Counted
      <4>3. QED
        BY <4>1, <4>2, TotalRemove
    <3>4. BoundOf[id] = res[id].bound
      BY DEF BoundOf
    <3>5. Total(Counted(res, row, {"settled"}) \cup {id}, ChargeOf')
            = Total(Counted(res, row, {"settled"}), ChargeOf') + charge
      <4>1. \A y \in Counted(res, row, {"settled"}) \cup {id} : ChargeOf'[y] \in Nat
        BY <1>0, <2>3, ChargeOfType DEF Counted
      <4>2. IsFiniteSet(Counted(res, row, {"settled"}))
        BY FiniteReservations
      <4>3. id \notin Counted(res, row, {"settled"}) /\ ChargeOf'[id] = charge
        BY <2>3, <2>6
      <4>4. Total(Counted(res, row, {"settled"}) \cup {id}, ChargeOf')
              = Total(Counted(res, row, {"settled"}), ChargeOf') + ChargeOf'[id]
        BY <4>1, <4>2, <4>3, TotalAdd
      <4>5. QED
        BY <4>3, <4>4
    <3>6. QED
      BY <2>5, <2>6, <2>7, <2>8, <3>1, <3>2, <3>3, <3>4, <3>5
  <2>9. CASE row \notin RowsOf(id)
    <3>1. counter'[row] = counter[row]
      BY <2>1, <2>9, RowUpdate
    <3>2. QED
      BY <2>5, <2>6, <2>7, <2>9, <3>1
  <2>10. QED
    BY <2>8, <2>9
<1>2. CASE res[id].state # "started"
  <2>1. res' = res /\ ledger' = ledger /\ counter' = counter
    BY <1>2 DEF SettleReservation, dbVars
  <2>2. QED
    BY <2>1 DEF Agree, CallsAgree, CostsAgree, InRow, BoundOf, ChargeOf
<1>3. QED
  BY <1>1, <1>2

\* The reservations New, of user u and instant t, join what row counts.
InsertedIn(row, New, u, t) ==
    /\ Counted(res', row, {"settled"}) = Counted(res, row, {"settled"})
    /\ New \cap Counted(res, row, Charged) = {}
    /\ New \cap Counted(res, row, Held) = {}
    /\ row \in RowsAt(u, t) =>
         /\ Counted(res', row, Charged) = Counted(res, row, Charged) \cup New
         /\ Counted(res', row, Held) = Counted(res, row, Held) \cup New
    /\ row \notin RowsAt(u, t) =>
         /\ Counted(res', row, Charged) = Counted(res, row, Charged)
         /\ Counted(res', row, Held) = Counted(res, row, Held)

\* What inserting new reservation rows does to what a counter row counts.
LEMMA InsertCounted ==
    ASSUME TypeInv, NEW New, New \subseteq Reservations, NEW u \in Users, NEW t,
           \A id \in New : UserOf[id[1]] = u /\ res[id].state = "none",
           \A id \in New : res'[id].state = "reserved" /\ res'[id].created = t,
           \A id \in Reservations \ New : res'[id] = res[id]
    PROVE  \A row : InsertedIn(row, New, u, t)
<1> SUFFICES ASSUME NEW row
             PROVE  InsertedIn(row, New, u, t)
  OBVIOUS
<1>1. \A x \in New : /\ res[x].state \notin Charged \cup Held \cup {"settled"}
                      /\ res'[x].state \in Charged \cap Held
                      /\ res'[x].state \notin {"settled"}
  BY DEF Charged, Held
<1>2. /\ Counted(res', row, Charged) \ New = Counted(res, row, Charged) \ New
      /\ Counted(res', row, Held) \ New = Counted(res, row, Held) \ New
      /\ Counted(res', row, {"settled"}) \ New
           = Counted(res, row, {"settled"}) \ New
  BY DEF Counted
<1>3. /\ New \cap Counted(res, row, Charged) = {}
      /\ New \cap Counted(res, row, Held) = {}
      /\ New \cap Counted(res, row, {"settled"}) = {}
      /\ New \cap Counted(res', row, {"settled"}) = {}
  BY <1>1 DEF Counted
<1>4. row \in RowsAt(u, t) =>
        /\ New \subseteq Counted(res', row, Charged)
        /\ New \subseteq Counted(res', row, Held)
  BY <1>1 DEF Counted
<1>5. row \notin RowsAt(u, t) =>
        /\ New \cap Counted(res', row, Charged) = {}
        /\ New \cap Counted(res', row, Held) = {}
  BY <1>1 DEF Counted
<1>6. Counted(res', row, {"settled"}) = Counted(res, row, {"settled"})
  BY <1>2, <1>3
<1>7. CASE row \in RowsAt(u, t)
  <2>1. Counted(res', row, Charged) = Counted(res, row, Charged) \cup New
    BY <1>2, <1>4, <1>7
  <2>2. Counted(res', row, Held) = Counted(res, row, Held) \cup New
    BY <1>2, <1>4, <1>7
  <2>3. QED
    BY <1>3, <1>6, <1>7, <2>1, <2>2 DEF InsertedIn
<1>8. CASE row \notin RowsAt(u, t)
  <2>1. Counted(res', row, Charged) = Counted(res, row, Charged)
    <3>1. /\ New \cap Counted(res, row, Charged) = {}
          /\ New \cap Counted(res', row, Charged) = {}
          /\ Counted(res', row, Charged) \ New = Counted(res, row, Charged) \ New
      BY <1>2, <1>3, <1>5, <1>8
    <3>2. QED
      BY <3>1
  <2>2. Counted(res', row, Held) = Counted(res, row, Held)
    <3>1. /\ New \cap Counted(res, row, Held) = {}
          /\ New \cap Counted(res', row, Held) = {}
          /\ Counted(res', row, Held) \ New = Counted(res, row, Held) \ New
      BY <1>2, <1>3, <1>5, <1>8
    <3>2. QED
      BY <3>1
  <2>3. QED
    BY <1>3, <1>6, <1>8, <2>1, <2>2 DEF InsertedIn
<1>9. QED
  BY <1>7, <1>8

\* The initial reservation: two rows are inserted, two calls and both bounds
\* are added to each of the four counter rows.
LEMMA ReserveTwoAgrees ==
    ASSUME TypeInv, Agree, NEW q \in Requests, NEW t \in Instants,
           NEW b \in Nat, NEW d \in Nat,
           res[<<q, Guard>>].state = "none", res[<<q, Generator>>].state = "none",
           res' = [res EXCEPT ![<<q, Guard>>] = Reserved(b, t),
                              ![<<q, Generator>>] = Reserved(d, t)],
           AddToRows(RowsAt(UserOf[q], t), 2, 0, b + d, 0),
           ledger' = ledger
    PROVE  Agree'
<1> DEFINE x == <<q, Guard>>
           y == <<q, Generator>>
           rows == RowsAt(UserOf[q], t)
<1>1. x \in Reservations /\ y \in Reservations /\ x # y
  BY CallsType DEF Reservations, Guard, Generator
<1>2. UserOf[q] \in Users
  BY UsersAssumption
<1>3. /\ res'[x] = Reserved(b, t) /\ res'[y] = Reserved(d, t)
      /\ \A id \in Reservations \ {x, y} : res'[id] = res[id]
  BY <1>1 DEF TypeInv
<1>4. /\ BoundOf'[x] = b /\ BoundOf'[y] = d
      /\ \A id \in Reservations \ {x, y} : BoundOf'[id] = BoundOf[id]
  <2>1. res'[x].bound = b /\ res'[y].bound = d
    BY <1>3 DEF Reserved
  <2>2. \A id \in Reservations : BoundOf[id] = res[id].bound
                                /\ BoundOf'[id] = res'[id].bound
    BY DEF BoundOf
  <2>3. BoundOf'[x] = b /\ BoundOf'[y] = d
    BY <1>1, <2>1, <2>2
  <2>4. \A id \in Reservations \ {x, y} : BoundOf'[id] = BoundOf[id]
    BY <1>3, <2>2
  <2>5. QED
    BY <2>3, <2>4
<1>5. ChargeOf' = ChargeOf
  BY DEF ChargeOf
<1>6. \A row :
        /\ Counted(res', row, {"settled"}) = Counted(res, row, {"settled"})
        /\ {x, y} \cap Counted(res, row, Charged) = {}
        /\ {x, y} \cap Counted(res, row, Held) = {}
        /\ row \in rows =>
             /\ Counted(res', row, Charged) = Counted(res, row, Charged) \cup {x, y}
             /\ Counted(res', row, Held) = Counted(res, row, Held) \cup {x, y}
        /\ row \notin rows =>
             /\ Counted(res', row, Charged) = Counted(res, row, Charged)
             /\ Counted(res', row, Held) = Counted(res, row, Held)
  <2>1. \A id \in {x, y} : UserOf[id[1]] = UserOf[q] /\ res[id].state = "none"
    OBVIOUS
  <2>2. \A id \in {x, y} : res'[id].state = "reserved" /\ res'[id].created = t
    BY <1>3 DEF Reserved
  <2>3. {x, y} \subseteq Reservations
    BY <1>1
  <2> DEFINE New == {x, y}
  <2>4. /\ New \subseteq Reservations
        /\ \A id \in New : UserOf[id[1]] = UserOf[q] /\ res[id].state = "none"
        /\ \A id \in New : res'[id].state = "reserved" /\ res'[id].created = t
        /\ \A id \in Reservations \ New : res'[id] = res[id]
    BY <1>3, <2>1, <2>2, <2>3
  <2> HIDE DEF New
  <2>5. \A row : InsertedIn(row, New, UserOf[q], t)
    BY <1>2, <2>4, InsertCounted
  <2>6. QED
    BY <2>5 DEF New, InsertedIn
<1> HIDE DEF x, y
<1>7. SUFFICES ASSUME NEW row \in Rows
               PROVE  /\ counter'[row].calls_reserved
                            = Cardinality(Counted(res', row, Charged))
                      /\ counter'[row].calls_settled
                            = Cardinality(Counted(res', row, {"settled"}))
                      /\ counter'[row].cost_reserved
                            = Total(Counted(res', row, Held), BoundOf')
                      /\ counter'[row].cost
                            = Total(Counted(res', row, {"settled"}), ChargeOf)
  BY <1>5 DEF Agree, CallsAgree, CostsAgree, InRow
<1>8. /\ counter[row] \in IntCounter
      /\ counter[row].calls_reserved = Cardinality(Counted(res, row, Charged))
      /\ counter[row].calls_settled = Cardinality(Counted(res, row, {"settled"}))
      /\ counter[row].cost_reserved = Total(Counted(res, row, Held), BoundOf)
      /\ counter[row].cost = Total(Counted(res, row, {"settled"}), ChargeOf)
  BY DEF Agree, CallsAgree, CostsAgree, InRow, TypeInv
<1>9. /\ IsFiniteSet(Counted(res, row, Held))
      /\ IsFiniteSet(Counted(res, row, Charged))
  BY FiniteReservations
<1>10. Total(Counted(res, row, Held), BoundOf') = Total(Counted(res, row, Held), BoundOf)
  <2>1. \A id \in Counted(res, row, Held) : BoundOf'[id] = BoundOf[id]
    BY <1>4, <1>6 DEF Counted
  <2>2. QED
    BY <2>1, TotalSame
<1>11. CASE row \in rows
  <2>1. /\ counter'[row].calls_reserved = counter[row].calls_reserved + 2
        /\ counter'[row].calls_settled = counter[row].calls_settled
        /\ counter'[row].cost_reserved = counter[row].cost_reserved + (b + d)
        /\ counter'[row].cost = counter[row].cost
    BY <1>8, <1>11, RowUpdate DEF IntCounter
  <2>2. Cardinality(Counted(res', row, Charged))
          = Cardinality(Counted(res, row, Charged)) + 2
    <3> DEFINE S == Counted(res, row, Charged)
    <3>1. x \notin S /\ y \notin S \cup {x} /\ IsFiniteSet(S)
      BY <1>1, <1>6, <1>9
    <3>2. Counted(res', row, Charged) = (S \cup {x}) \cup {y}
      BY <1>6, <1>11
    <3> HIDE DEF S
    <3>3. /\ IsFiniteSet(S \cup {x})
          /\ Cardinality(S \cup {x}) = Cardinality(S) + 1
      BY <3>1, FS_AddElement
    <3>4. Cardinality((S \cup {x}) \cup {y}) = Cardinality(S \cup {x}) + 1
      BY <3>1, <3>3, FS_AddElement
    <3>5. Cardinality(S) \in Nat
      BY <3>1, FS_CardinalityType
    <3>6. Cardinality((S \cup {x}) \cup {y}) = Cardinality(S) + 2
      BY <3>3, <3>4, <3>5
    <3>7. QED
      BY <3>2, <3>6 DEF S
  <2>3. Total(Counted(res', row, Held), BoundOf')
          = Total(Counted(res, row, Held), BoundOf) + (b + d)
    <3> DEFINE S == Counted(res, row, Held)
    <3>1. x \notin S /\ y \notin S \cup {x} /\ IsFiniteSet(S)
      BY <1>1, <1>6, <1>9
    <3>2. Counted(res', row, Held) = (S \cup {x}) \cup {y}
      BY <1>6, <1>11
    <3>3. \A id \in (S \cup {x}) \cup {y} : BoundOf'[id] \in Nat
      BY <1>4, BoundOfType DEF Counted
    <3> HIDE DEF S
    <3>4. Total(S \cup {x}, BoundOf') = Total(S, BoundOf') + BoundOf'[x]
      BY <3>1, <3>3, TotalAdd
    <3>5. IsFiniteSet(S \cup {x})
      BY <3>1, FS_AddElement
    <3>6. Total((S \cup {x}) \cup {y}, BoundOf')
            = Total(S \cup {x}, BoundOf') + BoundOf'[y]
      BY <3>1, <3>3, <3>5, TotalAdd
    <3>7. Total(S, BoundOf') \in Nat
      BY <3>1, <3>3, TotalType
    <3>8. Total((S \cup {x}) \cup {y}, BoundOf') = Total(S, BoundOf') + (b + d)
      BY <1>4, <3>4, <3>6, <3>7
    <3>9. QED
      BY <1>10, <3>2, <3>8 DEF S
  <2>4. QED
    BY <1>6, <1>8, <2>1, <2>2, <2>3
<1>12. CASE row \notin rows
  <2>1. counter'[row] = counter[row]
    BY <1>12, RowUpdate
  <2>2. QED
    BY <1>6, <1>8, <1>10, <1>12, <2>1
<1>13. QED
  BY <1>11, <1>12

\* A repair reservation: the same for one row.
LEMMA ReserveOneAgrees ==
    ASSUME TypeInv, Agree, NEW q \in Requests, NEW c \in Calls,
           NEW t \in Instants, NEW b \in Nat,
           res[<<q, c>>].state = "none",
           res' = [res EXCEPT ![<<q, c>>] = Reserved(b, t)],
           AddToRows(RowsAt(UserOf[q], t), 1, 0, b, 0),
           ledger' = ledger
    PROVE  Agree'
<1> DEFINE x == <<q, c>>
           rows == RowsAt(UserOf[q], t)
<1>1. x \in Reservations
  BY DEF Reservations
<1>2. UserOf[q] \in Users
  BY UsersAssumption
<1>3. /\ res'[x] = Reserved(b, t)
      /\ \A id \in Reservations \ {x} : res'[id] = res[id]
  BY <1>1 DEF TypeInv
<1>4. /\ BoundOf'[x] = b
      /\ \A id \in Reservations \ {x} : BoundOf'[id] = BoundOf[id]
  BY <1>1, <1>3 DEF BoundOf, Reserved
<1>5. ChargeOf' = ChargeOf
  BY DEF ChargeOf
<1>6. \A row :
        /\ Counted(res', row, {"settled"}) = Counted(res, row, {"settled"})
        /\ {x} \cap Counted(res, row, Charged) = {}
        /\ {x} \cap Counted(res, row, Held) = {}
        /\ row \in rows =>
             /\ Counted(res', row, Charged) = Counted(res, row, Charged) \cup {x}
             /\ Counted(res', row, Held) = Counted(res, row, Held) \cup {x}
        /\ row \notin rows =>
             /\ Counted(res', row, Charged) = Counted(res, row, Charged)
             /\ Counted(res', row, Held) = Counted(res, row, Held)
  <2>1. \A id \in {x} : UserOf[id[1]] = UserOf[q] /\ res[id].state = "none"
    OBVIOUS
  <2>2. \A id \in {x} : res'[id].state = "reserved" /\ res'[id].created = t
    BY <1>3 DEF Reserved
  <2>3. {x} \subseteq Reservations
    BY <1>1
  <2> DEFINE New == {x}
  <2>4. /\ New \subseteq Reservations
        /\ \A id \in New : UserOf[id[1]] = UserOf[q] /\ res[id].state = "none"
        /\ \A id \in New : res'[id].state = "reserved" /\ res'[id].created = t
        /\ \A id \in Reservations \ New : res'[id] = res[id]
    BY <1>3, <2>1, <2>2, <2>3
  <2> HIDE DEF New
  <2>5. \A row : InsertedIn(row, New, UserOf[q], t)
    BY <1>2, <2>4, InsertCounted
  <2>6. QED
    BY <2>5 DEF New, InsertedIn
<1> HIDE DEF x
<1>7. SUFFICES ASSUME NEW row \in Rows
               PROVE  /\ counter'[row].calls_reserved
                            = Cardinality(Counted(res', row, Charged))
                      /\ counter'[row].calls_settled
                            = Cardinality(Counted(res', row, {"settled"}))
                      /\ counter'[row].cost_reserved
                            = Total(Counted(res', row, Held), BoundOf')
                      /\ counter'[row].cost
                            = Total(Counted(res', row, {"settled"}), ChargeOf)
  BY <1>5 DEF Agree, CallsAgree, CostsAgree, InRow
<1>8. /\ counter[row] \in IntCounter
      /\ counter[row].calls_reserved = Cardinality(Counted(res, row, Charged))
      /\ counter[row].calls_settled = Cardinality(Counted(res, row, {"settled"}))
      /\ counter[row].cost_reserved = Total(Counted(res, row, Held), BoundOf)
      /\ counter[row].cost = Total(Counted(res, row, {"settled"}), ChargeOf)
  BY DEF Agree, CallsAgree, CostsAgree, InRow, TypeInv
<1>9. /\ IsFiniteSet(Counted(res, row, Held))
      /\ IsFiniteSet(Counted(res, row, Charged))
  BY FiniteReservations
<1>10. Total(Counted(res, row, Held), BoundOf') = Total(Counted(res, row, Held), BoundOf)
  <2>1. \A id \in Counted(res, row, Held) : BoundOf'[id] = BoundOf[id]
    BY <1>4, <1>6 DEF Counted
  <2>2. QED
    BY <2>1, TotalSame
<1>11. CASE row \in rows
  <2>1. /\ counter'[row].calls_reserved = counter[row].calls_reserved + 1
        /\ counter'[row].calls_settled = counter[row].calls_settled
        /\ counter'[row].cost_reserved = counter[row].cost_reserved + b
        /\ counter'[row].cost = counter[row].cost
    BY <1>8, <1>11, RowUpdate DEF IntCounter
  <2>2. Cardinality(Counted(res, row, Charged) \cup {x})
          = Cardinality(Counted(res, row, Charged)) + 1
    <3>1. x \notin Counted(res, row, Charged)
      BY <1>6
    <3>2. QED
      BY <1>9, <3>1, FS_AddElement
  <2>3. Total(Counted(res, row, Held) \cup {x}, BoundOf')
          = Total(Counted(res, row, Held), BoundOf') + b
    <3>1. x \notin Counted(res, row, Held)
      BY <1>6
    <3>2. \A id \in Counted(res, row, Held) \cup {x} : BoundOf'[id] \in Nat
      BY <1>4, BoundOfType DEF Counted
    <3>3. Total(Counted(res, row, Held) \cup {x}, BoundOf')
            = Total(Counted(res, row, Held), BoundOf') + BoundOf'[x]
      BY <1>9, <3>1, <3>2, TotalAdd
    <3>4. QED
      BY <1>4, <3>3
  <2>4. QED
    BY <1>6, <1>8, <1>10, <1>11, <2>1, <2>2, <2>3
<1>12. CASE row \notin rows
  <2>1. counter'[row] = counter[row]
    BY <1>12, RowUpdate
  <2>2. QED
    BY <1>6, <1>8, <1>10, <1>12, <2>1
<1>13. QED
  BY <1>11, <1>12

-----------------------------------------------------------------------------
(* The steps of Next preserve types.                                        *)

LEMMA InitType ==
    ASSUME Init
    PROVE  TypeInv
<1>1. NoReservation \in ReservationRecord
  BY ConfigAssumption DEF NoReservation, ReservationRecord, States, Instants
<1>2. ZeroCounter \in IntCounter
  BY DEF ZeroCounter, IntCounter
<1>3. clock \in Instants /\ NoReading \in Reading
  BY ConfigAssumption DEF Init, NoReading, Reading, Instants
<1>4. NoOutcome \in Outcome
  BY DEF NoOutcome, Outcome
<1>5. <<>> \in Seq(Event)
  OBVIOUS
<1>6. "idle" \in Labels
  BY DEF Labels
<1>7. QED
  BY <1>1, <1>2, <1>3, <1>4, <1>5, <1>6, CallsType DEF Init, TypeInv

LEMMA ReservedType ==
    ASSUME NEW b \in Nat, NEW t \in Instants
    PROVE  Reserved(b, t) \in ReservationRecord
BY DEF Reserved, ReservationRecord, States

LEMMA BoundsType ==
    ASSUME NEW c \in Calls
    PROVE  /\ Bounds[c] \subseteq Nat \ {0}
           /\ ReportedCosts[c] \subseteq Nat \ {0}
BY ConfigAssumption

LEMMA WorkerType ==
    ASSUME TypeInv, Answered, NEW q \in Requests, Worker(q) \/ Crash(q)
    PROVE  TypeInv'
<1>0. /\ clock' \in Instants
      /\ configured' \in SUBSET {"guard", "generator"}
      /\ limits' \in [Users -> LimitChoices]
      /\ batch' \in [Reconcilers -> SUBSET (Reservations \X Open)]
  <2>1. UNCHANGED <<envVars, batch>>
    BY DEF Worker, ReadLimits, ReserveInitial, ReserveRepair, PreflightFails,
           StartCall, StartRefused, ProviderReturns, SettleCall,
           ReadDownstream, ReleaseNext, FinishRelease, Crash
  <2>2. QED
    BY <2>1 DEF TypeInv, envVars
<1> DEFINE Data == /\ res' \in [Reservations -> ReservationRecord]
                   /\ ledger' \in [Reservations -> Seq(Event)]
                   /\ counter' \in [Rows -> IntCounter]
           Flow == /\ pc' \in [Requests -> Labels]
                   /\ call' \in [Requests -> Calls]
                   /\ reading' \in [Requests -> Reading]
                   /\ outcome' \in [Requests -> Outcome]
                   /\ todo' \in [Requests -> SUBSET Calls]
<1> SUFFICES Data /\ Flow
  BY <1>0 DEF TypeInv
<1>1. UNCHANGED dbVars => Data
  BY DEF dbVars, TypeInv
<1>2. <<q, call[q]>> \in Reservations /\ call[q] \in Calls
  BY DEF TypeInv, Reservations
<1>3. \A label \in Labels : Goto(q, label) => pc' \in [Requests -> Labels]
  BY DEF Goto, TypeInv
<1>4. NoReading \in Reading /\ NoOutcome \in Outcome
  BY ConfigAssumption DEF NoReading, Reading, Instants, NoOutcome, Outcome
<1>5. CASE ReadLimits(q)
  <2>1. limits[UserOf[q]] \in Limits
    BY UsersAssumption, ConfigAssumption DEF TypeInv
  <2>2. [now |-> clock, daily |-> limits[UserOf[q]].daily,
         monthly |-> limits[UserOf[q]].monthly] \in Reading
    BY <2>1 DEF TypeInv, Limits, Reading
  <2>3. pc' \in [Requests -> Labels]
    BY <1>3, <1>5 DEF ReadLimits, Labels
  <2>4. QED
    BY <1>1, <1>5, <2>2, <2>3 DEF ReadLimits, TypeInv
<1>6. CASE ReserveInitial(q)
  <2>1. reading[q].now \in Instants
    BY DEF TypeInv, Reading
  <2>2. pc' \in [Requests -> Labels]
    BY <1>3, <1>6 DEF ReserveInitial, Labels
  <2>3. Flow
    BY <1>4, <1>6, <2>2 DEF ReserveInitial, TypeInv
  <2>4. PICK b \in Bounds[Guard], d \in Bounds[Generator] :
          \/ /\ AddToRows(RowsAt(UserOf[q], reading[q].now), 2, 0, b + d, 0)
             /\ res' = [res EXCEPT ![<<q, Guard>>] = Reserved(b, reading[q].now),
                                   ![<<q, Generator>>] = Reserved(d, reading[q].now)]
          \/ UNCHANGED <<res, counter>>
    BY <1>6 DEF ReserveInitial, ReserveQuota
  <2>5. b \in Nat /\ d \in Nat
    BY BoundsType, CallsType
  <2>6. res' \in [Reservations -> ReservationRecord]
    <3>1. /\ Reserved(b, reading[q].now) \in ReservationRecord
          /\ Reserved(d, reading[q].now) \in ReservationRecord
      BY <2>1, <2>5, ReservedType
    <3>2. res \in [Reservations -> ReservationRecord]
      BY DEF TypeInv
    <3>3. QED
      BY <2>4, <3>1, <3>2
  <2>7. counter' \in [Rows -> IntCounter]
    BY <2>4, <2>5, CounterType DEF TypeInv
  <2>8. QED
    BY <1>6, <2>3, <2>6, <2>7 DEF ReserveInitial, TypeInv
<1>7. CASE ReserveRepair(q)
  <2>1. reading[q].now \in Instants
    BY DEF TypeInv, Reading
  <2>2. pc' \in [Requests -> Labels]
    BY <1>3, <1>7 DEF ReserveRepair, Labels
  <2>3. PICK c \in Calls : \E b \in Bounds[c] :
          \/ /\ AddToRows(RowsAt(UserOf[q], reading[q].now), 1, 0, b, 0)
             /\ res' = [res EXCEPT ![<<q, c>>] = Reserved(b, reading[q].now)]
             /\ call' = [call EXCEPT ![q] = c]
          \/ UNCHANGED <<res, counter, call>>
    BY <1>7 DEF ReserveRepair, ReserveQuota
  <2>4. Flow
    <3>1. call' \in [Requests -> Calls]
      BY <2>3 DEF TypeInv
    <3>2. /\ reading' \in [Requests -> Reading]
          /\ outcome' = outcome /\ todo' = todo
      BY <1>4, <1>7 DEF ReserveRepair, TypeInv
    <3>3. QED
      BY <2>2, <3>1, <3>2 DEF TypeInv
  <2>5. PICK b \in Nat :
          \/ /\ AddToRows(RowsAt(UserOf[q], reading[q].now), 1, 0, b, 0)
             /\ res' = [res EXCEPT ![<<q, c>>] = Reserved(b, reading[q].now)]
          \/ UNCHANGED <<res, counter>>
    BY <2>3, BoundsType
  <2>6. res' \in [Reservations -> ReservationRecord]
    BY <2>1, <2>5, ReservedType DEF TypeInv
  <2>7. counter' \in [Rows -> IntCounter]
    BY <2>5, CounterType DEF TypeInv
  <2>8. QED
    BY <1>7, <2>4, <2>6, <2>7 DEF ReserveRepair, TypeInv
<1>8. CASE PreflightFails(q)
  <2>1. Data
    BY <1>2, <1>8, ReleaseType DEF PreflightFails, TypeInv
  <2>2. pc' \in [Requests -> Labels]
    BY <1>3, <1>8 DEF PreflightFails, Labels
  <2>3. todo' \in [Requests -> SUBSET Calls]
    BY <1>8, CallsType DEF PreflightFails, TypeInv
  <2>4. QED
    BY <1>8, <2>1, <2>2, <2>3 DEF PreflightFails, TypeInv
<1>9. CASE StartCall(q)
  <2>1. res' \in [Reservations -> ReservationRecord]
    BY <1>2, <1>9, MoveType DEF StartCall, States
  <2>2. pc' \in [Requests -> Labels]
    BY <1>3, <1>9 DEF StartCall, Labels
  <2>3. QED
    BY <1>9, <2>1, <2>2 DEF StartCall, TypeInv
<1>10. CASE StartRefused(q)
  <2>1. pc' \in [Requests -> Labels]
    BY <1>3, <1>10 DEF StartRefused, Labels
  <2>2. QED
    BY <1>1, <1>10, <2>1 DEF StartRefused, TypeInv
<1>11. CASE ProviderReturns(q)
  <2>1. pc' \in [Requests -> Labels]
    BY <1>3, <1>11 DEF ProviderReturns, Labels
  <2>2. PICK status \in {"ok", "provider_error", "timeout"},
             cost \in ReportedCosts[call[q]] \cup {0} :
          outcome' = [outcome EXCEPT ![q] = [status |-> status, cost |-> cost]]
    BY <1>11 DEF ProviderReturns
  <2>3. [status |-> status, cost |-> cost] \in Outcome
    BY <1>2, BoundsType DEF Outcome
  <2>4. QED
    BY <1>1, <1>11, <2>1, <2>2, <2>3 DEF ProviderReturns, TypeInv
<1>12. CASE SettleCall(q)
  <2>1. Data
    <3>1. outcome[q].status # "none"
      BY <1>12 DEF SettleCall, Answered
    <3>2. SettleReservation(<<q, call[q]>>, outcome[q])
      BY <1>12 DEF SettleCall
    <3>3. QED
      BY <1>2, <3>1, <3>2, SettleType
  <2>2. PICK usable \in BOOLEAN :
          AfterSettle(q, call[q], outcome[q].status, usable)
    BY <1>12 DEF SettleCall
  <2>3. pc' \in [Requests -> Labels]
    BY <1>3, <2>2 DEF AfterSettle, Labels
  <2>4. call' \in [Requests -> Calls]
    BY <2>2, CallsType DEF AfterSettle, TypeInv
  <2>5. QED
    BY <1>4, <1>12, <2>1, <2>3, <2>4 DEF SettleCall, TypeInv
<1>13. CASE ReadDownstream(q)
  <2>1. pc' \in [Requests -> Labels]
    BY <1>3, <1>13 DEF ReadDownstream, Labels
  <2>2. todo' \in [Requests -> SUBSET Calls]
    BY <1>13 DEF ReadDownstream, TypeInv
  <2>3. QED
    BY <1>1, <1>13, <2>1, <2>2 DEF ReadDownstream, TypeInv
<1>14. CASE ReleaseNext(q)
  <2>1. PICK c \in todo[q] : /\ ReleaseReservation(<<q, c>>)
                             /\ todo' = [todo EXCEPT ![q] = todo[q] \ {c}]
    BY <1>14 DEF ReleaseNext
  <2>2. <<q, c>> \in Reservations
    BY DEF TypeInv, Reservations
  <2>3. Data
    BY <2>1, <2>2, ReleaseType DEF TypeInv
  <2>4. todo' \in [Requests -> SUBSET Calls]
    BY <2>1 DEF TypeInv
  <2>5. QED
    BY <1>14, <2>3, <2>4 DEF ReleaseNext, TypeInv
<1>15. CASE FinishRelease(q)
  <2>1. pc' \in [Requests -> Labels]
    BY <1>3, <1>15 DEF FinishRelease, Labels
  <2>2. QED
    BY <1>1, <1>15, <2>1 DEF FinishRelease, TypeInv
<1>16. CASE Crash(q)
  <2>1. pc' \in [Requests -> Labels]
    BY <1>3, <1>16 DEF Crash, Labels
  <2>2. QED
    BY <1>1, <1>4, <1>16, <2>1 DEF Crash, TypeInv
<1>17. QED
  BY <1>5, <1>6, <1>7, <1>8, <1>9, <1>10, <1>11, <1>12, <1>13, <1>14, <1>15,
     <1>16 DEF Worker

LEMMA ReconcilerType ==
    ASSUME TypeInv, NEW r \in Reconcilers, Reconciler(r) \/ ReconcilerCrash(r)
    PROVE  TypeInv'
<1>1. CASE ReadStale(r)
  <2>1. PICK S \in SUBSET Stale :
          batch' = [batch EXCEPT ![r] = {<<id, res[id].state>> : id \in S}]
    BY <1>1 DEF ReadStale
  <2>2. {<<id, res[id].state>> : id \in S} \in SUBSET (Reservations \X Open)
    BY DEF Stale
  <2>3. batch' \in [Reconcilers -> SUBSET (Reservations \X Open)]
    BY <2>1, <2>2 DEF TypeInv
  <2>4. QED
    BY <1>1, <2>3 DEF ReadStale, TypeInv, envVars, dbVars, workerVars
<1>2. CASE ReconcileNext(r)
  <2>1. PICK entry \in batch[r] :
          /\ \/ ReleaseReservation(entry[1])
             \/ MarkUnknown(entry[1])
          /\ batch' = [batch EXCEPT ![r] = batch[r] \ {entry}]
    BY <1>2 DEF ReconcileNext
  <2>2. entry[1] \in Reservations
    BY DEF TypeInv
  <2>3. batch' \in [Reconcilers -> SUBSET (Reservations \X Open)]
    BY <2>1 DEF TypeInv
  <2>4. /\ res' \in [Reservations -> ReservationRecord]
        /\ ledger' \in [Reservations -> Seq(Event)]
        /\ counter' \in [Rows -> IntCounter]
    BY <2>1, <2>2, ReleaseType, UnknownType DEF TypeInv
  <2>5. QED
    BY <1>2, <2>3, <2>4 DEF ReconcileNext, TypeInv, envVars, workerVars
<1>3. CASE ReconcilerCrash(r)
  <2>1. batch' \in [Reconcilers -> SUBSET (Reservations \X Open)]
    BY <1>3 DEF ReconcilerCrash, TypeInv
  <2>2. QED
    BY <1>3, <2>1 DEF ReconcilerCrash, TypeInv, envVars, dbVars, workerVars
<1>4. QED
  BY <1>1, <1>2, <1>3 DEF Reconciler

LEMMA EnvironmentType ==
    ASSUME TypeInv, Tick \/ \E u \in Users : ChangeLimits(u)
    PROVE  TypeInv'
<1>1. CASE Tick
  <2>1. clock' \in Instants
    BY <1>1, ConfigAssumption DEF Tick, TypeInv, Instants
  <2>2. QED
    BY <1>1, <2>1 DEF Tick, TypeInv, dbVars, workerVars
<1>2. CASE \E u \in Users : ChangeLimits(u)
  <2>1. limits' \in [Users -> LimitChoices]
    BY <1>2 DEF ChangeLimits, TypeInv
  <2>2. QED
    BY <1>2, <2>1 DEF ChangeLimits, TypeInv, dbVars, workerVars
<1>3. QED
  BY <1>1, <1>2

-----------------------------------------------------------------------------
(* What each kind of database transaction does to one reservation.          *)

\* Only id's row and ledger may change, and id takes a legal step that does
\* not start from "none".
Moves(id) ==
    /\ \A x \in Reservations :
         x # id => res'[x] = res[x] /\ ledger'[x] = ledger[x]
    /\ LegalStep(res[id], res'[id])
    /\ res[id].state = "none" <=> res'[id].state = "none"

LEMMA ReleaseMoves ==
    ASSUME TypeInv, NEW id \in Reservations, ReleaseReservation(id)
    PROVE  /\ Moves(id)
           /\ ledger'[id] = ledger[id]
           /\ \/ res[id].state = "reserved" /\ res'[id].state = "released"
              \/ res'[id] = res[id]
<1>1. CASE res[id].state = "reserved"
  <2>1. /\ res' = [res EXCEPT ![id].state = "released"] /\ ledger' = ledger
    BY <1>1 DEF ReleaseReservation
  <2>2. /\ res'[id] = [res[id] EXCEPT !.state = "released"]
        /\ res'[id].state = "released"
        /\ \A x \in Reservations : x # id => res'[x] = res[x]
    BY <2>1 DEF TypeInv, ReservationRecord
  <2>3. QED
    BY <1>1, <2>1, <2>2 DEF Moves, LegalStep
<1>2. CASE res[id].state # "reserved"
  BY <1>2 DEF ReleaseReservation, dbVars, Moves, LegalStep
<1>3. QED
  BY <1>1, <1>2

LEMMA SettleMoves ==
    ASSUME TypeInv, NEW id \in Reservations, NEW o, SettleReservation(id, o)
    PROVE  /\ Moves(id)
           /\ \/ /\ res[id].state = "started" /\ res'[id].state = "settled"
                 /\ ledger'[id] = Append(ledger[id],
                      [status |-> o.status, cost |-> SettledCost(id, o)])
              \/ res'[id] = res[id] /\ ledger'[id] = ledger[id]
<1>1. CASE res[id].state = "started"
  <2> DEFINE e == [status |-> o.status, cost |-> SettledCost(id, o)]
  <2>1. /\ res' = [res EXCEPT ![id].state = "settled"]
        /\ ledger' = [ledger EXCEPT ![id] = Append(ledger[id], e)]
    BY <1>1 DEF SettleReservation
  <2> HIDE DEF e
  <2>2. /\ res'[id] = [res[id] EXCEPT !.state = "settled"]
        /\ res'[id].state = "settled"
        /\ \A x \in Reservations : x # id => res'[x] = res[x]
    BY <2>1 DEF TypeInv, ReservationRecord
  <2>3. /\ ledger'[id] = Append(ledger[id], e)
        /\ \A x \in Reservations : x # id => ledger'[x] = ledger[x]
    BY <2>1 DEF TypeInv
  <2>4. LegalStep(res[id], res'[id])
    BY <1>1, <2>2 DEF LegalStep
  <2>5. Moves(id)
    BY <1>1, <2>2, <2>3, <2>4 DEF Moves
  <2>6. QED
    BY <1>1, <2>2, <2>3, <2>5 DEF e
<1>2. CASE res[id].state # "started"
  BY <1>2 DEF SettleReservation, dbVars, Moves, LegalStep
<1>3. QED
  BY <1>1, <1>2

LEMMA UnknownMoves ==
    ASSUME TypeInv, NEW id \in Reservations, MarkUnknown(id)
    PROVE  /\ Moves(id)
           /\ \/ /\ res[id].state = "started" /\ res'[id].state = "unknown"
                 /\ ledger'[id] = Append(ledger[id],
                      [status |-> "unknown", cost |-> res[id].bound])
              \/ res'[id] = res[id] /\ ledger'[id] = ledger[id]
<1>1. CASE res[id].state = "started"
  <2> DEFINE e == [status |-> "unknown", cost |-> res[id].bound]
  <2>1. /\ res' = [res EXCEPT ![id].state = "unknown"]
        /\ ledger' = [ledger EXCEPT ![id] = Append(ledger[id], e)]
    BY <1>1 DEF MarkUnknown
  <2> HIDE DEF e
  <2>2. /\ res'[id] = [res[id] EXCEPT !.state = "unknown"]
        /\ res'[id].state = "unknown"
        /\ \A x \in Reservations : x # id => res'[x] = res[x]
    BY <2>1 DEF TypeInv, ReservationRecord
  <2>3. /\ ledger'[id] = Append(ledger[id], e)
        /\ \A x \in Reservations : x # id => ledger'[x] = ledger[x]
    BY <2>1 DEF TypeInv
  <2>4. LegalStep(res[id], res'[id])
    BY <1>1, <2>2 DEF LegalStep
  <2>5. Moves(id)
    BY <1>1, <2>2, <2>3, <2>4 DEF Moves
  <2>6. QED
    BY <1>1, <2>2, <2>3, <2>5 DEF e
<1>2. CASE res[id].state # "started"
  BY <1>2 DEF MarkUnknown, dbVars, Moves, LegalStep
<1>3. QED
  BY <1>1, <1>2

LEMMA StartMoves ==
    ASSUME TypeInv, NEW q \in Requests, StartCall(q)
    PROVE  /\ Moves(<<q, call[q]>>)
           /\ ledger' = ledger
           /\ res[<<q, call[q]>>].state = "reserved"
           /\ res'[<<q, call[q]>>].state = "started"
<1> DEFINE id == <<q, call[q]>>
<1>1. id \in Reservations
  BY DEF TypeInv, Reservations
<1>2. /\ res[id].state = "reserved"
      /\ res' = [res EXCEPT ![id].state = "started"] /\ ledger' = ledger
  BY DEF StartCall
<1> HIDE DEF id
<1>3. /\ res'[id] = [res[id] EXCEPT !.state = "started"]
      /\ res'[id].state = "started"
      /\ \A x \in Reservations : x # id => res'[x] = res[x]
  BY <1>1, <1>2 DEF TypeInv, ReservationRecord
<1>4. LegalStep(res[id], res'[id])
  BY <1>2, <1>3 DEF LegalStep
<1>5. Moves(id)
  BY <1>2, <1>3, <1>4 DEF Moves
<1>6. QED
  BY <1>2, <1>3, <1>5 DEF id

\* The two reservation transactions insert rows only where there were none.
Inserts(q) ==
    /\ ledger' = ledger
    /\ \A x \in Reservations :
         \/ res'[x] = res[x]
         \/ x[1] = q /\ res[x].state = "none" /\ res'[x].state = "reserved"

LEMMA ReserveInitialInserts ==
    ASSUME TypeInv, FreshCalls, NEW q \in Requests, ReserveInitial(q)
    PROVE  /\ Inserts(q)
           /\ \A x \in Reservations :
                x[2] \notin {Guard, Generator} => res'[x] = res[x]
<1>1. /\ res[<<q, Guard>>].state = "none" /\ res[<<q, Generator>>].state = "none"
      /\ ledger' = ledger
  BY CallsType DEF ReserveInitial, FreshCalls
<1>2. PICK b, d :
        \/ res' = [res EXCEPT ![<<q, Guard>>] = Reserved(b, reading[q].now),
                              ![<<q, Generator>>] = Reserved(d, reading[q].now)]
        \/ res' = res
  BY DEF ReserveInitial
<1>3. /\ Reserved(b, reading[q].now).state = "reserved"
      /\ Reserved(d, reading[q].now).state = "reserved"
  BY DEF Reserved
<1>4. CASE res' = res
  BY <1>1, <1>4 DEF Inserts
<1>5. CASE res' = [res EXCEPT ![<<q, Guard>>] = Reserved(b, reading[q].now),
                              ![<<q, Generator>>] = Reserved(d, reading[q].now)]
  <2>1. \A x \in Reservations :
          \/ res'[x] = res[x]
          \/ /\ x \in {<<q, Guard>>, <<q, Generator>>}
             /\ res'[x] \in {Reserved(b, reading[q].now), Reserved(d, reading[q].now)}
    BY <1>5 DEF TypeInv
  <2>2. QED
    BY <1>1, <1>3, <2>1 DEF Inserts
<1>6. QED
  BY <1>2, <1>4, <1>5

LEMMA ReserveRepairInserts ==
    ASSUME TypeInv, FreshCalls, NEW q \in Requests, ReserveRepair(q)
    PROVE  /\ Inserts(q)
           /\ \/ call' = call /\ res' = res
              \/ /\ call' = [call EXCEPT ![q] = call[q] + 1]
                 /\ call[q] + 1 \in Calls
                 /\ \A x \in Reservations :
                      x # <<q, call[q] + 1>> => res'[x] = res[x]
<1>0. PICK c \in Calls : \E b :
        /\ c = call[q] + 1
        /\ \/ /\ res' = [res EXCEPT ![<<q, c>>] = Reserved(b, reading[q].now)]
              /\ call' = [call EXCEPT ![q] = c]
           \/ res' = res /\ call' = call
  BY DEF ReserveRepair
<1>1. PICK b :
        /\ c = call[q] + 1
        /\ \/ /\ res' = [res EXCEPT ![<<q, c>>] = Reserved(b, reading[q].now)]
              /\ call' = [call EXCEPT ![q] = c]
           \/ res' = res /\ call' = call
  BY <1>0
<1>2. c > Generator /\ c > call[q]
  BY <1>1, ConfigAssumption DEF ReserveRepair, FreshCalls, Generator
<1>3. res[<<q, c>>].state = "none" /\ <<q, c>> \in Reservations
  BY <1>2 DEF FreshCalls, Reservations
<1>4. Reserved(b, reading[q].now).state = "reserved"
  BY DEF Reserved
<1>5. ledger' = ledger
  BY DEF ReserveRepair
<1>6. CASE res' = res /\ call' = call
  BY <1>5, <1>6 DEF Inserts
<1>7. CASE /\ res' = [res EXCEPT ![<<q, c>>] = Reserved(b, reading[q].now)]
           /\ call' = [call EXCEPT ![q] = c]
  <2>1. /\ res'[<<q, c>>] = Reserved(b, reading[q].now)
        /\ \A x \in Reservations : x # <<q, c>> => res'[x] = res[x]
    BY <1>3, <1>7 DEF TypeInv
  <2>2. Inserts(q)
    BY <1>3, <1>4, <1>5, <2>1 DEF Inserts
  <2>3. QED
    BY <1>1, <1>7, <2>1, <2>2
<1>8. QED
  BY <1>1, <1>6, <1>7

-----------------------------------------------------------------------------
(* One ledger row per closed call.                                          *)

LEMMA ReleaseEvents ==
    ASSUME TypeInv, OneEventPerCall, NEW id \in Reservations,
           ReleaseReservation(id)
    PROVE  OneEventPerCall'
BY ReleaseMoves DEF Moves, OneEventPerCall

LEMMA SettleEvents ==
    ASSUME TypeInv, OneEventPerCall, NEW id \in Reservations,
           NEW o \in Outcome, SettleReservation(id, o)
    PROVE  OneEventPerCall'
<1> DEFINE e == [status |-> o.status, cost |-> SettledCost(id, o)]
<1>1. \A x \in Reservations :
        x # id => res'[x] = res[x] /\ ledger'[x] = ledger[x]
  BY SettleMoves DEF Moves
<1>2. CASE res'[id] = res[id] /\ ledger'[id] = ledger[id]
  BY <1>1, <1>2 DEF OneEventPerCall
<1>3. CASE /\ res[id].state = "started" /\ res'[id].state = "settled"
           /\ ledger'[id] = Append(ledger[id], e)
  <2>1. ledger'[id] = <<e>>
    <3>1. ledger[id] = <<>> /\ ledger'[id] = Append(ledger[id], e)
      BY <1>3 DEF OneEventPerCall
    <3> HIDE DEF e
    <3>2. QED
      BY <3>1
  <2>2. e.status # "unknown"
    BY DEF Outcome
  <2>3. Len(ledger'[id]) = 1 /\ ledger'[id][1].status # "unknown"
    BY <2>1, <2>2
  <2>4. QED
    BY <1>1, <1>3, <2>3 DEF OneEventPerCall
<1>4. QED
  BY <1>2, <1>3, SettleMoves

LEMMA UnknownEvents ==
    ASSUME TypeInv, OneEventPerCall, NEW id \in Reservations, MarkUnknown(id)
    PROVE  OneEventPerCall'
<1> DEFINE e == [status |-> "unknown", cost |-> res[id].bound]
<1>1. \A x \in Reservations :
        x # id => res'[x] = res[x] /\ ledger'[x] = ledger[x]
  BY UnknownMoves DEF Moves
<1>2. CASE res'[id] = res[id] /\ ledger'[id] = ledger[id]
  BY <1>1, <1>2 DEF OneEventPerCall
<1>3. CASE /\ res[id].state = "started" /\ res'[id].state = "unknown"
           /\ ledger'[id] = Append(ledger[id], e)
  <2>1. ledger'[id] = <<e>>
    <3>1. ledger[id] = <<>> /\ ledger'[id] = Append(ledger[id], e)
      BY <1>3 DEF OneEventPerCall
    <3> HIDE DEF e
    <3>2. QED
      BY <3>1
  <2>2. Len(ledger'[id]) = 1 /\ ledger'[id][1].status = "unknown"
    BY <2>1
  <2>3. QED
    BY <1>1, <1>3, <2>2 DEF OneEventPerCall
<1>4. QED
  BY <1>2, <1>3, UnknownMoves

LEMMA InsertEvents ==
    ASSUME TypeInv, OneEventPerCall, NEW q \in Requests, Inserts(q)
    PROVE  OneEventPerCall'
<1> SUFFICES ASSUME NEW x \in Reservations
             PROVE  /\ res'[x].state = "settled" =>
                         Len(ledger'[x]) = 1 /\ ledger'[x][1].status # "unknown"
                    /\ res'[x].state = "unknown" =>
                         Len(ledger'[x]) = 1 /\ ledger'[x][1].status = "unknown"
                    /\ res'[x].state \notin {"settled", "unknown"} =>
                         ledger'[x] = <<>>
  BY DEF OneEventPerCall
<1>1. ledger'[x] = ledger[x]
  BY DEF Inserts
<1>2. CASE res'[x] = res[x]
  BY <1>1, <1>2 DEF OneEventPerCall
<1>3. CASE res[x].state = "none" /\ res'[x].state = "reserved"
  BY <1>1, <1>3 DEF OneEventPerCall
<1>4. QED
  BY <1>2, <1>3 DEF Inserts

-----------------------------------------------------------------------------
(* What a request's step says of its reservations.                          *)

\* A step that only moves a worker to a label where it has made a reservation
\* keeps FreshCalls, as long as rows that do not exist stay so.
LEMMA FreshKept ==
    ASSUME FreshCalls, NEW q \in Requests, call' = call,
           \A x \in Reservations : res[x].state = "none" => res'[x].state = "none",
           \A p \in Requests :
              \/ pc'[p] = pc[p]
              \/ p = q /\ pc'[p] \notin {"idle", "reserve", "repair", "reserveRepair"}
    PROVE  FreshCalls'
<1> SUFFICES ASSUME NEW p \in Requests
             PROVE  /\ pc'[p] \in {"idle", "reserve"} =>
                         /\ call'[p] = Guard
                         /\ \A c \in Calls : res'[<<p, c>>].state = "none"
                    /\ pc'[p] \in {"repair", "reserveRepair"} =>
                         call'[p] \in 1 .. MaxRepairs
                    /\ \A c \in Calls :
                         c > Generator /\ c > call'[p] =>
                            res'[<<p, c>>].state = "none"
  BY DEF FreshCalls
<1>1. \A c \in Calls : res[<<p, c>>].state = "none" => res'[<<p, c>>].state = "none"
  BY DEF Reservations
<1>2. pc'[p] \in {"idle", "reserve", "repair", "reserveRepair"} => pc'[p] = pc[p]
  OBVIOUS
<1>3. QED
  BY <1>1, <1>2 DEF FreshCalls

LEMMA MoveFresh ==
    ASSUME NEW id \in Reservations, Moves(id)
    PROVE  \A x \in Reservations :
              res[x].state = "none" => res'[x].state = "none"
BY DEF Moves

LEMMA GotoOther ==
    ASSUME TypeInv, NEW q \in Requests, NEW label, Goto(q, label)
    PROVE  pc'[q] = label /\ \A p \in Requests : p # q => pc'[p] = pc[p]
BY DEF Goto, TypeInv

LEMMA WorkerFresh ==
    ASSUME TypeInv, FreshCalls, NEW q \in Requests, Worker(q) \/ Crash(q)
    PROVE  FreshCalls'
<1>1. <<q, call[q]>> \in Reservations
  BY DEF TypeInv, Reservations
<1>2. CASE ReadLimits(q)
  <2>1. res' = res /\ call' = call
    BY <1>2 DEF ReadLimits, dbVars
  <2>2. /\ \A p \in Requests : p # q => pc'[p] = pc[p]
        /\ \/ pc[q] = "idle" /\ pc'[q] = "reserve"
           \/ pc[q] = "repair" /\ pc'[q] = "reserveRepair"
    BY <1>2, GotoOther DEF ReadLimits
  <2>3. QED
    BY <2>1, <2>2 DEF FreshCalls
<1>3. CASE ReserveInitial(q)
  <2>1. /\ pc'[q] \in {"start", "done"} /\ call' = call
        /\ \A p \in Requests : p # q => pc'[p] = pc[p]
    BY <1>3, GotoOther DEF ReserveInitial
  <2>2. /\ \A p \in Requests, c \in Calls :
              p # q => res'[<<p, c>>].state = res[<<p, c>>].state
        /\ \A c \in Calls :
              c > Generator => res'[<<q, c>>].state = res[<<q, c>>].state
    <3>1. \A p \in Requests, c \in Calls : <<p, c>> \in Reservations
      BY DEF Reservations
    <3>2. \A c \in Calls : c > Generator => c \notin {Guard, Generator}
      BY DEF Guard, Generator
    <3>3. QED
      BY <1>3, <3>1, <3>2, ReserveInitialInserts DEF Inserts
  <2>3. QED
    BY <2>1, <2>2 DEF FreshCalls
<1>4. CASE ReserveRepair(q)
  <2>1. /\ pc'[q] \in {"start", "done"}
        /\ \A p \in Requests : p # q => pc'[p] = pc[p]
    BY <1>4, GotoOther DEF ReserveRepair
  <2>2. CASE call' = call /\ res' = res
    BY <2>1, <2>2 DEF FreshCalls
  <2>3. CASE /\ call' = [call EXCEPT ![q] = call[q] + 1]
             /\ \A x \in Reservations :
                  x # <<q, call[q] + 1>> => res'[x] = res[x]
    <3>1. /\ call'[q] = call[q] + 1
          /\ \A p \in Requests : p # q => call'[p] = call[p]
      BY <2>3 DEF TypeInv
    <3>2. \A p \in Requests, c \in Calls :
            p # q \/ c # call[q] + 1 => res'[<<p, c>>] = res[<<p, c>>]
      BY <2>3 DEF Reservations
    <3>3. \A c \in Calls : c > Generator /\ c > call[q] + 1 =>
                              res'[<<q, c>>].state = "none"
      <4>1. call[q] \in Nat
        BY CallsType DEF TypeInv
      <4>2. \A c \in Calls : c > call[q] + 1 => c > call[q] /\ c # call[q] + 1
        BY <4>1, CallsType
      <4>3. QED
        BY <3>2, <4>2 DEF FreshCalls
    <3>4. QED
      BY <2>1, <3>1, <3>2, <3>3 DEF FreshCalls
  <2>4. QED
    BY <1>4, <2>2, <2>3, ReserveRepairInserts
<1>5. CASE PreflightFails(q)
  <2>1. Moves(<<q, call[q]>>) /\ call' = call
    BY <1>1, <1>5, ReleaseMoves DEF PreflightFails
  <2>2. /\ pc'[q] \in {"release", "done"}
        /\ \A p \in Requests : p # q => pc'[p] = pc[p]
    BY <1>5, GotoOther DEF PreflightFails
  <2>3. QED
    BY <1>1, <2>1, <2>2, MoveFresh, FreshKept
<1>6. CASE StartCall(q)
  <2>1. Moves(<<q, call[q]>>) /\ call' = call
    BY <1>6, StartMoves DEF StartCall
  <2>2. /\ pc'[q] = "call"
        /\ \A p \in Requests : p # q => pc'[p] = pc[p]
    BY <1>6, GotoOther DEF StartCall
  <2>3. QED
    BY <1>1, <2>1, <2>2, MoveFresh, FreshKept
<1>7. CASE SettleCall(q)
  <2>1. Moves(<<q, call[q]>>)
    BY <1>1, <1>7, SettleMoves DEF SettleCall
  <2>2. \A x \in Reservations : res[x].state = "none" => res'[x].state = "none"
    BY <1>1, <2>1, MoveFresh
  <2>3. PICK usable \in BOOLEAN :
          AfterSettle(q, call[q], outcome[q].status, usable)
    BY <1>7 DEF SettleCall
  <2>4. CASE /\ call[q] = Guard /\ Goto(q, "start")
             /\ call' = [call EXCEPT ![q] = Generator]
    <3>1. /\ call'[q] = Generator /\ pc'[q] = "start"
          /\ \A p \in Requests : p # q => call'[p] = call[p] /\ pc'[p] = pc[p]
      BY <2>4, GotoOther DEF TypeInv
    <3>2. \A p \in Requests, c \in Calls :
            res[<<p, c>>].state = "none" => res'[<<p, c>>].state = "none"
      BY <2>2 DEF Reservations
    <3>3. \A c \in Calls : c > Generator => c > call[q]
      BY <2>4, CallsType DEF Guard, Generator
    <3>4. QED
      BY <3>1, <3>2, <3>3 DEF FreshCalls
  <2>5. CASE /\ call[q] # Guard /\ call[q] <= MaxRepairs
             /\ Goto(q, "repair") /\ call' = call
    <3>1. /\ pc'[q] = "repair"
          /\ \A p \in Requests : p # q => pc'[p] = pc[p]
      BY <2>5, GotoOther
    <3>2. call[q] \in 1 .. MaxRepairs
      BY <2>5, ConfigAssumption DEF TypeInv, Calls, Guard
    <3>3. \A p \in Requests, c \in Calls :
            res[<<p, c>>].state = "none" => res'[<<p, c>>].state = "none"
      BY <2>2 DEF Reservations
    <3>4. QED
      BY <2>5, <3>1, <3>2, <3>3 DEF FreshCalls
  <2>6. CASE (Goto(q, "downstream") \/ Goto(q, "done")) /\ call' = call
    <3>1. /\ pc'[q] \in {"downstream", "done"}
          /\ \A p \in Requests : p # q => pc'[p] = pc[p]
      BY <2>6, GotoOther
    <3>2. QED
      BY <2>2, <2>6, <3>1, FreshKept
  <2>7. QED
    BY <2>3, <2>4, <2>5, <2>6 DEF AfterSettle
<1>8. CASE ReleaseNext(q)
  <2>1. PICK c \in todo[q] : ReleaseReservation(<<q, c>>)
    BY <1>8 DEF ReleaseNext
  <2>2. <<q, c>> \in Reservations
    BY DEF TypeInv, Reservations
  <2>3. Moves(<<q, c>>)
    BY <2>1, <2>2, ReleaseMoves
  <2>4. pc' = pc /\ call' = call
    BY <1>8 DEF ReleaseNext
  <2>5. QED
    BY <2>2, <2>3, <2>4, MoveFresh, FreshKept
<1>9. CASE \/ StartRefused(q) \/ ProviderReturns(q) \/ ReadDownstream(q)
           \/ FinishRelease(q) \/ Crash(q)
  <2>1. res' = res /\ call' = call
    BY <1>9 DEF StartRefused, ProviderReturns, ReadDownstream, FinishRelease,
                Crash, dbVars
  <2>2. /\ pc'[q] \in {"aborted", "settle", "release", "done", "dead"}
        /\ \A p \in Requests : p # q => pc'[p] = pc[p]
    BY <1>9, GotoOther DEF StartRefused, ProviderReturns, ReadDownstream,
                           FinishRelease, Crash
  <2>3. QED
    BY <2>1, <2>2, FreshKept
<1>10. QED
  BY <1>2, <1>3, <1>4, <1>5, <1>6, <1>7, <1>8, <1>9 DEF Worker

\* A worker that talks to the provider keeps its call charged: whoever else
\* moves the call's reservation moves it from "started" to "unknown".
LEMMA SentKept ==
    ASSUME TypeInv, SentIsCharged, NEW q \in Requests, call' = call,
           \A p \in Requests : p # q => pc'[p] = pc[p],
           pc'[q] \notin {"call", "settle"},
           \A p \in Requests, c \in Calls :
              p # q => res'[<<p, c>>].state = res[<<p, c>>].state
    PROVE  SentIsCharged'
BY DEF SentIsCharged, TypeInv

LEMMA MoveSent ==
    ASSUME TypeInv, SentIsCharged, NEW id \in Reservations, Moves(id),
           res'[id].state = res[id].state
             \/ res[id].state = "reserved" \/ res'[id].state = "unknown",
           call' = call,
           \A p \in Requests : pc'[p] \in {"call", "settle"} => pc'[p] = pc[p]
    PROVE  SentIsCharged'
<1> SUFFICES ASSUME NEW p \in Requests, pc'[p] \in {"call", "settle"}
             PROVE  res'[<<p, call[p]>>].state \in {"started", "unknown"}
  BY DEF SentIsCharged
<1>1. res[<<p, call[p]>>].state \in {"started", "unknown"}
  BY DEF SentIsCharged
<1>2. <<p, call[p]>> \in Reservations
  BY DEF TypeInv, Reservations
<1>3. CASE <<p, call[p]>> # id
  BY <1>1, <1>2, <1>3 DEF Moves
<1>4. CASE <<p, call[p]>> = id
  BY <1>1, <1>4
<1>5. QED
  BY <1>3, <1>4

LEMMA WorkerSent ==
    ASSUME TypeInv, FreshCalls, SentIsCharged, NEW q \in Requests,
           Worker(q) \/ Crash(q)
    PROVE  SentIsCharged'
<1>1. <<q, call[q]>> \in Reservations
  BY DEF TypeInv, Reservations
<1>2. \A p \in Requests, c \in Calls : <<p, c>> \in Reservations
  BY DEF Reservations
<1>3. CASE \/ ReadLimits(q) \/ StartRefused(q) \/ ReadDownstream(q)
           \/ FinishRelease(q) \/ Crash(q)
  <2>1. res' = res /\ call' = call
    BY <1>3 DEF ReadLimits, StartRefused, ReadDownstream, FinishRelease, Crash,
                dbVars
  <2>2. /\ pc'[q] \notin {"call", "settle"}
        /\ \A p \in Requests : p # q => pc'[p] = pc[p]
    BY <1>3, GotoOther DEF ReadLimits, StartRefused, ReadDownstream,
                           FinishRelease, Crash
  <2>3. QED
    BY <2>1, <2>2 DEF SentIsCharged
<1>4. CASE ProviderReturns(q)
  <2>1. res' = res /\ call' = call
    BY <1>4 DEF ProviderReturns, dbVars
  <2>2. /\ pc[q] = "call" /\ pc'[q] = "settle"
        /\ \A p \in Requests : p # q => pc'[p] = pc[p]
    BY <1>4, GotoOther DEF ProviderReturns
  <2>3. QED
    BY <2>1, <2>2 DEF SentIsCharged
<1>5. CASE ReserveInitial(q)
  <2>1. /\ pc'[q] \in {"start", "done"} /\ call' = call
        /\ \A p \in Requests : p # q => pc'[p] = pc[p]
    BY <1>5, GotoOther DEF ReserveInitial
  <2>2. \A p \in Requests, c \in Calls :
          p # q => res'[<<p, c>>].state = res[<<p, c>>].state
    BY <1>2, <1>5, ReserveInitialInserts DEF Inserts
  <2>3. QED
    BY <2>1, <2>2, SentKept
<1>6. CASE ReserveRepair(q)
  <2>1. /\ pc'[q] \in {"start", "done"}
        /\ \A p \in Requests : p # q => pc'[p] = pc[p]
    BY <1>6, GotoOther DEF ReserveRepair
  <2>2. \A p \in Requests, c \in Calls :
          p # q => res'[<<p, c>>].state = res[<<p, c>>].state
    BY <1>2, <1>6, ReserveRepairInserts DEF Inserts
  <2>3. \A p \in Requests : p # q => call'[p] = call[p]
    BY <1>6, ReserveRepairInserts DEF TypeInv
  <2>4. QED
    BY <2>1, <2>2, <2>3 DEF SentIsCharged, TypeInv
<1>7. CASE PreflightFails(q)
  <2>1. /\ Moves(<<q, call[q]>>) /\ call' = call
        /\ \/ res[<<q, call[q]>>].state = "reserved"
           \/ res'[<<q, call[q]>>].state = res[<<q, call[q]>>].state
    BY <1>1, <1>7, ReleaseMoves DEF PreflightFails
  <2>2. /\ pc'[q] \in {"release", "done"}
        /\ \A p \in Requests : p # q => pc'[p] = pc[p]
    BY <1>7, GotoOther DEF PreflightFails
  <2>3. \A p \in Requests : pc'[p] \in {"call", "settle"} => pc'[p] = pc[p]
    BY <2>2
  <2>4. QED
    BY <1>1, <2>1, <2>3, MoveSent
<1>8. CASE StartCall(q)
  <2>1. /\ Moves(<<q, call[q]>>) /\ call' = call
        /\ res'[<<q, call[q]>>].state = "started"
    BY <1>8, StartMoves DEF StartCall
  <2>2. \A p \in Requests : p # q => pc'[p] = pc[p]
    BY <1>8, GotoOther DEF StartCall
  <2>3. \A p \in Requests :
          p # q => res'[<<p, call[p]>>] = res[<<p, call[p]>>]
    BY <1>2, <2>1 DEF Moves, TypeInv
  <2>4. QED
    BY <2>1, <2>2, <2>3 DEF SentIsCharged
<1>9. CASE SettleCall(q)
  <2>1. Moves(<<q, call[q]>>)
    BY <1>1, <1>9, SettleMoves DEF SettleCall
  <2>2. PICK usable \in BOOLEAN :
          AfterSettle(q, call[q], outcome[q].status, usable)
    BY <1>9 DEF SettleCall
  <2>3. /\ pc'[q] \in {"start", "downstream", "repair", "done"}
        /\ \A p \in Requests : p # q => pc'[p] = pc[p]
    BY <2>2, GotoOther DEF AfterSettle
  <2>4. \A p \in Requests : p # q => call'[p] = call[p]
    BY <2>2 DEF AfterSettle, TypeInv
  <2>5. \A p \in Requests :
          p # q => res'[<<p, call[p]>>] = res[<<p, call[p]>>]
    BY <1>2, <2>1 DEF Moves, TypeInv
  <2>6. QED
    BY <2>3, <2>4, <2>5 DEF SentIsCharged
<1>10. CASE ReleaseNext(q)
  <2>1. PICK c \in todo[q] : ReleaseReservation(<<q, c>>)
    BY <1>10 DEF ReleaseNext
  <2>2. <<q, c>> \in Reservations
    BY DEF TypeInv, Reservations
  <2>3. /\ Moves(<<q, c>>)
        /\ \/ res[<<q, c>>].state = "reserved"
           \/ res'[<<q, c>>].state = res[<<q, c>>].state
    BY <2>1, <2>2, ReleaseMoves
  <2>4. pc' = pc /\ call' = call
    BY <1>10 DEF ReleaseNext
  <2>5. QED
    BY <2>2, <2>3, <2>4, MoveSent
<1>11. QED
  BY <1>3, <1>4, <1>5, <1>6, <1>7, <1>8, <1>9, <1>10 DEF Worker

LEMMA WorkerAnswered ==
    ASSUME TypeInv, Answered, NEW q \in Requests, Worker(q) \/ Crash(q)
    PROVE  Answered'
<1> SUFFICES ASSUME NEW p \in Requests, pc'[p] = "settle"
             PROVE  outcome'[p].status # "none"
  BY DEF Answered
<1>1. CASE ProviderReturns(q)
  <2>1. PICK status \in {"ok", "provider_error", "timeout"},
             cost \in ReportedCosts[call[q]] \cup {0} :
          outcome' = [outcome EXCEPT ![q] = [status |-> status, cost |-> cost]]
    BY <1>1 DEF ProviderReturns
  <2>2. outcome'[q].status # "none" /\ \A x \in Requests : x # q => outcome'[x] = outcome[x]
    BY <2>1 DEF TypeInv
  <2>3. \A x \in Requests : x # q => pc'[x] = pc[x]
    BY <1>1, GotoOther DEF ProviderReturns
  <2>4. QED
    BY <2>2, <2>3 DEF Answered
<1>2. CASE ~ProviderReturns(q)
  <2>1. \A x \in Requests : x # q => pc'[x] = pc[x] /\ outcome'[x] = outcome[x]
    BY <1>2, GotoOther DEF Worker, ReadLimits, ReserveInitial, ReserveRepair,
       PreflightFails, StartCall, StartRefused, SettleCall, AfterSettle,
       ReadDownstream, ReleaseNext, FinishRelease, Crash, TypeInv
  <2>2. pc'[q] # "settle"
    <3>1. \A label : Goto(q, label) => pc'[q] = label
      BY GotoOther
    <3>2. CASE ReleaseNext(q)
      BY <3>2 DEF ReleaseNext
    <3>3. CASE ~ReleaseNext(q)
      BY <1>2, <3>1, <3>3 DEF Worker, ReadLimits, ReserveInitial,
         ReserveRepair, PreflightFails, StartCall, StartRefused, SettleCall,
         AfterSettle, ReadDownstream, FinishRelease, Crash
    <3>4. QED
      BY <3>2, <3>3
  <2>3. QED
    BY <2>1, <2>2 DEF Answered
<1>3. QED
  BY <1>1, <1>2

-----------------------------------------------------------------------------
(* The counters agree with the reservations and the ledger.                 *)

\* Steps that touch no table.
LEMMA QuietAgrees ==
    ASSUME Agree, UNCHANGED dbVars
    PROVE  Agree'
BY DEF Agree, CallsAgree, CostsAgree, InRow, BoundOf, ChargeOf, dbVars

LEMMA WorkerAgrees ==
    ASSUME TypeInv, FreshCalls, Agree, OneEventPerCall, NEW q \in Requests,
           Worker(q) \/ Crash(q)
    PROVE  Agree'
<1>1. <<q, call[q]>> \in Reservations /\ outcome[q] \in Outcome
  BY DEF TypeInv, Reservations
<1>2. reading[q].now \in Instants
  BY DEF TypeInv, Reading
<1>3. CASE ReserveInitial(q)
  <2>1. /\ res[<<q, Guard>>].state = "none"
        /\ res[<<q, Generator>>].state = "none"
        /\ ledger' = ledger
    BY <1>3, CallsType DEF ReserveInitial, FreshCalls
  <2>2. PICK b \in Bounds[Guard], d \in Bounds[Generator] :
          \/ /\ AddToRows(RowsAt(UserOf[q], reading[q].now), 2, 0, b + d, 0)
             /\ res' = [res EXCEPT ![<<q, Guard>>] = Reserved(b, reading[q].now),
                                   ![<<q, Generator>>] = Reserved(d, reading[q].now)]
          \/ UNCHANGED <<res, counter>>
    BY <1>3 DEF ReserveInitial, ReserveQuota
  <2>3. b \in Nat /\ d \in Nat
    BY BoundsType, CallsType
  <2>4. CASE UNCHANGED <<res, counter>>
    BY <2>1, <2>4, QuietAgrees DEF dbVars
  <2>5. QED
    BY <1>2, <2>1, <2>2, <2>3, <2>4, ReserveTwoAgrees
<1>4. CASE ReserveRepair(q)
  <2>1. ledger' = ledger
    BY <1>4 DEF ReserveRepair
  <2>2. PICK c \in Calls : \E b \in Bounds[c] :
          /\ c = call[q] + 1
          /\ \/ /\ AddToRows(RowsAt(UserOf[q], reading[q].now), 1, 0, b, 0)
                /\ res' = [res EXCEPT ![<<q, c>>] = Reserved(b, reading[q].now)]
             \/ UNCHANGED <<res, counter>>
    BY <1>4 DEF ReserveRepair, ReserveQuota
  <2>3. PICK b \in Nat :
          \/ /\ AddToRows(RowsAt(UserOf[q], reading[q].now), 1, 0, b, 0)
             /\ res' = [res EXCEPT ![<<q, c>>] = Reserved(b, reading[q].now)]
          \/ UNCHANGED <<res, counter>>
    BY <2>2, BoundsType
  <2>4. res[<<q, c>>].state = "none"
    <3>1. c > Generator /\ c > call[q]
      BY <1>4, <2>2, ConfigAssumption DEF ReserveRepair, FreshCalls, Generator
    <3>2. QED
      BY <3>1 DEF FreshCalls
  <2>5. CASE UNCHANGED <<res, counter>>
    BY <2>1, <2>5, QuietAgrees DEF dbVars
  <2>6. QED
    BY <1>2, <2>1, <2>3, <2>4, <2>5, ReserveOneAgrees
<1>5. CASE PreflightFails(q)
  BY <1>1, <1>5, ReleaseAgrees DEF PreflightFails
<1>6. CASE StartCall(q)
  BY <1>1, <1>6, StartAgrees DEF StartCall
<1>7. CASE SettleCall(q)
  BY <1>1, <1>7, SettleAgrees DEF SettleCall
<1>8. CASE ReleaseNext(q)
  <2>1. PICK c \in todo[q] : ReleaseReservation(<<q, c>>)
    BY <1>8 DEF ReleaseNext
  <2>2. <<q, c>> \in Reservations
    BY DEF TypeInv, Reservations
  <2>3. QED
    BY <2>1, <2>2, ReleaseAgrees
<1>9. CASE \/ ReadLimits(q) \/ StartRefused(q) \/ ProviderReturns(q)
           \/ ReadDownstream(q) \/ FinishRelease(q) \/ Crash(q)
  BY <1>9, QuietAgrees DEF ReadLimits, StartRefused, ProviderReturns,
                           ReadDownstream, FinishRelease, Crash
<1>10. QED
  BY <1>3, <1>4, <1>5, <1>6, <1>7, <1>8, <1>9 DEF Worker

LEMMA WorkerEvents ==
    ASSUME TypeInv, FreshCalls, OneEventPerCall, NEW q \in Requests,
           Worker(q) \/ Crash(q)
    PROVE  OneEventPerCall'
<1>1. <<q, call[q]>> \in Reservations /\ outcome[q] \in Outcome
  BY DEF TypeInv, Reservations
<1>2. CASE ReserveInitial(q)
  BY <1>2, ReserveInitialInserts, InsertEvents
<1>3. CASE ReserveRepair(q)
  BY <1>3, ReserveRepairInserts, InsertEvents
<1>4. CASE PreflightFails(q)
  BY <1>1, <1>4, ReleaseEvents DEF PreflightFails
<1>5. CASE StartCall(q)
  BY <1>1, <1>5, StartMoves DEF Moves, OneEventPerCall
<1>6. CASE SettleCall(q)
  BY <1>1, <1>6, SettleEvents DEF SettleCall
<1>7. CASE ReleaseNext(q)
  <2>1. PICK c \in todo[q] : ReleaseReservation(<<q, c>>)
    BY <1>7 DEF ReleaseNext
  <2>2. <<q, c>> \in Reservations
    BY DEF TypeInv, Reservations
  <2>3. QED
    BY <2>1, <2>2, ReleaseEvents
<1>8. CASE \/ ReadLimits(q) \/ StartRefused(q) \/ ProviderReturns(q)
           \/ ReadDownstream(q) \/ FinishRelease(q) \/ Crash(q)
  BY <1>8 DEF OneEventPerCall, dbVars, ReadLimits, StartRefused,
              ProviderReturns, ReadDownstream, FinishRelease, Crash
<1>9. QED
  BY <1>2, <1>3, <1>4, <1>5, <1>6, <1>7, <1>8 DEF Worker

\* The other processes: a reconciler moves at most one reservation of a
\* candidate it read, by the same two transactions' conditional updates.
LEMMA OthersStep ==
    ASSUME IInv,
           \/ \E r \in Reconcilers : Reconciler(r) \/ ReconcilerCrash(r)
           \/ Tick \/ \E u \in Users : ChangeLimits(u)
    PROVE  FreshCalls' /\ Answered' /\ Agree' /\ OneEventPerCall' /\ SentIsCharged'
<1> USE DEF IInv
<1>1. UNCHANGED workerVars
  BY DEF Reconciler, ReadStale, ReconcileNext, ReconcilerCrash, Tick, ChangeLimits
<1>2. pc' = pc /\ call' = call /\ outcome' = outcome
  BY <1>1 DEF workerVars
<1>3. Answered'
  BY <1>2 DEF Answered
<1>4. CASE UNCHANGED dbVars
  <2>1. res' = res /\ ledger' = ledger
    BY <1>4 DEF dbVars
  <2>2. FreshCalls' /\ SentIsCharged' /\ OneEventPerCall'
    BY <1>2, <2>1 DEF FreshCalls, SentIsCharged, OneEventPerCall
  <2>3. QED
    BY <1>3, <1>4, <2>2, QuietAgrees
<1>5. CASE \E r \in Reconcilers : ReconcileNext(r)
  <2>1. PICK r \in Reconcilers : ReconcileNext(r)
    BY <1>5
  <2>2. PICK entry \in batch[r] :
          ReleaseReservation(entry[1]) \/ MarkUnknown(entry[1])
    BY <2>1 DEF ReconcileNext
  <2>3. entry[1] \in Reservations
    BY DEF TypeInv
  <2>4. CASE ReleaseReservation(entry[1])
    <3>1. /\ Moves(entry[1])
          /\ \/ res[entry[1]].state = "reserved"
             \/ res'[entry[1]].state = res[entry[1]].state
      BY <2>3, <2>4, ReleaseMoves
    <3>2. SentIsCharged'
      BY <1>2, <2>3, <3>1, MoveSent
    <3>3. FreshCalls'
      BY <1>2, <2>3, <3>1, MoveFresh DEF FreshCalls, Reservations
    <3>4. Agree' /\ OneEventPerCall'
      BY <2>3, <2>4, ReleaseAgrees, ReleaseEvents
    <3>5. QED
      BY <1>3, <3>2, <3>3, <3>4
  <2>5. CASE MarkUnknown(entry[1])
    <3>1. /\ Moves(entry[1])
          /\ \/ res'[entry[1]].state = "unknown"
             \/ res'[entry[1]].state = res[entry[1]].state
      BY <2>3, <2>5, UnknownMoves
    <3>2. SentIsCharged'
      BY <1>2, <2>3, <3>1, MoveSent
    <3>3. FreshCalls'
      BY <1>2, <2>3, <3>1, MoveFresh DEF FreshCalls, Reservations
    <3>4. Agree' /\ OneEventPerCall'
      BY <2>3, <2>5, UnknownAgrees, UnknownEvents
    <3>5. QED
      BY <1>3, <3>2, <3>3, <3>4
  <2>6. QED
    BY <2>2, <2>4, <2>5
<1>6. QED
  BY <1>4, <1>5 DEF Reconciler, ReadStale, ReconcilerCrash, Tick, ChangeLimits

-----------------------------------------------------------------------------
(* The invariant and its consequences.                                      *)

LEMMA EmptyTotal ==
    ASSUME NEW f
    PROVE  Cardinality({}) = 0 /\ Total({}, f) = 0
<1>1. Units({}, f) = {}
  BY DEF Units
<1>2. QED
  BY <1>1, FS_EmptySet DEF Total

LEMMA InitInv ==
    ASSUME Init
    PROVE  IInv
<1>1. TypeInv
  BY InitType
<1>2. \A id \in Reservations : res[id].state = "none" /\ ledger[id] = <<>>
  BY DEF Init, NoReservation
<1>3. FreshCalls
  BY <1>2 DEF FreshCalls, Init, Reservations
<1>4. Answered /\ SentIsCharged
  BY DEF Answered, SentIsCharged, Init
<1>5. OneEventPerCall
  BY <1>2 DEF OneEventPerCall
<1>6. Agree
  <2>1. \A row : /\ Counted(res, row, Charged) = {}
                 /\ Counted(res, row, Held) = {}
                 /\ Counted(res, row, {"settled"}) = {}
    BY <1>2 DEF Counted, Charged, Held
  <2>2. \A row \in Rows : counter[row] = ZeroCounter
    BY DEF Init
  <2>3. QED
    BY <2>1, <2>2, EmptyTotal
       DEF Agree, CallsAgree, CostsAgree, InRow, ZeroCounter
<1>7. QED
  BY <1>1, <1>3, <1>4, <1>5, <1>6 DEF IInv

LEMMA StepInv ==
    ASSUME IInv, [Next]_vars
    PROVE  IInv'
<1>1. ASSUME NEW q \in Requests, Worker(q) \/ Crash(q)
      PROVE  IInv'
  BY <1>1, WorkerType, WorkerFresh, WorkerAnswered, WorkerAgrees,
     WorkerEvents, WorkerSent DEF IInv
<1>2. CASE \/ \E r \in Reconcilers : Reconciler(r) \/ ReconcilerCrash(r)
           \/ Tick \/ \E u \in Users : ChangeLimits(u)
  <2>1. TypeInv'
    BY <1>2, ReconcilerType, EnvironmentType DEF IInv
  <2>2. QED
    BY <1>2, <2>1, OthersStep DEF IInv
<1>3. CASE UNCHANGED vars
  <2>1. /\ TypeInv' /\ FreshCalls' /\ Answered' /\ OneEventPerCall'
        /\ SentIsCharged'
    BY <1>3 DEF IInv, vars, TypeInv, FreshCalls, Answered, OneEventPerCall,
                SentIsCharged
  <2>2. Agree'
    BY <1>3, QuietAgrees DEF IInv, vars, dbVars
  <2>3. QED
    BY <2>1, <2>2 DEF IInv
<1>4. QED
  BY <1>1, <1>2, <1>3 DEF Next

\* In every reachable state the counters agree with the reservations and the
\* ledger, each closed call has its one ledger row, a call that is with the
\* provider is charged, and requests have only the reservations their step
\* implies.
THEOREM Invariance == Spec => []IInv
<1>1. Init => IInv
  BY InitInv
<1>2. IInv /\ [Next]_vars => IInv'
  BY StepInv
<1>3. QED
  BY <1>1, <1>2, PTL DEF Spec

\* No counter column is ever negative, so the CHECK constraints of the counter
\* table never fail a transaction, and every variable has its type.
THEOREM TypeCorrect == Spec => []TypeOK
<1>1. IInv => TypeOK
  <2> SUFFICES ASSUME IInv
               PROVE  TypeOK
    OBVIOUS
  <2>1. counter \in [Rows -> CounterRecord]
    <3>1. \A row \in Rows :
            /\ counter[row] \in IntCounter
            /\ counter[row].calls_reserved \in Nat
            /\ counter[row].calls_settled \in Nat
            /\ counter[row].cost_reserved \in Nat
            /\ counter[row].cost \in Nat
      <4> TAKE row \in Rows
      <4>1. /\ IsFiniteSet(InRow(row, Charged)) /\ IsFiniteSet(InRow(row, Held))
            /\ IsFiniteSet(InRow(row, {"settled"}))
        BY FiniteReservations DEF InRow
      <4>2. /\ Cardinality(InRow(row, Charged)) \in Nat
            /\ Cardinality(InRow(row, {"settled"})) \in Nat
        BY <4>1, FS_CardinalityType
      <4>3. Total(InRow(row, Held), BoundOf) \in Nat
        <5>1. \A id \in InRow(row, Held) : BoundOf[id] \in Nat
          BY BoundOfType DEF IInv, InRow, Counted
        <5>2. QED
          BY <4>1, <5>1, TotalType
      <4>4. Total(InRow(row, {"settled"}), ChargeOf) \in Nat
        <5>1. \A id \in InRow(row, {"settled"}) : ChargeOf[id] \in Nat
          BY ChargeOfType DEF IInv, InRow, Counted
        <5>2. QED
          BY <4>1, <5>1, TotalType
      <4>5. QED
        BY <4>2, <4>3, <4>4
           DEF IInv, TypeInv, Agree, CallsAgree, CostsAgree
    <3>2. \A row \in Rows : counter[row] \in CounterRecord
      BY <3>1 DEF IntCounter, CounterRecord
    <3>3. QED
      BY <3>2 DEF IInv, TypeInv
  <2>2. QED
    BY <2>1 DEF IInv, TypeInv, TypeOK
<1>2. QED
  BY <1>1, Invariance, PTL

\* The call columns of every row count exactly its charged and settled calls.
THEOREM CallsAgreeAlways == Spec => []CallsAgree
<1>1. IInv => CallsAgree
  BY DEF IInv, Agree
<1>2. QED
  BY <1>1, Invariance, PTL

\* The cost columns of every row are exactly the held bounds and ledger costs.
THEOREM CostsAgreeAlways == Spec => []CostsAgree
<1>1. IInv => CostsAgree
  BY DEF IInv, Agree
<1>2. QED
  BY <1>1, Invariance, PTL

\* A settlement and a reconciliation of one call never both write a ledger row.
THEOREM OneEventAlways == Spec => []OneEventPerCall
<1>1. IInv => OneEventPerCall
  BY DEF IInv
<1>2. QED
  BY <1>1, Invariance, PTL

\* The quota of a call the provider may bill is never returned.
THEOREM SentIsChargedAlways == Spec => []SentIsCharged
<1>1. IInv => SentIsCharged
  BY DEF IInv
<1>2. QED
  BY <1>1, Invariance, PTL

LEMMA MoveLegal ==
    ASSUME NEW id \in Reservations, Moves(id), NEW x \in Reservations
    PROVE  LegalStep(res[x], res'[x])
BY DEF Moves, LegalStep

LEMMA WorkerLegal ==
    ASSUME TypeInv, FreshCalls, NEW q \in Requests, Worker(q) \/ Crash(q),
           NEW x \in Reservations
    PROVE  LegalStep(res[x], res'[x])
<1>1. <<q, call[q]>> \in Reservations
  BY DEF TypeInv, Reservations
<1>2. CASE ReserveInitial(q) \/ ReserveRepair(q)
  BY <1>2, ReserveInitialInserts, ReserveRepairInserts DEF Inserts, LegalStep
<1>3. CASE PreflightFails(q)
  BY <1>1, <1>3, ReleaseMoves, MoveLegal DEF PreflightFails
<1>4. CASE StartCall(q)
  BY <1>1, <1>4, StartMoves, MoveLegal
<1>5. CASE SettleCall(q)
  BY <1>1, <1>5, SettleMoves, MoveLegal DEF SettleCall
<1>6. CASE ReleaseNext(q)
  <2>1. PICK c \in todo[q] : ReleaseReservation(<<q, c>>)
    BY <1>6 DEF ReleaseNext
  <2>2. <<q, c>> \in Reservations
    BY DEF TypeInv, Reservations
  <2>3. QED
    BY <2>1, <2>2, ReleaseMoves, MoveLegal
<1>7. CASE \/ ReadLimits(q) \/ StartRefused(q) \/ ProviderReturns(q)
           \/ ReadDownstream(q) \/ FinishRelease(q) \/ Crash(q)
  BY <1>7 DEF LegalStep, dbVars, ReadLimits, StartRefused,
              ProviderReturns, ReadDownstream, FinishRelease, Crash
<1>8. QED
  BY <1>2, <1>3, <1>4, <1>5, <1>6, <1>7 DEF Worker

LEMMA ReconcilerLegal ==
    ASSUME TypeInv, NEW r \in Reconcilers, ReconcileNext(r),
           NEW x \in Reservations
    PROVE  LegalStep(res[x], res'[x])
<1>1. PICK entry \in batch[r] :
        ReleaseReservation(entry[1]) \/ MarkUnknown(entry[1])
  BY DEF ReconcileNext
<1>2. entry[1] \in Reservations
  BY DEF TypeInv
<1>3. QED
  BY <1>1, <1>2, ReleaseMoves, UnknownMoves, MoveLegal

\* No reservation is reopened, settled twice, released after it was started
\* or given another bound.
THEOREM ForwardOnlyAlways == Spec => ForwardOnly
<1> DEFINE Legal == \A id \in Reservations : LegalStep(res[id], res'[id])
<1>1. IInv /\ [Next]_vars => [Legal]_res
  <2> SUFFICES ASSUME IInv, [Next]_vars, res' # res, NEW x \in Reservations
               PROVE  LegalStep(res[x], res'[x])
    OBVIOUS
  <2>1. CASE \E q \in Requests : Worker(q) \/ Crash(q)
    BY <2>1, WorkerLegal DEF IInv
  <2>2. CASE \E r \in Reconcilers : ReconcileNext(r)
    BY <2>2, ReconcilerLegal DEF IInv
  <2>3. QED
    BY <2>1, <2>2 DEF Next, Reconciler, ReadStale, ReconcilerCrash, Tick,
                      ChangeLimits, vars, dbVars
<1>2. QED
  BY <1>1, Invariance, PTL DEF Spec, ForwardOnly
=============================================================================
