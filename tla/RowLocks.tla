------------------------------ MODULE RowLocks ------------------------------
(***************************************************************************)
(* PostgreSQL transactions at READ COMMITTED, as far as app/core/db.py     *)
(* leaves them to the database: row locks, uncommitted values, the end of  *)
(* a transaction, and circles of transactions that wait for each other.    *)
(* draft[x] holds the rows transaction x has locked, with its uncommitted  *)
(* values.                                                                 *)
(***************************************************************************)
CONSTANTS
    Rows,           \* rows of one table
    Transactions    \* one per HTTP request

VARIABLES
    table,          \* committed rows
    draft           \* per transaction, the rows it has locked

LockedByOther(x, r) == \E y \in Transactions \ {x} : r \in DOMAIN draft[y]

\* The row as transaction x sees it.
Seen(x, r) == IF r \in DOMAIN draft[x] THEN draft[x][r] ELSE table[r]

Write(x, r, row) ==
    draft' = [draft EXCEPT ![x] =
                [u \in DOMAIN @ \cup {r} |-> IF u = r THEN row ELSE @[u]]]

Unlocked == [r \in {} |-> r]

Commit(x) ==
    /\ table' = [r \in Rows |-> Seen(x, r)]
    /\ draft' = [draft EXCEPT ![x] = Unlocked]
Rollback(x) ==
    /\ draft' = [draft EXCEPT ![x] = Unlocked]
    /\ UNCHANGED table

\* x is one of a set of transactions that wait for each other, when wanted[y]
\* are the rows y has yet to lock.
InCircle(x, wanted) ==
    LET WaitsFor(y, z) == wanted[y] \cap DOMAIN draft[z] # {}
    IN  \E S \in SUBSET Transactions :
          /\ x \in S
          /\ \A y \in S : /\ \E z \in S \ {y} : WaitsFor(y, z)
                          /\ \E z \in S \ {y} : WaitsFor(z, y)
=============================================================================
