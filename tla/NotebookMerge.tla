---------------------------- MODULE NotebookMerge ----------------------------
(***************************************************************************)
(* The last-writer-wins merge of a notebook's cells                        *)
(* (app/modules/notebooks/services/notebook_merge.py) and the time a       *)
(* notebook is listed by.  Cells are a sequence of records, graves a       *)
(* function from the ids a client has deleted to the times it did so.      *)
(***************************************************************************)
EXTENDS Integers, Sequences, FiniteSets

CONSTANTS
    MaxCells,   \* MAX_CELLS_PER_NOTEBOOK
    FutureSkew  \* MAX_FUTURE_SKEW_MS, in ticks

ASSUME MergeAssumption == MaxCells \in Nat /\ FutureSkew \in Nat

Elements(cells) == {cells[n] : n \in DOMAIN cells}
Ids(cells) == {c.id : c \in Elements(cells)}
CellOf(cells, i) == CHOOSE c \in Elements(cells) : c.id = i

\* What the columns and the schemas have for cells: dates are not negative.
IsCells(cells) ==
    cells \in Seq(Elements(cells)) /\ \A c \in Elements(cells) : c.at \in Nat

\* What NotebookBase accepts, in a request as in a response.
Readable(cells) == Len(cells) <= MaxCells /\ Cardinality(Ids(cells)) = Len(cells)

\* Mutant of Survives: a tombstone deletes a cell however new it is.
SurvivesUndeleted(server, client, graves, i) ==
    i \in (Ids(server) \cup Ids(client)) \ DOMAIN graves

\* Whether the cell has a place in merged_by_id: a deleted one has if the
\* server's version is newer than the deletion.
Survives(server, client, graves, i) ==
    IF i \in DOMAIN graves
    THEN i \in Ids(server) /\ CellOf(server, i).at > graves[i]
    ELSE i \in Ids(server) \cup Ids(client)

\* Mutant of ClientWins: of two versions of one time the client's wins.
ClientWinsTies(server, client, graves, i) ==
    /\ i \in Ids(client) \ DOMAIN graves
    /\ i \in Ids(server) => CellOf(client, i).at >= CellOf(server, i).at

\* The client's version wins if the server has none or an older one.
ClientWins(server, client, graves, i) ==
    /\ i \in Ids(client) \ DOMAIN graves
    /\ i \in Ids(server) => CellOf(client, i).at > CellOf(server, i).at

Winner(server, client, graves, i) ==
    IF ClientWins(server, client, graves, i) THEN CellOf(client, i)
    ELSE CellOf(server, i)

\* The elements of s at the positions in P, in their order.
Select(s, P) ==
    LET Rank(p) == Cardinality({k \in P : k <= p})
    IN  [i \in 1 .. Cardinality(P) |-> s[CHOOSE p \in P : Rank(p) = i]]

\* merge_cells: the client's cells in its order, then those it did not know.
MergeCells(server, client, graves) ==
    LET Kept(c) == Survives(server, client, graves, c.id)
        ordered ==
            Select(client, {n \in DOMAIN client : Kept(client[n])}) \o
            Select(server, {n \in DOMAIN server :
                              Kept(server[n]) /\ server[n].id \notin Ids(client)})
    IN  [n \in DOMAIN ordered |->
            Winner(server, client, graves, ordered[n].id)]

Latest(cells) == CHOOSE t \in {c.at : c \in Elements(cells)} :
                    \A c \in Elements(cells) : c.at <= t

\* Mutant of ComputeUpdatedAt: the cells' own times are taken as they are.
UpdatedAtUncapped(cells, now) ==
    IF cells = <<>> \/ Latest(cells) < now THEN now ELSE Latest(cells)

\* _compute_updated_at: the latest cell's time, within now .. now + FutureSkew.
ComputeUpdatedAt(cells, now) ==
    IF cells = <<>> \/ Latest(cells) < now THEN now
    ELSE IF Latest(cells) > now + FutureSkew THEN now + FutureSkew
    ELSE Latest(cells)
=============================================================================
