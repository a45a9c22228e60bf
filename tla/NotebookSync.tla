---------------------------- MODULE NotebookSync ----------------------------
(***************************************************************************)
(* Notebooks (app/modules/notebooks): creation with an id that the client  *)
(* may choose, offline-first synchronisation, deletion that keeps the row, *)
(* and the restoration of the demo notebook.  A request reads the row      *)
(* without a lock and decides; save reads it once more, and the flush      *)
(* writes the columns that differ from that second reading, once no other  *)
(* transaction holds the row.  The response is sent before get_db commits. *)
(***************************************************************************)
EXTENDS NotebookMerge

CONSTANTS
    Users,
    NoUser,         \* the owner of a row that was never inserted
    Notebooks,      \* rows of notebooks.notebooks
    DemoId,         \* demo_id: the id of each user's demo notebook
    CurrentFormat,  \* CURRENT_FORMAT_VERSION
    Requests,       \* HTTP requests
    Workloads,      \* what the requests may be
    Seeds,          \* the rows there may be at first
    MaxClock        \* bound: the model's clock stops here

ASSUME NotebookAssumption ==
    /\ NoUser \notin Users
    /\ DemoId \in [Users -> Notebooks]
    /\ CurrentFormat \in Nat \ {0}
    /\ MaxClock \in Nat

VARIABLES
    clock,      \* now, in ticks
    notebook,   \* notebooks.notebooks, committed
    draft,      \* the rows each request has locked, as it would commit them
    pc,         \* the next statement of each request; "lost" if rolled back
    op,         \* what it asks for
    first,      \* the row as it read it to decide
    second,     \* the row as save read it
    now,        \* the time it took for the new version
    answer,     \* what it was answered
    overlapped  \* history: it committed over a row that it had not read

rowVars == <<notebook, draft>>
vars == <<clock, notebook, draft, pc, op, first, second, now, answer, overlapped>>

NoRow == [owner |-> NoUser, title |-> "", format |-> CurrentFormat,
          cells |-> <<>>, updated |-> 0, deleted |-> FALSE]

\* What the schemas let in, and what is stored at first.
ASSUME InputsAssumption ==
    /\ \A row \in Seeds :
         /\ DOMAIN row = DOMAIN NoRow
         /\ row.owner \in Users /\ row.format \in 1 .. CurrentFormat
         /\ row.deleted \in BOOLEAN /\ IsCells(row.cells) /\ Readable(row.cells)
         /\ row.updated \in Int /\ row.updated <= FutureSkew
    /\ \A w \in Workloads : \A q \in Requests :
         /\ w[q].user \in Users /\ w[q].notebook \in Notebooks
         /\ w[q].kind \in {"create", "patch"} =>
              /\ w[q].body.format \in Nat \ {0}
              /\ IsCells(w[q].body.cells) /\ Readable(w[q].body.cells)
         /\ w[q].kind = "patch" =>
              \A i \in DOMAIN w[q].body.graves : w[q].body.graves[i] \in Nat

INSTANCE RowLocks WITH Rows <- Notebooks, Transactions <- Requests,
                       table <- notebook

User(q) == op[q].user
Body(q) == op[q].body
Target(q) == IF op[q].kind = "restore" THEN DemoId[User(q)] ELSE op[q].notebook

Answer(q, result) == answer' = [answer EXCEPT ![q] = result]
Finish(q, result) == pc' = [pc EXCEPT ![q] = "done"] /\ Answer(q, result)
Goto(q, label) == pc' = [pc EXCEPT ![q] = label] /\ UNCHANGED answer

Init ==
    /\ clock = 0
    /\ notebook \in [Notebooks -> Seeds \cup {NoRow}]
    /\ draft = [q \in Requests |-> Unlocked]
    /\ pc = [q \in Requests |-> "idle"]
    /\ op \in Workloads
    /\ first = [q \in Requests |-> NoRow]
    /\ second = [q \in Requests |-> NoRow]
    /\ now = [q \in Requests |-> 0]
    /\ answer = [q \in Requests |-> "none"]
    /\ overlapped = {}

-----------------------------------------------------------------------------
(* The first SELECT and what the service decides on it.                     *)

Missing(row) == row = NoRow
\* _get_active_notebook finds nothing.
Hidden(row) == Missing(row) \/ row.deleted

\* Mutant of TooNew: a version of any format is stored.
TooNewNever(q) == FALSE

TooNew(q) == Body(q).format > CurrentFormat

SameAsStored(row, body) ==
    row.title = body.title /\ row.format = body.format /\ row.cells = body.cells

\* What the endpoint answers without changing anything; "save" if it goes on.
Verdict(q, row) ==
    CASE op[q].kind = "create" /\ Missing(row) ->
           IF TooNew(q) THEN "bad_format" ELSE "save"
      [] op[q].kind = "create" /\ ~Missing(row) ->
           IF row.owner # User(q) THEN "forbidden"
           ELSE IF row.deleted THEN "not_found"
           ELSE IF ~SameAsStored(row, Body(q)) THEN "conflict"
           ELSE "ok"
      [] op[q].kind = "restore" ->
           IF Missing(row) \/ row.owner # User(q) THEN "not_found"
           ELSE IF row.deleted THEN "save" ELSE "ok"
      [] OTHER ->
           IF Hidden(row) THEN "not_found"
           ELSE IF row.owner # User(q) THEN "forbidden"
           ELSE IF op[q].kind = "patch" /\ TooNew(q) THEN "bad_format"
           ELSE "save"

Saves == {"create", "patch", "delete", "restore"}

Decide(q) ==
    /\ pc[q] = "idle" /\ op[q].kind \in Saves
    /\ \E row \in {notebook[Target(q)]} :
         /\ IF Verdict(q, row) = "save" THEN Goto(q, "reread")
            ELSE Finish(q, Verdict(q, row))
         /\ first' = [first EXCEPT ![q] = row]
    /\ now' = [now EXCEPT ![q] = clock]
    /\ UNCHANGED <<clock, rowVars, op, second, overlapped>>

\* The entity that save is called with.
SyncedVersion(q, cells) ==
    [first[q] EXCEPT !.owner = IF first[q] = NoRow THEN User(q) ELSE @,
                     !.title = Body(q).title,
                     !.format = Body(q).format,
                     !.cells = cells,
                     !.updated = ComputeUpdatedAt(cells, now[q])]
Entity(q) ==
    CASE op[q].kind = "create" -> SyncedVersion(q, Body(q).cells)
      [] op[q].kind = "patch" ->
           SyncedVersion(q, MergeCells(first[q].cells, Body(q).cells, Body(q).graves))
      [] op[q].kind = "delete" -> [first[q] EXCEPT !.deleted = TRUE]
      [] op[q].kind = "restore" -> [first[q] EXCEPT !.deleted = FALSE]

-----------------------------------------------------------------------------
(* NotebookRepository.save.                                                 *)

\* db.get: the row that was read first is no longer in the session, so it is
\* selected again.
Reread(q) ==
    /\ pc[q] = "reread"
    /\ second' = [second EXCEPT ![q] = notebook[Target(q)]]
    /\ Goto(q, "flush")
    /\ UNCHANGED <<clock, rowVars, op, first, now, overlapped>>

\* Mutant of Unreadable: whatever was merged is stored.
UnreadableNever(q) == FALSE

\* to_response raises when the saved version is not what NotebookBase accepts;
\* a deletion has no response.
Unreadable(q) == op[q].kind # "delete" /\ ~Readable(Entity(q).cells)

Fail(q) ==
    /\ Rollback(q)
    /\ Finish(q, "error")
    /\ UNCHANGED <<clock, op, first, second, now, overlapped>>

\* An INSERT that finds the id taken, or a response that cannot be built.
FlushFails(q) ==
    /\ pc[q] = "flush"
    /\ ~LockedByOther(q, Target(q))
    /\ \/ second[q] = NoRow /\ notebook[Target(q)] # NoRow
       \/ Unreadable(q)
    /\ Fail(q)

\* An UPDATE waits for the row; an INSERT needs the id to be free.
Writable(q) ==
    /\ ~LockedByOther(q, Target(q))
    /\ second[q] = NoRow => notebook[Target(q)] = NoRow

\* Times that the request takes anew: they may differ from those that are stored
\* although they fall into one tick, or both only say that there is a deletion.
Retimed(q) ==
    CASE op[q].kind \in {"create", "patch"} -> {"updated"}
      [] op[q].kind = "delete" -> {"deleted"}
      [] OTHER -> {}

\* Mutant of Flushed: the columns are all written.
FlushedInFull(loaded, wanted, current, anew) == wanted

\* The UPDATE sets the columns whose value differs from the one loaded.
Flushed(loaded, wanted, current, anew) ==
    [c \in DOMAIN current |->
        IF wanted[c] = loaded[c] /\ c \notin anew THEN current[c] ELSE wanted[c]]

\* The row is written, unless nothing differs, and the response sent.
Flush(q) ==
    /\ pc[q] = "flush" /\ ~Unreadable(q)
    /\ \E anew \in SUBSET Retimed(q) :
         IF Entity(q) = second[q] /\ anew = {} THEN UNCHANGED draft
         ELSE /\ Writable(q)
              /\ Write(q, Target(q),
                       Flushed(second[q], Entity(q), notebook[Target(q)], anew))
    /\ pc' = [pc EXCEPT ![q] = "commit"]
    /\ Answer(q, IF op[q].kind = "create" THEN "created" ELSE "ok")
    /\ UNCHANGED <<clock, notebook, op, first, second, now, overlapped>>

CommitRequest(q) ==
    /\ pc[q] = "commit"
    /\ Commit(q)
    /\ overlapped' = IF notebook[Target(q)] = first[q] THEN overlapped
                     ELSE overlapped \cup {q}
    /\ pc' = [pc EXCEPT ![q] = "done"]
    /\ UNCHANGED <<clock, op, first, second, now, answer>>

-----------------------------------------------------------------------------
\* The process or its connection is lost before the commit.
Lose(q) ==
    /\ pc[q] \in {"reread", "flush", "commit"}
    /\ Rollback(q)
    /\ Goto(q, "lost")
    /\ UNCHANGED <<clock, op, first, second, now, overlapped>>

Tick ==
    /\ clock < MaxClock
    /\ clock' = clock + 1
    /\ UNCHANGED <<rowVars, pc, op, first, second, now, answer, overlapped>>

Save(q) == Reread(q) \/ Flush(q) \/ FlushFails(q) \/ CommitRequest(q)

Next == Tick \/ \E q \in Requests : Decide(q) \/ Save(q) \/ Lose(q)

Spec == Init /\ [][Next]_vars

-----------------------------------------------------------------------------
\* Types, and no row is locked twice.
TypeOK ==
    /\ clock \in 0 .. MaxClock
    /\ \A n \in Notebooks :
         /\ DOMAIN notebook[n] = DOMAIN NoRow
         /\ notebook[n].owner \in Users \cup {NoUser}
         /\ notebook[n].format \in 1 .. CurrentFormat
         /\ \A q \in Requests :
              n \in DOMAIN draft[q] => ~LockedByOther(q, n) /\ n = Target(q)
    /\ \A q \in Requests : draft[q] # Unlocked => pc[q] = "commit"

\* Every stored notebook can be read again: it has no two cells with one id and
\* not more cells than a response may have, whatever was merged into it and
\* however requests overlapped (to_response fails before the commit).
StoredIsReadable == \A n \in Notebooks : Readable(notebook[n].cells)

\* A patch that is committed.  That it was answered "ok" is not enough: the
\* answer is sent before the commit, which may be lost.
SavedPatch(q) == op[q].kind = "patch" /\ pc[q] = "done" /\ answer[q] = "ok"

\* As long as no request commits over a row that has changed since it first read
\* it, no edit of a patch that is committed is lost: each of its cells is stored in
\* that version or a newer one, or gave way to the version of the same time that
\* the patch had found, or a saved deletion of it is at least as late (merge_cells).
\* Of two patches that overlap one may be lost with all its cells (patch, save).
CommittedEditsStand ==
    overlapped = {} =>
        \A q \in Requests : SavedPatch(q) =>
            \A c \in Elements(Body(q).cells) :
                \/ \E s \in Elements(notebook[Target(q)].cells) :
                      /\ s.id = c.id
                      /\ \/ s = c \/ s.at > c.at
                         \/ s.at = c.at /\ s \in Elements(first[q].cells)
                \/ \E r \in Requests :
                      /\ SavedPatch(r) /\ Target(r) = Target(q)
                      /\ c.id \in DOMAIN Body(r).graves
                      /\ r = q \/ Body(r).graves[c.id] >= c.at

\* A deletion that is committed after a save has read the row survives it,
\* because the UPDATE leaves deleted_at alone; so only two requests undo one: a
\* restoration, and a save that found the notebook alive (or absent) first and
\* deleted when it read it again.  The second is against the promise of
\* delete_notebook that all later reads answer 404
\* (notebooks_controller.py:231-232).
RevivedByRestoreOrOverlap ==
    [][\A n \in Notebooks :
         notebook[n].deleted /\ ~notebook'[n].deleted =>
            \E q \in Requests :
                /\ Target(q) = n /\ pc[q] = "commit" /\ pc'[q] = "done"
                /\ second[q].deleted
                /\ op[q].kind = "restore" \/ ~first[q].deleted]_vars

\* The time a notebook is listed by is never further ahead of the server's
\* clock than the allowed skew, whatever times the clients' cells have
\* (_compute_updated_at).
UpdatedIsNear == \A n \in Notebooks : notebook[n].updated <= clock + FutureSkew

\* Of all creations of one id at most one is answered as a creation: the others
\* are told that it exists (create).
CreatedOnce ==
    \A q, r \in Requests :
        /\ op[q].kind = "create" /\ answer[q] = "created" /\ pc[q] = "done"
        /\ op[r].kind = "create" /\ answer[r] = "created" /\ pc[r] = "done"
        /\ Target(q) = Target(r)
        => q = r
=============================================================================
