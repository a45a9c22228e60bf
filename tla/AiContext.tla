------------------------------ MODULE AiContext ------------------------------
(***************************************************************************)
(* The context for code generation that is stored with a notebook          *)
(* (app/modules/ai_context), composed with the requests on the notebooks   *)
(* themselves.  A request checks the notebook, rolls the history up to the *)
(* budget (which may take a call to a language model), and then reads and  *)
(* writes the row of the context; nothing ties that row to the notebook in *)
(* the database.                                                           *)
(***************************************************************************)
EXTENDS NotebookSync, Tally

CONSTANTS
    MaxItems,       \* MAX_CONTEXT_ITEMS
    ByteCap,        \* llm_max_prompt_bytes
    MinSummary,     \* _MIN_SUMMARY_BYTES
    MaxSource       \* MAX_CONTEXT_SOURCE_LENGTH

ASSUME ContextAssumption ==
    /\ MaxItems \in Nat \ {0}
    /\ ByteCap \in Nat /\ MinSummary \in 1 .. ByteCap
    /\ MaxSource \in Nat \ {0}
    /\ \A w \in Workloads : \A q \in Requests : w[q].kind = "store" =>
         /\ w[q].body \in Seq(Elements(w[q].body))
         /\ \A item \in Elements(w[q].body) : item.bytes \in Nat

VARIABLES
    context,        \* notebooks.notebook_ai_context, committed
    contextDraft,   \* the rows each request has locked, as it would commit them
    loaded          \* the row as each request read it

contextVars == <<context, contextDraft, loaded>>

\* An item is what its source is about and the bytes of the source.
Item(about, bytes) == [about |-> about, bytes |-> bytes]
NoSummary == {}
NoContext == [owner |-> NoUser, items |-> <<>>, summary |-> NoSummary, history |-> 0]

ContextLock == INSTANCE RowLocks WITH Rows <- Notebooks, Transactions <- Requests,
                                      table <- context, draft <- contextDraft

ContextInit ==
    /\ Init
    /\ context \in [Notebooks -> {NoContext}]
    /\ contextDraft = [q \in Requests |-> Unlocked]
    /\ loaded = [q \in Requests |-> NoContext]

-----------------------------------------------------------------------------
(* The roll-up.                                                             *)

Bytes(items) == Total(DOMAIN items, [n \in DOMAIN items |-> items[n].bytes])
Suffix(items, k) == SubSeq(items, Len(items) - k + 1, Len(items))
Fits(items) == Len(items) <= MaxItems /\ Bytes(items) <= ByteCap

\* Mutant of Keeps: the summary's slot is not counted.
KeepsToTheBrim(items, k) ==
    /\ k <= MaxItems /\ k <= Len(items)
    /\ k = 0 \/ Bytes(Suffix(items, k)) <= ByteCap - MinSummary

\* The newest k items are kept if that leaves an item and MinSummary bytes for
\* the summary.
Keeps(items, k) ==
    /\ k < MaxItems /\ k <= Len(items)
    /\ k = 0 \/ Bytes(Suffix(items, k)) <= ByteCap - MinSummary

SummaryBudget(kept) ==
    IF ByteCap - Bytes(kept) < MaxSource THEN ByteCap - Bytes(kept) ELSE MaxSource

\* _roll_up: as many of the newest items as can be kept, after one item that
\* summarises the others in any number of bytes up to its budget.
RollUp(items) ==
    IF Fits(items) THEN {[items |-> items, summary |-> NoSummary]}
    ELSE LET k == CHOOSE k \in 0 .. Len(items) :
                     /\ Keeps(items, k)
                     /\ \A j \in 0 .. Len(items) : Keeps(items, j) => j <= k
             folded == SubSeq(items, 1, Len(items) - k)
             about == UNION {folded[n].about : n \in DOMAIN folded}
             kept == Suffix(items, k)
         IN  {[items |-> <<Item(about, b)>> \o kept, summary |-> about] :
                b \in 1 .. SummaryBudget(kept)}

-----------------------------------------------------------------------------
ContextKinds == {"store", "load", "clear"}

\* enforce_ai_context_body_size and validate_size.
Oversized(q) == op[q].kind = "store" /\ Bytes(Body(q)) > ByteCap

\* The notebook's existence and owner are checked.
CheckNotebook(q) ==
    /\ pc[q] = "idle" /\ op[q].kind \in ContextKinds
    /\ \E row \in {notebook[Target(q)]} :
         /\ first' = [first EXCEPT ![q] = row]
         /\ CASE Oversized(q) -> Finish(q, "unprocessable")
              [] ~Oversized(q) /\ Hidden(row) -> Finish(q, "not_found")
              [] ~Oversized(q) /\ ~Hidden(row) /\ row.owner # User(q) ->
                    Finish(q, "forbidden")
              [] OTHER -> Goto(q, "context")
    /\ UNCHANGED <<clock, rowVars, op, second, now, overlapped, contextVars>>

\* db.get of the row of the context.  A load is answered with it, or with an
\* empty context; there may be nothing to clear.
ReadContext(q) ==
    /\ pc[q] = "context"
    /\ \E row \in {context[Target(q)]} :
         /\ loaded' = [loaded EXCEPT ![q] = row]
         /\ CASE op[q].kind = "load" ->
                   Finish(q, IF row.owner = User(q) THEN "stored" ELSE "empty")
              [] op[q].kind = "clear" /\ row = NoContext -> Finish(q, "ok")
              [] OTHER -> Goto(q, "write")
    /\ UNCHANGED <<clock, rowVars, op, first, second, now, overlapped,
                   context, contextDraft>>

ContextEntity(q, built) ==
    [owner |-> User(q), items |-> built.items, summary |-> built.summary,
     history |-> Len(Body(q))]

ContextUnlocked(q) ==
    /\ pc[q] = "write"
    /\ ~ContextLock!LockedByOther(q, Target(q))

ContextWritten(q, row) ==
    /\ ContextLock!Write(q, Target(q), row)
    /\ pc' = [pc EXCEPT ![q] = "context_commit"]
    /\ Answer(q, "ok")
    /\ UNCHANGED <<clock, rowVars, op, first, second, now, overlapped,
                   context, loaded>>

\* Mutant of StillThere: the row is written whether it is there or not.
StillThereOrNot(q) == TRUE

\* Whether the row is still there, or still absent, as it was when it was read.
StillThere(q) == (context[Target(q)] = NoContext) <=> (loaded[q] = NoContext)

\* The flush of upsert: an INSERT, or an UPDATE of the columns that differ from
\* the row that was read (updated_at always does).
StoreContext(q) ==
    /\ op[q].kind = "store" /\ ContextUnlocked(q) /\ StillThere(q)
    /\ \E built \in RollUp(Body(q)) :
         ContextWritten(q, Flushed(loaded[q], ContextEntity(q, built),
                                   context[Target(q)], {}))

\* The INSERT finds the row taken, or the UPDATE finds no row.
StoreFails(q) ==
    /\ op[q].kind = "store" /\ ContextUnlocked(q) /\ ~StillThere(q)
    /\ Finish(q, "error")
    /\ UNCHANGED <<clock, rowVars, op, first, second, now, overlapped, contextVars>>

\* The DELETE; it does not matter whether the row is still there.
ClearContext(q) ==
    /\ op[q].kind = "clear" /\ ContextUnlocked(q)
    /\ ContextWritten(q, NoContext)

CommitContext(q) ==
    /\ pc[q] = "context_commit"
    /\ ContextLock!Commit(q)
    /\ pc' = [pc EXCEPT ![q] = "done"]
    /\ UNCHANGED <<clock, rowVars, op, first, second, now, answer, overlapped, loaded>>

LoseContext(q) ==
    /\ pc[q] \in {"context", "write", "context_commit"}
    /\ ContextLock!Rollback(q)
    /\ Goto(q, "lost")
    /\ UNCHANGED <<clock, rowVars, op, first, second, now, overlapped, loaded>>

ContextStep(q) ==
    \/ CheckNotebook(q) \/ ReadContext(q) \/ StoreContext(q) \/ StoreFails(q)
    \/ ClearContext(q) \/ CommitContext(q) \/ LoseContext(q)

ContextNext ==
    \/ Next /\ UNCHANGED contextVars
    \/ \E q \in Requests : ContextStep(q)

ContextSpec == ContextInit /\ [][ContextNext]_<<vars, contextVars>>

-----------------------------------------------------------------------------
\* A stored context fits the limits of a generation request, with the summary
\* that was put before it, also when the columns of one row come from several
\* requests (SummaryResult).
ContextFits == \A n \in Notebooks : Fits(context[n].items)

\* What was cleared stays cleared: a row appears only by a request that found
\* none, so a store that overlaps a clear fails instead of bringing back the
\* columns it had read (StaleDataError of the UPDATE).
ClearedStaysCleared ==
    [][\A n \in Notebooks :
         context[n] = NoContext /\ context'[n] # NoContext =>
            \E q \in Requests :
                /\ Target(q) = n /\ op[q].kind = "store"
                /\ pc[q] = "context_commit" /\ pc'[q] = "done"
                /\ loaded[q] = NoContext]_<<vars, contextVars>>
=============================================================================
