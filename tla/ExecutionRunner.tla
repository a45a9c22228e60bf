--------------------------- MODULE ExecutionRunner ---------------------------
(***************************************************************************)
(* POST /execute (app/modules/execution): a handler starts a child process *)
(* in a process group of its own, two threads drain its output, and the    *)
(* handler waits for the child until a deadline, kills the group if it     *)
(* passes, and joins the threads.  The program may start other processes,  *)
(* which inherit its pipes and may leave its group.                        *)
(***************************************************************************)
EXTENDS Integers, FiniteSets

CONSTANTS
    Child,      \* the node process
    Helpers,    \* processes that the program may start
    Endless,    \* processes that need not end by themselves
    MaxOutput,  \* execute_max_output_bytes, in chunks
    PipeSize,   \* chunks that a pipe holds
    MaxWritten  \* bound: chunks written to one stream

ASSUME RunnerAssumption ==
    /\ Child \notin Helpers /\ IsFiniteSet(Helpers)
    /\ {PipeSize, MaxWritten} \subseteq Nat \ {0} /\ MaxOutput \in Nat

Processes == {Child} \cup Helpers
Streams == {"stdout", "stderr"}

VARIABLES
    request,    \* what the endpoint and the service decide on
    phase,      \* where the handler is
    timedOut,   \* the deadline has passed
    answer,     \* the status of the response, or an error
    state,      \* of each process: "none", "running" or "ended"
    holds,      \* the streams each process has inherited
    group,      \* the processes in the child's group
    exit,       \* the child's exit code
    pipe,       \* chunks in each pipe
    written,    \* history: chunks written to it
    reader,     \* "reading" or "ended"
    kept        \* chunks the reader has kept

handlerVars == <<request, phase, timedOut, answer>>
processVars == <<state, holds, group, exit>>
pipeVars == <<pipe, written, reader, kept>>
vars == <<handlerVars, processVars, pipeVars>>

\* The conditions that end a request early.
Refusals ==
    {"execute_disabled", "unauthorized", "code_too_large", "unsupported_language",
     "runner_unavailable"}

Init ==
    /\ request \in SUBSET Refusals
    /\ phase = "gate" /\ timedOut = FALSE /\ answer = "none"
    /\ state = [p \in Processes |-> "none"]
    /\ holds = [p \in Processes |-> {}]
    /\ group = {} /\ exit = 0
    /\ pipe = [s \in Streams |-> 0]
    /\ written = [s \in Streams |-> 0]
    /\ reader = [s \in Streams |-> "reading"]
    /\ kept = [s \in Streams |-> 0]

Answer(status) == phase' = "done" /\ answer' = status

-----------------------------------------------------------------------------
(* The handler.                                                             *)

\* The first condition that holds, in the order of the code.
Refuse ==
    /\ phase = "gate" /\ request # {}
    /\ Answer(CASE "execute_disabled" \in request -> "execute_disabled"
                [] "execute_disabled" \notin request /\ "unauthorized" \in request ->
                     "unauthorized"
                [] request \cap {"execute_disabled", "unauthorized"} = {}
                   /\ "code_too_large" \in request -> "code_too_large"
                [] request \subseteq {"unsupported_language", "runner_unavailable"}
                   /\ "unsupported_language" \in request -> "unsupported_language"
                [] OTHER -> "runner_unavailable")
    /\ UNCHANGED <<request, timedOut, processVars, pipeVars>>

\* Popen with setsid in the child, and the start of the readers.
Start ==
    /\ phase = "gate" /\ request = {}
    /\ phase' = "wait"
    /\ state' = [state EXCEPT ![Child] = "running"]
    /\ holds' = [holds EXCEPT ![Child] = Streams]
    /\ group' = {Child}
    /\ UNCHANGED <<request, timedOut, answer, exit, pipeVars>>

\* Popen raises another error than FileNotFoundError, which nothing translates:
\* no process exists, and the request is answered by the error handler.
StartFails ==
    /\ phase = "gate" /\ request = {}
    /\ Answer("internal_error")
    /\ UNCHANGED <<request, timedOut, processVars, pipeVars>>

Reap ==
    /\ phase \in {"wait", "reap"} /\ state[Child] = "ended"
    /\ phase' = "join"
    /\ UNCHANGED <<request, timedOut, answer, processVars, pipeVars>>

\* Mutant of Deadline: the handler waits as long as the child takes.
DeadlineNever == FALSE /\ UNCHANGED vars

\* TimeoutExpired; the child may end before it is killed.
Deadline ==
    /\ phase = "wait"
    /\ phase' = "kill" /\ timedOut' = TRUE
    /\ UNCHANGED <<request, answer, processVars, pipeVars>>

Kill(ended) ==
    /\ phase = "kill"
    /\ phase' = "reap"
    /\ state' = [p \in Processes |->
                    IF p \in ended /\ state[p] = "running" THEN "ended" ELSE state[p]]
    /\ UNCHANGED <<request, timedOut, answer, holds, group, exit, pipeVars>>

\* Mutant of Terminate: the child is killed and not its group.
TerminateChild == Kill({Child})

\* _terminate_process_group.
Terminate == Kill(group)

\* Mutant of Joined: the readers are not waited for.
JoinedAtOnce == TRUE

Joined == \A s \in Streams : reader[s] = "ended"

\* The readers are joined, and the outcome mapped to a status.
Finish ==
    /\ phase = "join" /\ Joined
    /\ Answer(CASE timedOut -> "timeout"
                [] ~timedOut /\ exit = 0 -> "ok"
                [] OTHER -> "error")
    /\ UNCHANGED <<request, timedOut, processVars, pipeVars>>

-----------------------------------------------------------------------------
(* The readers.                                                             *)

Held(s) == \E p \in Processes : state[p] = "running" /\ s \in holds[p]

\* Mutant of Read: a reader ends when it has kept what it may.
ReadUpToCap(s) ==
    /\ reader[s] = "reading" /\ pipe[s] > 0
    /\ pipe' = [pipe EXCEPT ![s] = @ - 1]
    /\ kept' = [kept EXCEPT ![s] = IF @ < MaxOutput THEN @ + 1 ELSE @]
    /\ reader' = [reader EXCEPT ![s] = IF kept'[s] = MaxOutput THEN "ended" ELSE @]
    /\ UNCHANGED <<handlerVars, processVars, written>>

\* Mutant of Read: the cap is not applied.
ReadAll(s) ==
    /\ reader[s] = "reading" /\ pipe[s] > 0
    /\ pipe' = [pipe EXCEPT ![s] = @ - 1]
    /\ kept' = [kept EXCEPT ![s] = @ + 1]
    /\ UNCHANGED <<handlerVars, processVars, written, reader>>

\* A chunk is kept, or dropped past the cap.
Read(s) ==
    /\ reader[s] = "reading" /\ pipe[s] > 0
    /\ pipe' = [pipe EXCEPT ![s] = @ - 1]
    /\ kept' = [kept EXCEPT ![s] = IF @ < MaxOutput THEN @ + 1 ELSE @]
    /\ UNCHANGED <<handlerVars, processVars, written, reader>>

\* End of file: the pipe is empty and no process can write to it any more.
EndOfFile(s) ==
    /\ phase # "gate" /\ reader[s] = "reading" /\ pipe[s] = 0 /\ ~Held(s)
    /\ reader' = [reader EXCEPT ![s] = "ended"]
    /\ UNCHANGED <<handlerVars, processVars, pipe, written, kept>>

-----------------------------------------------------------------------------
(* The program.                                                             *)

\* A process writes, and waits while the pipe is full.
WriteTo(p, s) ==
    /\ state[p] = "running" /\ s \in holds[p]
    /\ pipe[s] < PipeSize /\ written[s] < MaxWritten
    /\ pipe' = [pipe EXCEPT ![s] = @ + 1]
    /\ written' = [written EXCEPT ![s] = @ + 1]
    /\ UNCHANGED <<handlerVars, processVars, reader, kept>>

\* A process starts another, with some of its streams, in its group or not.
Spawn(p, h) ==
    /\ state[p] = "running" /\ state[h] = "none"
    /\ state' = [state EXCEPT ![h] = "running"]
    /\ \E inherited \in SUBSET holds[p] : holds' = [holds EXCEPT ![h] = inherited]
    /\ \E detached \in BOOLEAN :
         group' = IF p \in group /\ ~detached THEN group \cup {h} ELSE group
    /\ UNCHANGED <<handlerVars, exit, pipeVars>>

\* A process ends, by itself or because of its CPU or file-size limit.
Exit(p) ==
    /\ state[p] = "running"
    /\ state' = [state EXCEPT ![p] = "ended"]
    /\ exit' \in IF p = Child THEN {0, 1} ELSE {exit}
    /\ UNCHANGED <<handlerVars, holds, group, pipeVars>>

Handle == Refuse \/ Start \/ StartFails \/ Reap \/ Terminate \/ Finish
Drain(s) == Read(s) \/ EndOfFile(s)

Next ==
    \/ Handle \/ Deadline
    \/ \E s \in Streams : Drain(s)
    \/ \E p \in Processes :
         \/ Exit(p)
         \/ \E s \in Streams : WriteTo(p, s)
         \/ \E h \in Helpers : Spawn(p, h)

Spec == Init /\ [][Next]_vars

\* Threads of the service run, deadlines pass, and processes end unless they
\* are endless.
FairSpec ==
    /\ Spec
    /\ WF_vars(Handle) /\ WF_vars(Deadline)
    /\ \A s \in Streams : WF_vars(Drain(s))
    /\ \A p \in Processes \ Endless : WF_vars(Exit(p))

-----------------------------------------------------------------------------
\* Types; no more is kept of a stream than may be.
TypeOK ==
    /\ state \in [Processes -> {"none", "running", "ended"}]
    /\ group \subseteq {p \in Processes : state[p] # "none"}
    /\ \A s \in Streams :
         /\ pipe[s] \in 0 .. PipeSize /\ written[s] \in pipe[s] .. MaxWritten
         /\ kept[s] \in 0 .. MaxOutput
    /\ answer # "none" <=> phase = "done"

\* The answer of a program that ran has all that it and the processes it
\* started wrote, up to the cap, however its end, the deadline and the readers
\* meet (run, _BoundedStreamReader).
OutputComplete ==
    answer \in {"ok", "error", "timeout"} =>
        \A s \in Streams :
            kept[s] = IF written[s] < MaxOutput THEN written[s] ELSE MaxOutput

\* No process is left writing to a pipe that nobody drains, in particular not past
\* the cap (_BoundedStreamReader).
DrainedWhileHeld == \A s \in Streams : Held(s) => phase = "gate" \/ reader[s] = "reading"

\* After a timeout no process of the program's group is left
\* (_terminate_process_group).
NoOrphans == answer = "timeout" => \A p \in group : state[p] = "ended"

\* Every request is answered, even when the program runs for ever: the
\* deadline ends it, and the readers then find the end of their pipes.
EventuallyAnswered == <>(phase = "done")
=============================================================================
