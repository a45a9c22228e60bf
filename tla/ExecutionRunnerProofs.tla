------------------------ MODULE ExecutionRunnerProofs ------------------------
(***************************************************************************)
(* The safety properties of ExecutionRunner, for any number of processes,  *)
(* any cap, any size of pipe and any amount of output.                     *)
(***************************************************************************)
EXTENDS ExecutionRunner, TLAPS

Phases == {"gate", "wait", "kill", "reap", "join", "done"}
Statuses == {"ok", "error", "timeout"}

TypeInv ==
    /\ request \subseteq Refusals
    /\ phase \in Phases
    /\ timedOut \in BOOLEAN
    /\ answer \in {"none", "internal_error"} \cup Statuses \cup Refusals
    /\ answer # "none" <=> phase = "done"
    /\ state \in [Processes -> {"none", "running", "ended"}]
    /\ holds \in [Processes -> SUBSET Streams]
    /\ group \subseteq {p \in Processes : state[p] # "none"}
    /\ pipe \in [Streams -> 0 .. PipeSize]
    /\ written \in [Streams -> 0 .. MaxWritten]
    /\ reader \in [Streams -> {"reading", "ended"}]
    /\ kept \in [Streams -> 0 .. MaxOutput]

\* What was written and is not in the pipe any more was kept, up to the cap.
Conserved ==
    \A s \in Streams :
        /\ pipe[s] <= written[s]
        /\ kept[s] = IF written[s] - pipe[s] < MaxOutput
                     THEN written[s] - pipe[s] ELSE MaxOutput

\* A reader has ended only where nothing is left and nothing can come.
Drained ==
    \A s \in Streams :
        reader[s] = "ended" => phase # "gate" /\ pipe[s] = 0 /\ ~Held(s)

\* The statuses of a program that ran are given once the readers have ended.
Ran == answer \in Statuses => \A s \in Streams : reader[s] = "ended"

\* Once the group was killed, nothing of it runs and nothing can join it.
Killed ==
    /\ phase \in {"gate", "wait"} => ~timedOut
    /\ answer = "timeout" => timedOut
    /\ timedOut /\ phase \in {"reap", "join", "done"} =>
          \A p \in group : state[p] = "ended"

IInv == TypeInv /\ Conserved /\ Drained /\ Ran /\ Killed

-----------------------------------------------------------------------------
LEMMA InitHolds == Init => IInv
<1> SUFFICES ASSUME Init PROVE IInv
  OBVIOUS
<1> USE RunnerAssumption
<1>1. TypeInv
  <2>1. /\ request \subseteq Refusals /\ phase \in Phases /\ timedOut \in BOOLEAN
        /\ answer = "none" /\ phase = "gate" /\ group = {}
    BY DEF Init, Phases
  <2>2. /\ state \in [Processes -> {"none", "running", "ended"}]
        /\ holds \in [Processes -> SUBSET Streams]
    BY DEF Init
  <2>3. /\ pipe \in [Streams -> 0 .. PipeSize]
        /\ written \in [Streams -> 0 .. MaxWritten]
        /\ reader \in [Streams -> {"reading", "ended"}]
        /\ kept \in [Streams -> 0 .. MaxOutput]
    BY DEF Init
  <2> QED BY <2>1, <2>2, <2>3 DEF TypeInv
<1>2. Conserved
  BY DEF Init, Conserved, Streams
<1>3. Drained /\ Ran /\ Killed
  BY DEF Init, Drained, Ran, Killed, Statuses, Streams
<1> QED BY <1>1, <1>2, <1>3 DEF IInv

\* The handler changes neither what was written nor what was read.
LEMMA HandlerKeeps ==
    ASSUME IInv,
           Refuse \/ Start \/ StartFails \/ Reap \/ Deadline \/ Terminate \/ Finish
    PROVE  IInv'
<1> USE RunnerAssumption DEF IInv
<1>1. CASE Refuse \/ StartFails
  <2>1. /\ phase = "gate" /\ phase' = "done"
        /\ answer' \in Refusals \cup {"internal_error"}
    BY <1>1 DEF Refuse, StartFails, Answer, Refusals
  <2>2. UNCHANGED <<request, timedOut, processVars, pipeVars>>
    BY <1>1 DEF Refuse, StartFails
  <2>3. answer' \notin Statuses /\ answer' # "none" /\ ~timedOut
    BY <2>1 DEF Refusals, Statuses, Killed
  <2>4. TypeInv' /\ Conserved'
    BY <2>1, <2>2, <2>3 DEF TypeInv, Conserved, Phases, processVars, pipeVars
  <2>5. Drained' /\ Ran' /\ Killed'
    BY <2>1, <2>2, <2>3 DEF Drained, Ran, Killed, Held, Statuses, processVars, pipeVars
  <2> QED BY <2>4, <2>5
<1>2. CASE Start
  <2>1. \A s \in Streams : reader[s] = "reading"
    BY <1>2 DEF Start, Drained, TypeInv
  <2>2. TypeInv' /\ Conserved'
    BY <1>2 DEF Start, TypeInv, Conserved, Phases, Processes, pipeVars
  <2>3. Drained' /\ Ran' /\ Killed'
    BY <1>2, <2>1 DEF Start, Drained, Ran, Killed, TypeInv, Statuses, pipeVars
  <2> QED BY <2>2, <2>3
<1>3. CASE Reap
  <2>1. TypeInv' /\ Conserved'
    BY <1>3 DEF Reap, TypeInv, Conserved, Phases, processVars, pipeVars
  <2>2. Drained' /\ Ran' /\ Killed'
    BY <1>3 DEF Reap, Drained, Ran, Killed, Held, Statuses, processVars, pipeVars
  <2> QED BY <2>1, <2>2
<1>4. CASE Deadline
  <2>1. TypeInv' /\ Conserved'
    BY <1>4 DEF Deadline, TypeInv, Conserved, Phases, processVars, pipeVars
  <2>2. Drained' /\ Ran' /\ Killed'
    BY <1>4 DEF Deadline, Drained, Ran, Killed, Held, Statuses, processVars, pipeVars
  <2> QED BY <2>1, <2>2
<1>5. CASE Terminate
  <2>1. /\ phase = "kill" /\ phase' = "reap"
        /\ state' = [p \in Processes |->
                        IF p \in group /\ state[p] = "running" THEN "ended" ELSE state[p]]
        /\ UNCHANGED <<request, timedOut, answer, holds, group, exit, pipeVars>>
    BY <1>5 DEF Terminate, Kill
  <2>2. TypeInv' /\ Conserved'
    BY <2>1 DEF TypeInv, Conserved, Phases, pipeVars
  <2>3. Drained' /\ Ran'
    BY <2>1 DEF TypeInv, Drained, Ran, Held, pipeVars
  <2>4. Killed'
    BY <2>1 DEF TypeInv, Killed
  <2> QED BY <2>2, <2>3, <2>4
<1>6. CASE Finish
  <2>1. /\ phase = "join" /\ phase' = "done" /\ Joined
        /\ answer' \in Statuses /\ (answer' = "timeout" => timedOut)
        /\ UNCHANGED <<request, timedOut, processVars, pipeVars>>
    BY <1>6 DEF Finish, Answer, Statuses
  <2>2. TypeInv' /\ Conserved'
    BY <2>1 DEF TypeInv, Conserved, Phases, Statuses, processVars, pipeVars
  <2>3. Drained' /\ Ran' /\ Killed'
    BY <2>1 DEF Drained, Ran, Killed, Joined, Held, processVars, pipeVars
  <2> QED BY <2>2, <2>3
<1> QED BY <1>1, <1>2, <1>3, <1>4, <1>5, <1>6

LEMMA ReaderKeeps ==
    ASSUME IInv, NEW s \in Streams, Read(s) \/ EndOfFile(s)
    PROVE  IInv'
<1> USE RunnerAssumption DEF IInv
<1>1. CASE Read(s)
  <2>1. TypeInv'
    BY <1>1 DEF Read, TypeInv, handlerVars, processVars
  <2>2. Conserved'
    BY <1>1 DEF Read, TypeInv, Conserved, handlerVars, processVars
  <2>3. Drained' /\ Ran' /\ Killed'
    BY <1>1 DEF Read, TypeInv, Drained, Ran, Killed, Held, handlerVars, processVars
  <2> QED BY <2>1, <2>2, <2>3
<1>2. CASE EndOfFile(s)
  <2>1. TypeInv' /\ Conserved'
    BY <1>2 DEF EndOfFile, TypeInv, Conserved, handlerVars, processVars
  <2>2. Drained' /\ Ran' /\ Killed'
    BY <1>2 DEF EndOfFile, TypeInv, Drained, Ran, Killed, Held, handlerVars, processVars
  <2> QED BY <2>1, <2>2
<1> QED BY <1>1, <1>2

LEMMA ProgramKeeps ==
    ASSUME IInv, NEW p \in Processes,
           \/ Exit(p)
           \/ \E s \in Streams : WriteTo(p, s)
           \/ \E h \in Helpers : Spawn(p, h)
    PROVE  IInv'
<1> USE RunnerAssumption DEF IInv
<1>1. CASE Exit(p)
  <2>1. TypeInv' /\ Conserved'
    BY <1>1 DEF Exit, TypeInv, Conserved, handlerVars, pipeVars
  <2>2. Drained' /\ Ran' /\ Killed'
    BY <1>1 DEF Exit, TypeInv, Drained, Ran, Killed, Held, handlerVars, pipeVars
  <2> QED BY <2>1, <2>2
<1>2. ASSUME NEW s \in Streams, WriteTo(p, s) PROVE IInv'
  <2>1. reader[s] = "reading"
    BY <1>2 DEF WriteTo, Drained, Held, TypeInv
  <2>2. TypeInv'
    BY <1>2 DEF WriteTo, TypeInv, handlerVars, processVars
  <2>3. Conserved'
    BY <1>2 DEF WriteTo, TypeInv, Conserved
  <2>4. Drained' /\ Ran' /\ Killed'
    BY <1>2, <2>1 DEF WriteTo, TypeInv, Drained, Ran, Killed, Held, handlerVars, processVars
  <2> QED BY <2>2, <2>3, <2>4
<1>3. ASSUME NEW h \in Helpers, Spawn(p, h) PROVE IInv'
  <2>1. h \in Processes /\ h # p /\ h \notin group
    BY <1>3 DEF Spawn, Processes, TypeInv
  <2>2. PICK inherited \in SUBSET holds[p] : holds' = [holds EXCEPT ![h] = inherited]
    BY <1>3 DEF Spawn
  <2>3. /\ group' \subseteq group \cup {h}
        /\ group' = group \/ p \in group
    BY <1>3 DEF Spawn
  <2>4. /\ state[p] = "running" /\ state[h] = "none"
        /\ state' = [state EXCEPT ![h] = "running"]
        /\ UNCHANGED <<handlerVars, exit, pipeVars>>
    BY <1>3 DEF Spawn
  <2>5. TypeInv' /\ Conserved'
    BY <2>1, <2>2, <2>3, <2>4 DEF TypeInv, Conserved, handlerVars, pipeVars
  <2>6. \A s \in Streams : Held(s)' => Held(s)
    BY <2>1, <2>2, <2>4 DEF Held, TypeInv
  <2>7. Drained' /\ Ran'
    BY <2>4, <2>6 DEF Drained, Ran, handlerVars, pipeVars
  <2>8. Killed'
    BY <2>1, <2>3, <2>4 DEF Killed, TypeInv, handlerVars
  <2> QED BY <2>5, <2>7, <2>8
<1> QED BY <1>1, <1>2, <1>3

LEMMA StutterKeeps == ASSUME IInv, UNCHANGED vars PROVE IInv'
BY DEF IInv, TypeInv, Conserved, Drained, Ran, Killed, Held, vars, handlerVars,
       processVars, pipeVars

\* The invariant the properties follow from: every step of the handler, of a
\* reader and of the program keeps it.
THEOREM Invariance == Spec => []IInv
<1>1. IInv /\ [Next]_vars => IInv'
  <2> SUFFICES ASSUME IInv, [Next]_vars PROVE IInv'
    OBVIOUS
  <2>1. CASE Handle \/ Deadline
    BY <2>1, HandlerKeeps DEF Handle
  <2>2. CASE \E s \in Streams : Drain(s)
    BY <2>2, ReaderKeeps DEF Drain
  <2>3. CASE \E p \in Processes :
               \/ Exit(p)
               \/ \E s \in Streams : WriteTo(p, s)
               \/ \E h \in Helpers : Spawn(p, h)
    BY <2>3, ProgramKeeps
  <2>4. CASE UNCHANGED vars
    BY <2>4, StutterKeeps
  <2> QED BY <2>1, <2>2, <2>3, <2>4 DEF Next
<1> QED BY InitHolds, <1>1, PTL DEF Spec

\* Every variable keeps its type, and no more of a stream is kept than may be.
THEOREM TypeCorrect == Spec => []TypeOK
<1>1. IInv => TypeOK
  BY DEF IInv, TypeInv, Conserved, TypeOK
<1> QED BY Invariance, <1>1, PTL

\* An answer has all the output of the program up to the cap, for any cap, any
\* size of pipe and any processes that the program starts.
THEOREM OutputCompleteAlways == Spec => []OutputComplete
<1>1. IInv => OutputComplete
  BY DEF IInv, TypeInv, Conserved, Drained, Ran, OutputComplete, Statuses
<1> QED BY Invariance, <1>1, PTL

\* A pipe that a process can still write to is always drained.
THEOREM DrainedAlways == Spec => []DrainedWhileHeld
<1>1. IInv => DrainedWhileHeld
  BY DEF IInv, TypeInv, Drained, DrainedWhileHeld
<1> QED BY Invariance, <1>1, PTL

\* A timeout is answered only when nothing of the program's group is left.
THEOREM NoOrphansAlways == Spec => []NoOrphans
<1>1. IInv => NoOrphans
  BY DEF IInv, TypeInv, Killed, NoOrphans
<1> QED BY Invariance, <1>1, PTL
=============================================================================
