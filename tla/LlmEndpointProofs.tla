------------------------- MODULE LlmEndpointProofs -------------------------
(***************************************************************************)
(* Proofs about LlmEndpoint for any number of users, requests, threads and *)
(* connections, any limit and window of the limiter: the pools and the     *)
(* queue are never overdrawn, and the limiter's bound holds although       *)
(* requests may be counted in another order than they read the clock.      *)
(***************************************************************************)
EXTENDS LlmEndpoint, CountingLemmas, SequenceTheorems

Labels == {"new", "clock", "limiter", "body", "wait", "done"}
Jobs == {"none", "queued", "provider"} \cup Transactions \cup Ended

\* The passed requests of u that a request arriving now still meets.
Counted(u) == {q \in passed : UserOf[q] = u /\ clock - stamp[q] < Window}

\* f gives each of them a stamp of its own among the stamps kept for u.
Keeps(u, f) ==
    /\ \A q \in Counted(u) : f[q] <= Len(hits[u]) /\ hits[u][f[q]] = stamp[q]
    /\ \A p, q \in Counted(u) : f[p] = f[q] => p = q

\* The limiter: no more than Limit stamps are kept for a user, and none is
\* dropped while a request is counted by it.
LimiterInv ==
    /\ clock \in 0 .. MaxClock
    /\ hits \in [Users -> Seq(0 .. clock)]
    /\ pc \in [Requests -> Labels]
    /\ stamp \in [Requests -> 0 .. clock]
    /\ passed \subseteq {q \in Requests : pc[q] \in {"body", "wait", "done"}}
    /\ \A u \in Users : /\ Len(hits[u]) <= Limit
                        /\ \E f \in [Requests -> 1 .. Limit] : Keeps(u, f)

\* The executor: a job is in the queue once, from Submit to StartJob.
JobInv ==
    /\ pc \in [Requests -> Labels]
    /\ queue \in Seq(Requests)
    /\ job \in [Requests -> Jobs]
    /\ calls \in [Requests -> 0 .. MaxCalls]
    /\ \A q \in Requests : job[q] = "provider" => calls[q] < MaxCalls
    /\ \A q \in Requests :
         pc[q] \in {"new", "clock", "limiter", "body"} => job[q] = "none"
    /\ \A m, n \in 1 .. Len(queue) : queue[m] = queue[n] => m = n
    /\ \A q \in Requests : job[q] = "queued" <=> \E n \in 1 .. Len(queue) : queue[n] = q
    /\ Cardinality(Running) <= Workers

\* The pool: who holds a connection.
PoolInv ==
    /\ handlers = {q \in Requests : pc[q] \notin {"new", "done"}}
    /\ busy \subseteq {q \in Requests : job[q] \in Transactions}
    /\ Cardinality(handlers) + Cardinality(busy) <= PoolSize

IInv == LimiterInv /\ JobInv /\ PoolInv

\* The transactions of a job, and what may come after one.
LEMMA TransactionLabels ==
    /\ Transactions = {"reserve", "start", "settle", "abandon", "release"}
    /\ \A t \in Transactions :
         Following[t] \subseteq Transactions \cup {"provider", "ok", "failed"}
BY DEF Transactions, Following

-----------------------------------------------------------------------------
(* The limiter.                                                             *)

\* Recent drops a prefix, and nothing in it but old stamps.
LEMMA RecentIsSuffix ==
    ASSUME NEW T, NEW s \in Seq(T), NEW now
    PROVE  /\ Recent(s, now) \in Seq(T)
           /\ \E d \in 0 .. Len(s) :
                /\ Len(Recent(s, now)) = Len(s) - d
                /\ \A i \in 1 .. Len(s) - d : Recent(s, now)[i] = s[d + i]
                /\ \A n \in 1 .. d : Old(s[n], now)
<1> DEFINE fresh == {n \in DOMAIN s : ~Old(s[n], now)}
<1> DEFINE first == CHOOSE n \in fresh : \A k \in fresh : n <= k
<1> DEFINE rest == Recent(s, now)
<1>0. DOMAIN s = 1 .. Len(s) /\ Len(s) \in Nat
  OBVIOUS
<1>1. CASE fresh = {}
  <2>1. rest = <<>>
    BY <1>1 DEF Recent
  <2>2. \A n \in 1 .. Len(s) : Old(s[n], now)
    BY <1>0, <1>1
  <2> HIDE DEF rest
  <2>3. rest \in Seq(T) /\ Len(rest) = Len(s) - Len(s)
    BY <1>0, <2>1
  <2>4. \A i \in 1 .. Len(s) - Len(s) : rest[i] = s[Len(s) + i]
    BY <1>0
  <2>5. Len(s) \in 0 .. Len(s)
    BY <1>0
  <2>6. QED
    BY <2>2, <2>3, <2>4, <2>5 DEF rest
<1>2. CASE fresh # {}
  <2>1. fresh \subseteq Nat
    BY <1>0
  <2>2. PICK n \in fresh : \A k \in fresh : n <= k
    BY <1>2, <2>1, LeastElement
  <2>3. n \in fresh /\ \A k \in fresh : n <= k
    BY <2>2
  <2>4. first \in fresh /\ \A k \in fresh : first <= k
    BY <2>3
  <2>5. rest = SubSeq(s, first, Len(s))
    BY <1>2 DEF Recent
  <2> DEFINE d == first - 1
  <2>6. first \in 1 .. Len(s) /\ d \in 0 .. Len(s)
    BY <1>0, <2>4
  <2> HIDE DEF first, rest
  <2>7. rest \in Seq(T)
    BY <1>0, <2>5, <2>6
  <2>8. Len(rest) = Len(s) - d
    BY <1>0, <2>5, <2>6
  <2>9. \A i \in 1 .. Len(s) - d : rest[i] = s[d + i]
    BY <1>0, <2>5, <2>6
  <2>10. \A k \in 1 .. d : Old(s[k], now)
    BY <1>0, <2>4, <2>6
  <2>11. QED
    BY <2>6, <2>7, <2>8, <2>9, <2>10 DEF rest
<1>3. QED
  BY <1>1, <1>2

\* The requests that count lose no stamp when the list of their user is cut.
LEMMA CutKeeps ==
    ASSUME LimiterInv, NEW u \in Users, NEW now \in 0 .. clock
    PROVE  LET recent == Recent(hits[u], now)
           IN  /\ recent \in Seq(0 .. clock) /\ Len(recent) <= Limit
               /\ \E g \in [Requests -> 1 .. Limit] :
                    /\ \A q \in Counted(u) : /\ g[q] <= Len(recent)
                                             /\ recent[g[q]] = stamp[q]
                    /\ \A p, q \in Counted(u) : g[p] = g[q] => p = q
<1> DEFINE kept == hits[u]
<1> DEFINE recent == Recent(kept, now)
<1>1. kept \in Seq(0 .. clock) /\ Len(kept) <= Limit
  BY DEF LimiterInv
<1>2. PICK f \in [Requests -> 1 .. Limit] : Keeps(u, f)
  BY DEF LimiterInv
<1>3. PICK d \in 0 .. Len(kept) :
        /\ Len(recent) = Len(kept) - d
        /\ \A i \in 1 .. Len(kept) - d : recent[i] = kept[d + i]
        /\ \A n \in 1 .. d : Old(kept[n], now)
  BY <1>1, RecentIsSuffix
<1>4. recent \in Seq(0 .. clock)
  BY <1>1, RecentIsSuffix
<1>5. Len(kept) \in Nat /\ Limit \in Nat /\ Limit >= 1 /\ d \in Nat
  BY <1>1, EndpointAssumption
<1> HIDE DEF recent
<1>6. ASSUME NEW q \in Counted(u)
      PROVE  f[q] - d \in 1 .. Len(recent) /\ recent[f[q] - d] = stamp[q]
  <2>1. f[q] \in 1 .. Len(kept) /\ kept[f[q]] = stamp[q]
    BY <1>2, <1>5 DEF Keeps, Counted, LimiterInv
  <2>2. f[q] > d
    <3>1. clock \in Nat /\ stamp[q] \in Nat /\ now <= clock /\ now \in Nat
      BY DEF LimiterInv, Counted
    <3>2. clock - stamp[q] < Window /\ Window \in Nat
      BY EndpointAssumption DEF Counted
    <3>3. ~Old(kept[f[q]], now)
      BY <2>1, <3>1, <3>2 DEF Old
    <3>4. QED
      BY <1>3, <1>5, <2>1, <3>3
  <2>3. QED
    BY <1>3, <1>5, <2>1, <2>2
<1> DEFINE g == [q \in Requests |-> IF q \in Counted(u) THEN f[q] - d ELSE 1]
<1>7. Counted(u) \subseteq Requests
  BY DEF Counted, LimiterInv
<1>8. g \in [Requests -> 1 .. Limit]
  BY <1>1, <1>3, <1>5, <1>6
<1>9. \A q \in Counted(u) : g[q] <= Len(recent) /\ recent[g[q]] = stamp[q]
  BY <1>1, <1>3, <1>5, <1>6, <1>7
<1>10. ASSUME NEW p \in Counted(u), NEW q \in Counted(u), g[p] = g[q]
       PROVE  p = q
  <2>1. f[p] = f[q]
    BY <1>2, <1>5, <1>7, <1>10
  <2>2. QED
    BY <1>2, <2>1 DEF Keeps
<1>11. Len(recent) <= Limit
  BY <1>1, <1>3, <1>5
<1> HIDE DEF g
<1>12. QED
  BY <1>4, <1>8, <1>9, <1>10, <1>11 DEF recent

\* The limiter does not look at what else a step changes.
LEMMA LimiterFrame ==
    ASSUME LimiterInv, UNCHANGED <<clock, limiterVars>>,
           pc' \in [Requests -> Labels],
           \A q \in passed : pc'[q] \in {"body", "wait", "done"}
    PROVE  LimiterInv'
BY DEF LimiterInv, limiterVars, Keeps, Counted

\* A handler that goes to its next step stays among those let through.
LEMMA MoveKeepsLimiter ==
    ASSUME LimiterInv, UNCHANGED <<clock, limiterVars>>,
           NEW q \in Requests, NEW l \in Labels,
           pc[q] \in {"body", "wait"} => l \in {"wait", "done"},
           pc[q] # "done",
           pc' = [pc EXCEPT ![q] = l]
    PROVE  LimiterInv'
<1>1. pc' \in [Requests -> Labels]
  BY DEF LimiterInv
<1>2. \A p \in passed : pc'[p] \in {"body", "wait", "done"}
  BY DEF LimiterInv
<1>3. QED
  BY <1>1, <1>2, LimiterFrame

\* Time passes: fewer requests count.
LEMMA TickKeepsLimiter ==
    ASSUME LimiterInv, Tick
    PROVE  LimiterInv'
<1>1. /\ clock' = clock + 1 /\ clock' \in 0 .. MaxClock /\ clock \in Nat
      /\ UNCHANGED <<hits, stamp, passed, pc>>
  BY EndpointAssumption DEF Tick, LimiterInv, limiterVars
<1>2. 0 .. clock \subseteq 0 .. clock'
  BY <1>1
<1>3. \A u \in Users : hits[u] \in Seq(0 .. clock')
  <2>1. Seq(0 .. clock) \subseteq Seq(0 .. clock')
    BY <1>2, SeqMonotonic
  <2>2. QED
    BY <2>1 DEF LimiterInv
<1>4. hits' \in [Users -> Seq((0 .. clock)')]
  BY <1>1, <1>3 DEF LimiterInv
<1>5. stamp' \in [Requests -> (0 .. clock)']
  BY <1>1, <1>2 DEF LimiterInv
<1>6. passed \subseteq Requests /\ \A q \in passed : stamp[q] \in Nat
  BY DEF LimiterInv
<1>7. \A u \in Users : Counted(u)' \subseteq Counted(u)
  BY <1>1, <1>6, EndpointAssumption DEF Counted
<1>8. \A u \in Users : \E f \in [Requests -> 1 .. Limit] : Keeps(u, f)'
  BY <1>1, <1>7 DEF LimiterInv, Keeps
<1>9. QED
  BY <1>1, <1>4, <1>5, <1>8 DEF LimiterInv

\* Who has not passed is not counted: its stamp may still be written.
LEMMA ReadClockKeepsLimiter ==
    ASSUME LimiterInv, NEW q \in Requests, ReadClock(q)
    PROVE  LimiterInv'
<1>1. /\ pc[q] = "clock" /\ stamp' = [stamp EXCEPT ![q] = clock]
      /\ pc' = [pc EXCEPT ![q] = "limiter"] /\ UNCHANGED <<clock, hits, passed>>
  BY DEF ReadClock, Goto
<1>2. q \notin passed
  BY <1>1 DEF LimiterInv
<1>3. stamp' \in [Requests -> 0 .. clock] /\ pc' \in [Requests -> Labels]
  BY <1>1 DEF LimiterInv, Labels
<1>4. passed \subseteq {p \in Requests : pc'[p] \in {"body", "wait", "done"}}
  BY <1>1, <1>2 DEF LimiterInv
<1>5. \A p \in passed : stamp'[p] = stamp[p]
  BY <1>1, <1>2 DEF LimiterInv
<1>6. \A u \in Users : Counted(u)' = Counted(u)
  BY <1>1, <1>5 DEF Counted
<1>7. \A u \in Users : \A f : Keeps(u, f) => Keeps(u, f)'
  BY <1>1, <1>5, <1>6 DEF Keeps, Counted
<1>8. QED
  BY <1>1, <1>3, <1>4, <1>7 DEF LimiterInv

\* The check itself, whatever the order in which the lock is taken.
LEMMA CheckRateKeepsLimiter ==
    ASSUME LimiterInv, NEW q \in Requests, CheckRate(q)
    PROVE  LimiterInv'
<1> DEFINE u == UserOf[q]
<1> DEFINE recent == Recent(hits[u], stamp[q])
<1>1. u \in Users /\ stamp[q] \in 0 .. clock /\ q \notin passed
  BY EndpointAssumption DEF LimiterInv, CheckRate
<1>2. recent \in Seq(0 .. clock) /\ Len(recent) \in Nat /\ Len(recent) <= Limit
  BY <1>1, CutKeeps
<1>3. PICK g \in [Requests -> 1 .. Limit] :
        /\ \A p \in Counted(u) : g[p] <= Len(recent) /\ recent[g[p]] = stamp[p]
        /\ \A p, r \in Counted(u) : g[p] = g[r] => p = r
  BY <1>1, CutKeeps
<1>4. clock' = clock /\ stamp' = stamp /\ pc[q] = "limiter"
  BY DEF CheckRate
<1>5. Limit \in Nat
  BY EndpointAssumption
<1> HIDE DEF recent
<1>6. CASE Len(recent) >= Limit
  <2>1. /\ hits' = [hits EXCEPT ![u] = recent] /\ passed' = passed
        /\ pc' = [pc EXCEPT ![q] = "done"]
    BY <1>6 DEF CheckRate, Reply, recent
  <2>2. pc' \in [Requests -> Labels] /\ hits' \in [Users -> Seq(0 .. clock)]
    BY <1>1, <1>2, <2>1 DEF LimiterInv, Labels
  <2>3. passed \subseteq {p \in Requests : pc'[p] \in {"body", "wait", "done"}}
    BY <2>1 DEF LimiterInv
  <2>4. \A v \in Users : Counted(v)' = Counted(v)
    BY <1>4, <2>1 DEF Counted
  <2>5. Keeps(u, g)' /\ Len(hits'[u]) <= Limit
    <3>1. hits'[u] = recent
      BY <1>1, <2>1 DEF LimiterInv
    <3>2. QED
      BY <1>1, <1>2, <1>3, <1>4, <2>4, <3>1 DEF Keeps
  <2>6. ASSUME NEW v \in Users, v # u
        PROVE  /\ Len(hits'[v]) <= Limit
               /\ \E f \in [Requests -> 1 .. Limit] : Keeps(v, f)'
    <3>1. hits'[v] = hits[v]
      BY <2>1, <2>6 DEF LimiterInv
    <3>2. PICK h \in [Requests -> 1 .. Limit] : Keeps(v, h)
      BY DEF LimiterInv
    <3>3. Keeps(v, h)' /\ Len(hits'[v]) <= Limit
      BY <1>4, <2>4, <3>1, <3>2 DEF LimiterInv, Keeps
    <3>4. QED
      BY <3>3
  <2>7. \A v \in Users : /\ Len(hits'[v]) <= Limit
                         /\ \E f \in [Requests -> 1 .. Limit] : Keeps(v, f)'
    BY <2>5, <2>6
  <2>8. QED
    BY <1>4, <2>1, <2>2, <2>3, <2>7 DEF LimiterInv
<1>7. CASE ~(Len(recent) >= Limit)
  <2>1. /\ hits' = [hits EXCEPT ![u] = Append(recent, stamp[q])]
        /\ passed' = passed \cup {q} /\ pc' = [pc EXCEPT ![q] = "body"]
    BY <1>7 DEF CheckRate, Goto, recent
  <2>2. /\ Append(recent, stamp[q]) \in Seq(0 .. clock)
        /\ Len(Append(recent, stamp[q])) = Len(recent) + 1
        /\ Append(recent, stamp[q])[Len(recent) + 1] = stamp[q]
        /\ \A n \in 1 .. Len(recent) : Append(recent, stamp[q])[n] = recent[n]
    BY <1>1, <1>2
  <2>3. pc' \in [Requests -> Labels] /\ hits' \in [Users -> Seq(0 .. clock)]
    BY <1>1, <2>1, <2>2 DEF LimiterInv, Labels
  <2>4. passed' \subseteq {p \in Requests : pc'[p] \in {"body", "wait", "done"}}
    BY <2>1 DEF LimiterInv
  <2>5. \A v \in Users : Counted(v)' \subseteq Counted(v) \cup {q}
    BY <1>4, <2>1 DEF Counted
  <2>6. Len(recent) + 1 \in 1 .. Limit
    BY <1>2, <1>5, <1>7
  <2>7. PICK f \in [Requests -> 1 .. Limit] :
          f = [g EXCEPT ![q] = Len(recent) + 1]
    BY <2>6
  <2>8. /\ f[q] = Len(recent) + 1
        /\ \A p \in Counted(u) : f[p] = g[p] /\ p # q /\ p \in Requests
    BY <1>1, <2>7 DEF Counted, LimiterInv
  <2>9. hits'[u] = Append(recent, stamp[q])
    BY <1>1, <2>1 DEF LimiterInv
  <2>10. Keeps(u, f)'
    <3>1. ASSUME NEW p \in Counted(u)
          PROVE  f[p] \in 1 .. Len(recent) /\ hits'[u][f[p]] = stamp[p]
      <4>1. g[p] \in 1 .. Len(recent) /\ recent[g[p]] = stamp[p]
        BY <1>2, <1>3, <1>5, <2>8
      <4>2. QED
        BY <2>2, <2>8, <2>9, <4>1
    <3>2. \A p \in Counted(u)' :
             f[p] <= Len(hits'[u]) /\ hits'[u][f[p]] = stamp'[p]
      BY <1>1, <1>2, <1>4, <2>2, <2>5, <2>8, <2>9, <3>1
    <3>3. \A p, r \in Counted(u)' : f[p] = f[r] => p = r
      BY <1>1, <1>2, <1>3, <2>5, <2>8, <3>1
    <3>4. QED
      BY <3>2, <3>3 DEF Keeps
  <2>11. Len(hits'[u]) <= Limit
    BY <2>2, <2>6, <2>9
  <2>12. ASSUME NEW v \in Users, v # u
         PROVE  /\ Len(hits'[v]) <= Limit
                /\ \E h \in [Requests -> 1 .. Limit] : Keeps(v, h)'
    <3>1. hits'[v] = hits[v]
      BY <2>1, <2>12 DEF LimiterInv
    <3>2. Counted(v)' = Counted(v)
      BY <1>4, <2>1, <2>12 DEF Counted
    <3>3. PICK h \in [Requests -> 1 .. Limit] : Keeps(v, h)
      BY DEF LimiterInv
    <3>4. Keeps(v, h)' /\ Len(hits'[v]) <= Limit
      BY <1>4, <3>1, <3>2, <3>3 DEF LimiterInv, Keeps
    <3>5. QED
      BY <3>4
  <2>13. \A v \in Users : /\ Len(hits'[v]) <= Limit
                          /\ \E h \in [Requests -> 1 .. Limit] : Keeps(v, h)'
    BY <2>10, <2>11, <2>12
  <2>14. QED
    BY <1>4, <2>3, <2>4, <2>13 DEF LimiterInv
<1>8. QED
  BY <1>6, <1>7

\* Every step keeps the limiter's invariant.
LEMMA LimiterStep ==
    ASSUME LimiterInv, [Next]_vars
    PROVE  LimiterInv'
<1>1. CASE Tick
  BY <1>1, TickKeepsLimiter
<1>2. CASE StartJob
  BY <1>2, LimiterFrame DEF StartJob, LimiterInv
<1>3. ASSUME NEW q \in Requests,
             \/ RejectToken(q) \/ Authenticate(q) \/ PoolTimeout(q)
             \/ RejectBody(q) \/ Submit(q) \/ Deadline(q) \/ Respond(q)
      PROVE  LimiterInv'
  <2>1. /\ pc[q] \notin {"done", "limiter"} /\ UNCHANGED <<clock, limiterVars>>
        /\ \E l \in Labels : /\ pc' = [pc EXCEPT ![q] = l]
                             /\ pc[q] \in {"body", "wait"} => l \in {"wait", "done"}
    BY <1>3 DEF RejectToken, Authenticate, PoolTimeout, RejectBody, Submit,
                Deadline, Respond, Reply, Goto, Labels
  <2>2. QED
    BY <2>1, MoveKeepsLimiter
<1>4. ASSUME NEW q \in Requests, ReadClock(q)
      PROVE  LimiterInv'
  BY <1>4, ReadClockKeepsLimiter
<1>5. ASSUME NEW q \in Requests, CheckRate(q)
      PROVE  LimiterInv'
  BY <1>5, CheckRateKeepsLimiter
<1>6. ASSUME NEW q \in Requests,
             \/ TakeConnection(q) \/ EndTransaction(q) \/ ProviderReturns(q)
             \/ JobPoolTimeout(q)
      PROVE  LimiterInv'
  <2>1. UNCHANGED <<clock, limiterVars, pc>>
    BY <1>6 DEF TakeConnection, EndTransaction, ProviderReturns, JobPoolTimeout
  <2>2. QED
    BY <2>1, LimiterFrame DEF LimiterInv
<1>7. CASE UNCHANGED vars
  BY <1>7, LimiterFrame DEF vars, LimiterInv
<1>8. QED
  BY <1>1, <1>2, <1>3, <1>4, <1>5, <1>6, <1>7 DEF Next, Step

-----------------------------------------------------------------------------
(* The executor.                                                            *)

Early == {"new", "clock", "limiter", "body"}

\* Handlers come no closer to Submit than they were, and jobs rest.
LEMMA JobFrame ==
    ASSUME JobInv, UNCHANGED <<queue, job, calls>>,
           pc' \in [Requests -> Labels],
           \A q \in Requests : pc'[q] \in Early => pc[q] \in Early
    PROVE  JobInv'
<1>1. Running' = Running
  BY DEF Running
<1>2. QED
  BY <1>1 DEF JobInv, Early

\* A job that a worker has goes on, or ends.
LEMMA RunningJobMoves ==
    ASSUME JobInv, NEW q \in Requests, q \in Running,
           NEW j \in Jobs \ {"none", "queued"},
           job' = [job EXCEPT ![q] = j],
           calls' \in [Requests -> 0 .. MaxCalls],
           \A p \in Requests : job'[p] = "provider" => calls'[p] < MaxCalls,
           UNCHANGED <<queue, pc>>
    PROVE  JobInv'
<1>1. job' \in [Requests -> Jobs]
  BY DEF JobInv
<1>2. \A p \in Requests : /\ job'[p] = "none" <=> job[p] = "none"
                          /\ job'[p] = "queued" <=> job[p] = "queued"
  BY DEF JobInv, Running, Ended
<1>3. Cardinality(Running') <= Workers
  <2>1. Running' \subseteq Running /\ Running \subseteq Requests
    BY DEF JobInv, Running
  <2>2. IsFiniteSet(Running)
    BY <2>1, EndpointAssumption, FS_Subset
  <2>3. Cardinality(Running') <= Cardinality(Running) /\ IsFiniteSet(Running')
    BY <2>1, <2>2, FS_Subset
  <2>4. Cardinality(Running) \in Nat /\ Cardinality(Running') \in Nat
    BY <2>2, <2>3, FS_CardinalityType
  <2>5. QED
    BY <2>3, <2>4, EndpointAssumption DEF JobInv
<1>4. QED
  BY <1>1, <1>2, <1>3 DEF JobInv

\* submit: the job was nowhere before.
LEMMA SubmitKeepsJobs ==
    ASSUME JobInv, NEW q \in Requests, Submit(q)
    PROVE  JobInv'
<1>1. /\ pc[q] = "body" /\ job[q] = "none" /\ queue' = Append(queue, q)
      /\ job' = [job EXCEPT ![q] = "queued"] /\ calls' = calls
      /\ pc' = [pc EXCEPT ![q] = "wait"]
  BY DEF Submit, Goto, JobInv
<1>2. /\ queue' \in Seq(Requests) /\ Len(queue') = Len(queue) + 1
      /\ Len(queue) \in Nat /\ queue'[Len(queue) + 1] = q
      /\ \A n \in 1 .. Len(queue) : queue'[n] = queue[n]
  BY <1>1 DEF JobInv
<1>3. \A n \in 1 .. Len(queue) : queue[n] # q
  BY <1>1 DEF JobInv
<1>4. ASSUME NEW m \in 1 .. Len(queue'), NEW n \in 1 .. Len(queue'),
             queue'[m] = queue'[n]
      PROVE  m = n
  <2>1. \A k, l \in 1 .. Len(queue) : queue[k] = queue[l] => k = l
    BY DEF JobInv
  <2>2. CASE m \in 1 .. Len(queue) /\ n \in 1 .. Len(queue)
    <3>1. queue[m] = queue[n]
      BY <1>2, <1>4, <2>2
    <3>2. QED
      BY <2>1, <2>2, <3>1
  <2>3. CASE m = Len(queue) + 1 /\ n \in 1 .. Len(queue)
    BY <1>2, <1>3, <1>4, <2>3
  <2>4. CASE n = Len(queue) + 1 /\ m \in 1 .. Len(queue)
    BY <1>2, <1>3, <1>4, <2>4
  <2>5. QED
    BY <1>2, <2>2, <2>3, <2>4
<1>5. ASSUME NEW p \in Requests
      PROVE  job'[p] = "queued" <=> \E n \in 1 .. Len(queue') : queue'[n] = p
  <2>1. CASE p = q
    BY <1>1, <1>2, <2>1 DEF JobInv
  <2>2. CASE p # q
    BY <1>1, <1>2, <2>2 DEF JobInv
  <2>3. QED
    BY <2>1, <2>2
<1>6. job' \in [Requests -> Jobs] /\ pc' \in [Requests -> Labels]
  BY <1>1 DEF JobInv, Jobs, Labels
<1>7. Running' = Running
  BY <1>1 DEF Running, JobInv
<1>8. \A p \in Requests : /\ job'[p] = "provider" => job[p] = "provider"
                          /\ pc'[p] \in Early => pc[p] \in Early /\ job'[p] = job[p]
  BY <1>1 DEF JobInv, Early
<1>9. QED
  BY <1>1, <1>2, <1>4, <1>5, <1>6, <1>7, <1>8 DEF JobInv, Early

\* A free worker takes the head, which is in the queue only there.
LEMMA StartJobKeepsJobs ==
    ASSUME JobInv, StartJob
    PROVE  JobInv'
<1> DEFINE q == Head(queue)
<1>1. /\ queue # <<>> /\ Cardinality(Running) < Workers /\ queue' = Tail(queue)
      /\ job' = [job EXCEPT ![q] = "reserve"] /\ UNCHANGED <<pc, calls>>
  BY DEF StartJob
<1>2. /\ Len(queue) \in Nat \ {0} /\ q \in Requests /\ q = queue[1]
      /\ queue' \in Seq(Requests) /\ Len(queue') = Len(queue) - 1
      /\ \A n \in 1 .. Len(queue') : queue'[n] = queue[n + 1]
  BY <1>1 DEF JobInv
<1>3. job[q] = "queued"
  BY <1>2 DEF JobInv
<1> HIDE DEF q
<1>4. ASSUME NEW m \in 1 .. Len(queue'), NEW n \in 1 .. Len(queue'),
             queue'[m] = queue'[n]
      PROVE  m = n
  <2>1. \A k, l \in 1 .. Len(queue) : queue[k] = queue[l] => k = l
    BY DEF JobInv
  <2>2. queue[m + 1] = queue[n + 1]
    BY <1>2, <1>4
  <2>3. m + 1 \in 1 .. Len(queue) /\ n + 1 \in 1 .. Len(queue)
    BY <1>2
  <2>4. m + 1 = n + 1
    BY <2>1, <2>2, <2>3
  <2>5. QED
    BY <2>3, <2>4
<1>5. ASSUME NEW p \in Requests
      PROVE  job'[p] = "queued" <=> \E n \in 1 .. Len(queue') : queue'[n] = p
  <2>1. CASE p = q
    <3>1. job'[p] # "queued"
      BY <1>1, <2>1 DEF JobInv
    <3>2. ASSUME NEW n \in 1 .. Len(queue'), queue'[n] = p
          PROVE  FALSE
      <4>1. /\ 1 \in 1 .. Len(queue) /\ n + 1 \in 1 .. Len(queue) /\ n + 1 # 1
            /\ queue[n + 1] = queue[1]
        BY <1>2, <2>1, <3>2
      <4>2. QED
        BY <4>1 DEF JobInv
    <3>3. QED
      BY <3>1, <3>2
  <2>2. CASE p # q
    <3>1. job'[p] = job[p]
      BY <1>1, <2>2 DEF JobInv
    <3>2. ASSUME NEW n \in 1 .. Len(queue), queue[n] = p
          PROVE  n - 1 \in 1 .. Len(queue') /\ queue'[n - 1] = p
      BY <1>2, <2>2, <3>2
    <3>3. ASSUME NEW n \in 1 .. Len(queue'), queue'[n] = p
          PROVE  n + 1 \in 1 .. Len(queue) /\ queue[n + 1] = p
      BY <1>2, <3>3
    <3>4. QED
      BY <3>1, <3>2, <3>3 DEF JobInv
  <2>3. QED
    BY <2>1, <2>2
<1>6. job' \in [Requests -> Jobs]
  BY <1>1, <1>2, TransactionLabels DEF JobInv, Jobs
<1>7. Cardinality(Running') <= Workers
  <2>1. Running' \subseteq Running \cup {q} /\ Running \subseteq Requests
    BY <1>1 DEF Running, JobInv
  <2>2. IsFiniteSet(Running)
    BY <2>1, EndpointAssumption, FS_Subset
  <2>3. /\ IsFiniteSet(Running \cup {q})
        /\ Cardinality(Running \cup {q}) <= Cardinality(Running) + 1
        /\ Cardinality(Running) \in Nat
    BY <2>2, FS_AddElement, FS_CardinalityType
  <2>4. /\ Cardinality(Running') <= Cardinality(Running \cup {q})
        /\ IsFiniteSet(Running')
    BY <2>1, <2>3, FS_Subset
  <2>5. Cardinality(Running') \in Nat /\ Cardinality(Running \cup {q}) \in Nat
    BY <2>3, <2>4, FS_CardinalityType
  <2>6. QED
    BY <1>1, <2>3, <2>4, <2>5, EndpointAssumption
<1>8. \A p \in Requests : /\ job'[p] = "provider" => job[p] = "provider"
                          /\ pc[p] \in Early => job'[p] = job[p]
  BY <1>1, <1>3 DEF JobInv, Early
<1>9. QED
  BY <1>1, <1>2, <1>4, <1>5, <1>6, <1>7, <1>8 DEF JobInv, Early

\* Every step keeps the executor's invariant.
LEMMA JobStep ==
    ASSUME JobInv, PoolInv, [Next]_vars
    PROVE  JobInv'
<1>1. CASE Tick
  BY <1>1, JobFrame DEF Tick, jobVars, JobInv
<1>2. CASE StartJob
  BY <1>2, StartJobKeepsJobs
<1>3. ASSUME NEW q \in Requests, Submit(q)
      PROVE  JobInv'
  BY <1>3, SubmitKeepsJobs
<1>4. ASSUME NEW q \in Requests,
             \/ RejectToken(q) \/ Authenticate(q) \/ PoolTimeout(q)
             \/ ReadClock(q) \/ CheckRate(q) \/ RejectBody(q) \/ Deadline(q) \/ Respond(q)
      PROVE  JobInv'
  <2>1. /\ UNCHANGED <<queue, job, calls>>
        /\ \E l \in Labels : /\ pc' = [pc EXCEPT ![q] = l]
                             /\ l \in Early => pc[q] \in Early
    BY <1>4 DEF RejectToken, Authenticate, PoolTimeout, ReadClock, CheckRate,
                RejectBody, Deadline, Respond, Reply, Goto, Labels, Early, jobVars
  <2>2. pc' \in [Requests -> Labels]
    BY <2>1 DEF JobInv
  <2>3. \A p \in Requests : pc'[p] \in Early => pc[p] \in Early
    BY <2>1 DEF JobInv
  <2>4. QED
    BY <2>1, <2>2, <2>3, JobFrame
<1>5. ASSUME NEW q \in Requests, TakeConnection(q)
      PROVE  JobInv'
  BY <1>5, JobFrame DEF TakeConnection, JobInv
<1>6. ASSUME NEW q \in Requests, EndTransaction(q)
      PROVE  JobInv'
  <2>1. PICK next \in Transactions \cup {"provider", "ok", "failed"} :
          /\ next = "provider" => calls[q] < MaxCalls
          /\ job' = [job EXCEPT ![q] = next]
    <3>1. job[q] \in Transactions
      BY <1>6 DEF EndTransaction, PoolInv
    <3>2. QED
      BY <1>6, <3>1, TransactionLabels DEF EndTransaction
  <2>2. q \in Running /\ next \in Jobs \ {"none", "queued"}
    BY <1>6, TransactionLabels DEF EndTransaction, PoolInv, Running, Ended, Jobs
  <2>3. UNCHANGED <<queue, pc, calls>>
    BY <1>6 DEF EndTransaction
  <2>4. \A p \in Requests : job'[p] = "provider" => calls'[p] < MaxCalls
    BY <2>1, <2>3 DEF JobInv
  <2>5. calls' \in [Requests -> 0 .. MaxCalls]
    BY <2>3 DEF JobInv
  <2>6. QED
    BY <2>1, <2>2, <2>3, <2>4, <2>5, RunningJobMoves
<1>7. ASSUME NEW q \in Requests, ProviderReturns(q)
      PROVE  JobInv'
  <2>1. /\ job[q] = "provider" /\ job' = [job EXCEPT ![q] = "settle"]
        /\ calls' = [calls EXCEPT ![q] = @ + 1] /\ UNCHANGED <<queue, pc>>
    BY <1>7 DEF ProviderReturns
  <2>2. q \in Running /\ "settle" \in Jobs \ {"none", "queued"}
    BY <2>1, TransactionLabels DEF Running, Ended, Jobs
  <2>3. calls[q] + 1 \in 0 .. MaxCalls
    BY <2>1, EndpointAssumption DEF JobInv
  <2>4. calls' \in [Requests -> 0 .. MaxCalls]
    BY <2>1, <2>3 DEF JobInv
  <2>5. \A p \in Requests : job'[p] = "provider" => calls'[p] < MaxCalls
    BY <2>1 DEF JobInv
  <2>6. QED
    BY <2>1, <2>2, <2>4, <2>5, RunningJobMoves
<1>8. ASSUME NEW q \in Requests, JobPoolTimeout(q)
      PROVE  JobInv'
  <2>1. /\ job[q] \in Transactions /\ job' = [job EXCEPT ![q] = "error"]
        /\ UNCHANGED <<queue, pc, calls>>
    BY <1>8 DEF JobPoolTimeout
  <2>2. q \in Running /\ "error" \in Jobs \ {"none", "queued"}
    BY <2>1, TransactionLabels DEF Running, Ended, Jobs
  <2>3. calls' \in [Requests -> 0 .. MaxCalls]
    BY <2>1 DEF JobInv
  <2>4. \A p \in Requests : job'[p] = "provider" => calls'[p] < MaxCalls
    BY <2>1 DEF JobInv
  <2>5. QED
    BY <2>1, <2>2, <2>3, <2>4, RunningJobMoves
<1>9. CASE UNCHANGED vars
  BY <1>9, JobFrame DEF vars, jobVars, JobInv
<1>10. QED
  BY <1>1, <1>2, <1>3, <1>4, <1>5, <1>6, <1>7, <1>8, <1>9 DEF Next, Step

-----------------------------------------------------------------------------
(* The connections.                                                         *)

\* There are finitely many to count.
LEMMA HoldersFinite ==
    ASSUME PoolInv
    PROVE  /\ IsFiniteSet(handlers) /\ Cardinality(handlers) \in Nat
           /\ IsFiniteSet(busy) /\ Cardinality(busy) \in Nat
<1>1. handlers \subseteq Requests /\ busy \subseteq Requests
  BY DEF PoolInv
<1>2. QED
  BY <1>1, EndpointAssumption, FS_Subset, FS_CardinalityType

\* A handler that answers gives its connection back, if it had one.
LEMMA ReplyKeepsPool ==
    ASSUME JobInv, PoolInv, NEW q \in Requests, NEW result,
           Reply(q, result), UNCHANGED <<busy, job>>
    PROVE  PoolInv'
<1>1. handlers' = handlers \ {q} /\ pc' = [pc EXCEPT ![q] = "done"]
  BY DEF Reply
<1>2. handlers' = {p \in Requests : pc'[p] \notin {"new", "done"}}
  BY <1>1 DEF PoolInv, JobInv
<1>3. Cardinality(handlers') \in Nat /\ Cardinality(handlers') <= Cardinality(handlers)
  BY <1>1, HoldersFinite, OneMoreOrLess
<1>4. Cardinality(handlers') + Cardinality(busy) <= PoolSize
  <2>1. Cardinality(handlers) \in Nat /\ Cardinality(busy) \in Nat
    BY HoldersFinite
  <2>2. Cardinality(handlers) + Cardinality(busy) <= PoolSize /\ PoolSize \in Nat
    BY EndpointAssumption DEF PoolInv
  <2>3. QED
    BY <1>3, <2>1, <2>2
<1>5. QED
  BY <1>2, <1>4 DEF PoolInv

\* A handler at work that goes on keeps it.
LEMMA GotoKeepsPool ==
    ASSUME JobInv, PoolInv, NEW q \in Requests, NEW l \in Labels \ {"new", "done"},
           pc[q] \notin {"new", "done"}, pc' = [pc EXCEPT ![q] = l],
           UNCHANGED <<handlers, busy>>,
           \A p \in busy : job'[p] = job[p]
    PROVE  PoolInv'
BY DEF PoolInv, JobInv

\* Jobs without a connection are none of the pool's business.
LEMMA JobKeepsPool ==
    ASSUME PoolInv, UNCHANGED <<pc, handlers, busy>>,
           \A p \in busy : job'[p] = job[p]
    PROVE  PoolInv'
BY DEF PoolInv

\* Every step keeps the pool's invariant.
LEMMA PoolStep ==
    ASSUME JobInv, PoolInv, [Next]_vars
    PROVE  PoolInv'
<1>1. CASE Tick
  BY <1>1, JobKeepsPool DEF Tick, jobVars
<1>2. CASE StartJob
  <2>1. job[Head(queue)] = "queued"
    <3>1. Len(queue) >= 1 /\ Head(queue) = queue[1] /\ Head(queue) \in Requests
      BY <1>2 DEF StartJob, JobInv
    <3>2. 1 \in 1 .. Len(queue)
      BY <3>1 DEF JobInv
    <3>3. QED
      BY <3>1, <3>2 DEF JobInv
  <2>2. \A p \in busy : p # Head(queue)
    BY <2>1, TransactionLabels DEF PoolInv
  <2>3. \A p \in busy : job'[p] = job[p]
    BY <1>2, <2>2 DEF StartJob, PoolInv, JobInv
  <2>4. QED
    BY <1>2, <2>3, JobKeepsPool DEF StartJob
<1>3. ASSUME NEW q \in Requests, Authenticate(q)
      PROVE  PoolInv'
  <2>1. CASE MayCall(q)
    <3>1. /\ pc[q] = "new" /\ pc' = [pc EXCEPT ![q] = "clock"] /\ FreeConnection
          /\ handlers' = handlers \cup {q} /\ UNCHANGED <<busy, job>>
      BY <1>3, <2>1 DEF Authenticate, Goto, jobVars
    <3>2. handlers' = {p \in Requests : pc'[p] \notin {"new", "done"}}
      BY <3>1 DEF PoolInv, JobInv
    <3>3. /\ Cardinality(handlers') <= Cardinality(handlers) + 1
          /\ Cardinality(handlers') \in Nat
      BY <3>1, HoldersFinite, OneMoreOrLess
    <3>4. Cardinality(handlers') + Cardinality(busy) <= PoolSize
      <4>1. Cardinality(handlers) \in Nat /\ Cardinality(busy) \in Nat
        BY HoldersFinite
      <4>2. Cardinality(handlers) + Cardinality(busy) < PoolSize
        BY <3>1 DEF FreeConnection
      <4>3. QED
        BY <3>3, <4>1, <4>2, EndpointAssumption
    <3>5. QED
      BY <3>1, <3>2, <3>4 DEF PoolInv
  <2>2. CASE ~MayCall(q)
    BY <1>3, <2>2, ReplyKeepsPool DEF Authenticate, jobVars
  <2>3. QED
    BY <2>1, <2>2
<1>4. ASSUME NEW q \in Requests,
             \/ RejectToken(q) \/ PoolTimeout(q) \/ RejectBody(q)
             \/ Deadline(q) \/ Respond(q)
      PROVE  PoolInv'
  <2>1. UNCHANGED <<busy, job>> /\ \E result : Reply(q, result)
    BY <1>4 DEF RejectToken, PoolTimeout, RejectBody, Deadline, Respond, jobVars
  <2>2. QED
    BY <2>1, ReplyKeepsPool
<1>5. ASSUME NEW q \in Requests, ReadClock(q)
      PROVE  PoolInv'
  BY <1>5, GotoKeepsPool DEF ReadClock, Goto, jobVars, Labels
<1>6. ASSUME NEW q \in Requests, CheckRate(q)
      PROVE  PoolInv'
  <2>1. \/ \E result : Reply(q, result)
        \/ pc' = [pc EXCEPT ![q] = "body"] /\ UNCHANGED handlers
    BY <1>6 DEF CheckRate, Goto
  <2>2. pc[q] = "limiter" /\ UNCHANGED <<busy, job>>
    BY <1>6 DEF CheckRate, jobVars
  <2>3. QED
    BY <2>1, <2>2, ReplyKeepsPool, GotoKeepsPool DEF Labels
<1>7. ASSUME NEW q \in Requests, Submit(q)
      PROVE  PoolInv'
  <2>1. /\ pc[q] = "body" /\ pc' = [pc EXCEPT ![q] = "wait"]
        /\ job' = [job EXCEPT ![q] = "queued"] /\ UNCHANGED <<handlers, busy>>
    BY <1>7 DEF Submit, Goto
  <2>2. job[q] = "none"
    BY <2>1 DEF JobInv
  <2>3. \A p \in busy : job'[p] = job[p]
    BY <2>1, <2>2, TransactionLabels DEF PoolInv, JobInv
  <2>4. QED
    BY <2>1, <2>3, GotoKeepsPool DEF Labels
<1>8. ASSUME NEW q \in Requests, TakeConnection(q)
      PROVE  PoolInv'
  <2>1. /\ job[q] \in Transactions /\ FreeConnection
        /\ busy' = busy \cup {q} /\ UNCHANGED <<pc, job, handlers>>
    BY <1>8 DEF TakeConnection
  <2>2. /\ Cardinality(busy') <= Cardinality(busy) + 1
        /\ Cardinality(busy') \in Nat
    BY <2>1, HoldersFinite, OneMoreOrLess
  <2>3. Cardinality(handlers) + Cardinality(busy') <= PoolSize
    <3>1. Cardinality(handlers) \in Nat /\ Cardinality(busy) \in Nat
      BY HoldersFinite
    <3>2. Cardinality(handlers) + Cardinality(busy) < PoolSize
      BY <2>1 DEF FreeConnection
    <3>3. QED
      BY <2>2, <3>1, <3>2, EndpointAssumption
  <2>4. QED
    BY <2>1, <2>3 DEF PoolInv
<1>9. ASSUME NEW q \in Requests, EndTransaction(q)
      PROVE  PoolInv'
  <2>1. busy' = busy \ {q} /\ UNCHANGED <<pc, handlers>>
    BY <1>9 DEF EndTransaction
  <2>2. \A p \in busy' : job'[p] = job[p]
    BY <1>9, <2>1 DEF EndTransaction, PoolInv, JobInv
  <2>3. Cardinality(busy') <= Cardinality(busy) /\ Cardinality(busy') \in Nat
    BY <2>1, HoldersFinite, OneMoreOrLess
  <2>4. Cardinality(handlers) + Cardinality(busy') <= PoolSize
    <3>1. Cardinality(handlers) \in Nat /\ Cardinality(busy) \in Nat
      BY HoldersFinite
    <3>2. Cardinality(handlers) + Cardinality(busy) <= PoolSize
      BY DEF PoolInv
    <3>3. QED
      BY <2>3, <3>1, <3>2, EndpointAssumption
  <2>5. QED
    BY <2>1, <2>2, <2>4 DEF PoolInv
<1>10. ASSUME NEW q \in Requests, ProviderReturns(q) \/ JobPoolTimeout(q)
       PROVE  PoolInv'
  <2>1. q \notin busy /\ UNCHANGED <<pc, handlers, busy>>
    BY <1>10, TransactionLabels DEF ProviderReturns, JobPoolTimeout, PoolInv
  <2>2. \A p \in busy : job'[p] = job[p]
    BY <1>10, <2>1 DEF ProviderReturns, JobPoolTimeout, JobInv, PoolInv
  <2>3. QED
    BY <2>1, <2>2, JobKeepsPool
<1>11. CASE UNCHANGED vars
  BY <1>11, JobKeepsPool DEF vars, jobVars
<1>12. QED
  BY <1>1, <1>2, <1>3, <1>4, <1>5, <1>6, <1>7, <1>8, <1>9, <1>10, <1>11
     DEF Next, Step

-----------------------------------------------------------------------------
(* The theorems.                                                            *)

LEMMA IInvInit == Init => IInv
<1> SUFFICES ASSUME Init
             PROVE  IInv
  OBVIOUS
<1> USE EndpointAssumption
<1>1. LimiterInv
  <2>1. /\ clock \in 0 .. MaxClock /\ pc \in [Requests -> Labels]
        /\ stamp \in [Requests -> 0 .. clock] /\ passed = {}
    BY DEF Init, Labels
  <2>2. hits \in [Users -> Seq(0 .. clock)] /\ \A u \in Users : Len(hits[u]) = 0
    BY EmptySeq DEF Init
  <2>3. PICK f : f = [q \in Requests |-> 1]
    OBVIOUS
  <2>4. f \in [Requests -> 1 .. Limit] /\ \A u \in Users : Keeps(u, f)
    BY <2>1, <2>3 DEF Keeps, Counted
  <2>5. QED
    BY <2>1, <2>2, <2>4 DEF LimiterInv
<1>2. JobInv
  <2>1. /\ pc \in [Requests -> Labels] /\ job \in [Requests -> Jobs]
        /\ calls \in [Requests -> 0 .. MaxCalls]
    BY DEF Init, Labels, Jobs
  <2>2. queue \in Seq(Requests) /\ Len(queue) = 0
    BY EmptySeq DEF Init
  <2>3. \A q \in Requests : job[q] = "none"
    BY DEF Init
  <2>4. Cardinality(Running) <= Workers
    <3>1. Running = {}
      BY <2>3 DEF Running
    <3>2. QED
      BY <3>1, FS_EmptySet
  <2>5. QED
    BY <2>1, <2>2, <2>3, <2>4 DEF JobInv
<1>3. PoolInv
  <2>1. Cardinality(handlers) + Cardinality(busy) = 0
    BY FS_EmptySet DEF Init
  <2>2. QED
    BY <2>1 DEF Init, PoolInv
<1>4. QED
  BY <1>1, <1>2, <1>3 DEF IInv

\* The inductive invariant holds of every instance of the specification.
THEOREM Invariance == Spec => []IInv
<1>1. IInv /\ [Next]_vars => IInv'
  BY LimiterStep, JobStep, PoolStep DEF IInv
<1>2. QED
  BY <1>1, IInvInit, PTL DEF Spec

\* The pool of threads and the pool of connections are never overdrawn, and
\* the executor's queue holds exactly the jobs no worker has taken, each once.
THEOREM TypeCorrect == Spec => []TypeOK
<1>1. IInv => TypeOK
  <2> SUFFICES ASSUME IInv
               PROVE  TypeOK
    OBVIOUS
  <2>1. \A u \in Users : \A n \in DOMAIN hits[u] : hits[u][n] \in 0 .. clock
    BY DEF IInv, LimiterInv
  <2>2. busy \subseteq Running
    BY TransactionLabels DEF IInv, PoolInv, Running, Ended
  <2> DEFINE queued == {q \in Requests : job[q] = "queued"}
  <2>3. DOMAIN queue = 1 .. Len(queue) /\ Len(queue) \in Nat
    BY DEF IInv, JobInv
  <2>4. {queue[n] : n \in DOMAIN queue} = queued
    BY <2>3 DEF IInv, JobInv
  <2>5. Cardinality(queued) = Len(queue)
    <3>1. queue \in [1 .. Len(queue) -> queued]
      BY <2>3 DEF IInv, JobInv
    <3>2. queue \in Bijection(1 .. Len(queue), queued)
      BY <2>3, <3>1
         DEF IInv, JobInv, Bijection, Injection, Surjection, IsInjective
    <3>3. QED
      BY <2>3, <3>2, FS_CountingElements DEF ExistsBijection
  <2>6. QED
    BY <2>1, <2>2, <2>4, <2>5 DEF TypeOK, IInv, LimiterInv, JobInv, PoolInv
<1>2. QED
  BY <1>1, Invariance, PTL

\* The limiter's promise: whatever the order in which the threads that read the
\* clock get the lock, no user has more than Limit requests let through whose
\* stamps are within the last Window ticks.
THEOREM RateCapAlways == Spec => []RateCap
<1>1. IInv => RateCap
  <2> SUFFICES ASSUME IInv, NEW u \in Users
               PROVE  Cardinality(Counted(u)) <= Limit
    BY DEF RateCap, Counted
  <2>1. PICK f \in [Requests -> 1 .. Limit] : Keeps(u, f)
    BY DEF IInv, LimiterInv
  <2>2. PICK g : g = [q \in Counted(u) |-> f[q]]
    OBVIOUS
  <2>3. Counted(u) \subseteq Requests
    BY DEF IInv, LimiterInv, Counted
  <2>4. g \in Injection(Counted(u), 1 .. Limit)
    BY <2>1, <2>2, <2>3 DEF Keeps, Injection, IsInjective
  <2>5. IsFiniteSet(1 .. Limit) /\ Cardinality(1 .. Limit) = Limit
    BY EndpointAssumption, FS_Interval
  <2>6. QED
    BY <2>4, <2>5, FS_Injection
<1>2. QED
  BY <1>1, Invariance, PTL
=============================================================================
