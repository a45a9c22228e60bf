-------------------------- MODULE AuthTokensProofs --------------------------
(***************************************************************************)
(* A family keeps one current token, each token is rotated once, and what  *)
(* was reported as ended stays ended, for any number of sessions, tokens   *)
(* and concurrent requests (AuthTokens).  Beside them, a cleanup run       *)
(* deletes no session that is alive and no token of one, and leaves no     *)
(* token without its session (AuthCleanup).                                *)
(***************************************************************************)
EXTENDS AuthCleanup, CountingLemmas

-----------------------------------------------------------------------------
(* The inductive invariant.                                                 *)

\* Requests that hold row locks, and those of them that have rotated a token
\* but not committed.
Holding(q) == pc[q] \in {"session", "scan", "revoke", "respond", "commit"}
Rotating(q) == kind[q] = "refresh" /\ pc[q] \in {"respond", "commit"}

\* A row that is in the table belongs to a session that was opened.
Stored(t) == token[t].session \in Sessions
StoredRows ==
    \A t \in Tokens :
        \/ token[t] = NoRow
        \/ Stored(t) /\ session[token[t].session].status # "none"

IsCurrent(row) == ~row.rotated /\ ~row.revoked

\* OneCurrentToken without cardinalities.
AtMostOne ==
    \A t, u \in Tokens :
        /\ Stored(t) /\ IsCurrent(token[t])
        /\ Stored(u) /\ IsCurrent(token[u])
        /\ token[t].session = token[u].session
        => t = u
AtLeastOne ==
    \A s \in Sessions :
        session[s].status = "active" => \E t \in Tokens : t \in Current(s)

\* A request holds locks from the SELECT of its token to its end.
Locks(q) ==
    /\ Holding(q) => presented[q] \in DOMAIN draft[q] /\ Stored(presented[q])
    /\ ~Holding(q) => DOMAIN draft[q] = {}

\* It has seen the presented row as it is when it decides, ...
FirstLook(q) ==
    pc[q] = "session" =>
        /\ DOMAIN draft[q] = {presented[q]}
        /\ draft[q][presented[q]] = token[presented[q]]

\* ... a revocation touches rows of its own family only, and neither moves a
\* row to another family, nor rotates it, nor takes a revocation back.
Revocation(q) ==
    /\ pc[q] = "revoke" =>
         \A t \in targets[q] : Stored(t) /\ token[t].session = SessionOf(q)
    /\ ~Rotating(q) =>
         \A t \in DOMAIN draft[q] :
             /\ Stored(t)
             /\ token[t].session = SessionOf(q)
             /\ draft[q][t].session = token[t].session
             /\ draft[q][t].rotated = token[t].rotated
             /\ token[t].revoked => draft[q][t].revoked

\* A rotation that is not committed replaces a token that still is current.
Replaces(q, t) ==
    /\ t # presented[q]
    /\ DOMAIN draft[q] = {t, presented[q]}
    /\ token[t] = NoRow
    /\ draft[q][t] = NewRow(SessionOf(q))
    /\ draft[q][presented[q]] = [token[presented[q]] EXCEPT !.rotated = TRUE]
Rotation(q) ==
    Rotating(q) =>
        /\ IsCurrent(token[presented[q]])
        /\ \E t \in Tokens : Replaces(q, t)

\* What was answered, and what it depended on, stays as it is.
Ended(s) == s \in Sessions /\ session[s].status = "revoked"
Answered(q) ==
    /\ \A s \in closed[q] : Ended(s)
    /\ Rotating(q) => SessionOf(q) \notin closed[q]
    /\ pc[q] \in {"idle", "lock", "session", "scan", "revoke", "respond"} =>
         answer[q] = "none"
    /\ pc[q] = "commit" =>
         answer[q] = IF kind[q] = "refresh" THEN "rotated" ELSE "logged_out"
    /\ answer[q] = "rotated" =>
         /\ kind[q] = "refresh"
         /\ Stored(presented[q]) /\ SessionOf(q) \notin closed[q]
         /\ pc[q] = "done" => token[presented[q]].rotated
    /\ answer[q] = "reuse" => Stored(presented[q]) /\ Ended(SessionOf(q))
    /\ answer[q] = "logged_out" =>
         /\ kind[q] = "logout"
         /\ pc[q] = "done" => Stored(presented[q]) /\ Ended(SessionOf(q))

\* The part about rows and locks is inductive by itself, and holds beside
\* whatever else respects the locks; the part about answers relies on it.
RequestInv(q) == Locks(q) /\ FirstLook(q) /\ Revocation(q) /\ Rotation(q)

LockInv ==
    /\ TypeOK /\ StoredRows /\ AtMostOne /\ AtLeastOne
    /\ \A q \in Requests : RequestInv(q)

IInv == LockInv /\ \A q \in Requests : Answered(q)

-----------------------------------------------------------------------------
(* Type correctness.                                                        *)

\* TypeOK in two parts: the drafts, and all the rest.
DraftTyped ==
    /\ DOMAIN draft = Requests
    /\ \A q \in Requests : /\ draft[q] \in [DOMAIN draft[q] -> Row]
                           /\ DOMAIN draft[q] \subseteq Tokens
    /\ \A q, p \in Requests : q # p => DOMAIN draft[q] \cap DOMAIN draft[p] = {}
RestTyped ==
    /\ clock \in Instants
    /\ session \in [Sessions -> SessionRow]
    /\ token \in [Tokens -> Row]
    /\ pc \in [Requests -> Labels]
    /\ kind \in Workloads
    /\ presented \in [Requests -> Tokens]
    /\ now \in [Requests -> Instants]
    /\ targets \in [Requests -> SUBSET Tokens]
    /\ answer \in [Requests -> Answers]
    /\ closed \in [Requests -> SUBSET Sessions]

LEMMA TypeParts == DraftTyped' /\ RestTyped' => TypeOK'
BY DEF TypeOK, DraftTyped, RestTyped

LEMMA WriteTyped ==
    ASSUME TypeOK, NEW q \in Requests, NEW t \in Tokens, NEW row \in Row,
           ~LockedByOther(q, t), Write(q, t, row)
    PROVE  /\ DraftTyped'
           /\ DOMAIN draft'[q] = DOMAIN draft[q] \cup {t}
           /\ draft'[q][t] = row
           /\ \A u \in DOMAIN draft[q] \ {t} : draft'[q][u] = draft[q][u]
           /\ \A p \in Requests \ {q} : draft'[p] = draft[p]
<1> DEFINE new == [u \in DOMAIN draft[q] \cup {t} |->
                     IF u = t THEN row ELSE draft[q][u]]
<1>1. draft' = [draft EXCEPT ![q] = new]
  BY DEF Write
<1>2. new \in [DOMAIN draft[q] \cup {t} -> Row]
  BY DEF TypeOK
<1>3. DOMAIN draft'[q] = DOMAIN draft[q] \cup {t} /\ draft'[q] = new
  BY <1>1, <1>2 DEF TypeOK
<1>4. \A p \in Requests \ {q} : draft'[p] = draft[p] /\ t \notin DOMAIN draft[p]
  BY <1>1 DEF TypeOK, LockedByOther
<1>5. new[t] = row /\ \A u \in DOMAIN draft[q] \ {t} : new[u] = draft[q][u]
  OBVIOUS
<1> HIDE DEF new
<1>6. QED
  BY <1>1, <1>2, <1>3, <1>4, <1>5 DEF TypeOK, DraftTyped

LEMMA RowsTyped ==
    /\ NoRow \in Row
    /\ \A s \in Sessions : NewRow(s) \in Row
BY DEF NoRow, NewRow, Row

LEMMA DropTyped ==
    ASSUME TypeOK, NEW q \in Requests,
           draft' = [draft EXCEPT ![q] = Unlocked]
    PROVE  /\ DraftTyped'
           /\ DOMAIN draft'[q] = {}
           /\ \A p \in Requests \ {q} : draft'[p] = draft[p]
<1>1. DOMAIN Unlocked = {} /\ Unlocked \in [{} -> Row]
  BY DEF Unlocked
<1> HIDE DEF Unlocked
<1>2. draft'[q] = Unlocked /\ DOMAIN draft' = Requests
  BY DEF TypeOK
<1>3. \A p \in Requests \ {q} : draft'[p] = draft[p]
  BY DEF TypeOK
<1>4. QED
  BY <1>1, <1>2, <1>3 DEF TypeOK, DraftTyped

LEMMA CommitTyped ==
    ASSUME TypeOK, NEW q \in Requests, Commit(q)
    PROVE  token' \in [Tokens -> Row]
<1>1. \A t \in Tokens : Seen(q, t) \in Row
  BY DEF TypeOK, Seen
<1>2. QED
  BY <1>1 DEF Commit

\* The rows a request holds once it has locked its token are typed.
LEMMA SeenTyped ==
    ASSUME TypeOK, NEW q \in Requests, NEW t \in Tokens
    PROVE  Seen(q, t) \in Row
BY DEF TypeOK, Seen

LEMMA TypeInit == Init => TypeOK
<1> SUFFICES ASSUME Init PROVE TypeOK
  OBVIOUS
<1>1. DOMAIN Unlocked = {} /\ Unlocked \in [{} -> Row]
  BY DEF Unlocked
<1>2. session \in [Sessions -> SessionRow]
  <2>1. Unopened \in SessionRow
    BY TimeAssumption DEF Unopened, SessionRow
  <2>2. QED
    BY <2>1 DEF Init
<1>3. token \in [Tokens -> Row]
  BY RowsTyped DEF Init
<1>4. /\ clock \in Instants /\ pc \in [Requests -> Labels]
      /\ kind \in Workloads /\ presented \in [Requests -> Tokens]
      /\ now \in [Requests -> Instants] /\ targets \in [Requests -> SUBSET Tokens]
      /\ answer \in [Requests -> Answers] /\ closed \in [Requests -> SUBSET Sessions]
  BY TimeAssumption DEF Init, Instants, Labels, Answers
<1> HIDE DEF Unlocked
<1>5. DOMAIN draft = Requests /\ \A q \in Requests : draft[q] = Unlocked
  BY DEF Init
<1>6. QED
  BY <1>1, <1>2, <1>3, <1>4, <1>5 DEF TypeOK

LEMMA LoginTyped ==
    ASSUME TypeOK, NEW s \in Sessions, Login(s)
    PROVE  TypeOK'
<1>1. [status |-> "active", expires |-> clock + Lifetime] \in SessionRow
  BY TimeAssumption DEF TypeOK, SessionRow, Instants
<1>2. session' \in [Sessions -> SessionRow]
  BY <1>1 DEF TypeOK, Login
<1>3. token' \in [Tokens -> Row]
  BY RowsTyped DEF TypeOK, Login
<1>4. QED
  BY <1>2, <1>3 DEF TypeOK, Login

\* Finding the presented token, or any step that writes one row.
LEMMA LockTokenTyped ==
    ASSUME TypeOK, NEW q \in Requests, LockToken(q)
    PROVE  TypeOK'
<1>1. RestTyped'
  BY DEF TypeOK, LockToken, Finish, Answer, Goto, RestTyped, Labels, Answers, dbVars
<1>2. DraftTyped'
  <2>1. presented[q] \in Tokens /\ token[presented[q]] \in Row
    BY DEF TypeOK
  <2>2. QED
    BY <2>1, WriteTyped DEF LockToken, DraftTyped, TypeOK
<1>3. QED
  BY <1>1, <1>2, TypeParts

LEMMA DetectReuseTyped ==
    ASSUME LockInv, NEW q \in Requests, DetectReuse(q)
    PROVE  TypeOK'
<1>1. RestTyped'
  BY DEF LockInv, TypeOK, DetectReuse, Goto, RestTyped, Labels, dbVars
<1>2. presented[q] \in DOMAIN draft[q]
  BY DEF LockInv, RequestInv, Locks, Holding, DetectReuse
<1>3. ~LockedByOther(q, presented[q]) /\ presented[q] \in Tokens
  BY <1>2 DEF LockInv, TypeOK, LockedByOther
<1>4. [Seen(q, presented[q]) EXCEPT !.reused = TRUE] \in Row
  BY <1>3, SeenTyped DEF LockInv, Row
<1>5. QED
  BY <1>1, <1>3, <1>4, WriteTyped, TypeParts DEF LockInv, DetectReuse

LEMMA AsRevokedTyped ==
    ASSUME NEW q, NEW row \in Row
    PROVE  /\ AsRevoked(q, row) \in Row
           /\ AsRevoked(q, row).session = row.session
           /\ AsRevoked(q, row).rotated = row.rotated
           /\ AsRevoked(q, row).revoked
<1>1. CASE row.revoked
  BY <1>1 DEF AsRevoked
<1>2. CASE ~row.revoked
  <2>1. (row.reused \/ kind[q] = "refresh") \in BOOLEAN
    OBVIOUS
  <2>2. QED
    BY <1>2, <2>1 DEF AsRevoked, Row
<1>3. QED
  BY <1>1, <1>2

LEMMA RevokeRowTyped ==
    ASSUME TypeOK, NEW q \in Requests, RevokeRow(q)
    PROVE  TypeOK'
<1>1. RestTyped'
  BY DEF TypeOK, RevokeRow, RestTyped, dbVars
<1>2. PICK t \in targets[q] :
        ~LockedByOther(q, t) /\ Write(q, t, AsRevoked(q, Seen(q, t)))
  BY DEF RevokeRow
<1>3. t \in Tokens
  BY DEF TypeOK
<1>4. QED
  BY <1>1, <1>2, <1>3, AsRevokedTyped, SeenTyped, WriteTyped, TypeParts

LEMMA RotateTyped ==
    ASSUME LockInv, NEW q \in Requests, NEW t \in Fresh, RotateInto(q, t),
           pc[q] = "session"
    PROVE  /\ DraftTyped'
           /\ DOMAIN draft'[q] = {t, presented[q]}
           /\ t # presented[q]
           /\ draft'[q][t] = NewRow(SessionOf(q))
           /\ draft'[q][presented[q]] = [token[presented[q]] EXCEPT !.rotated = TRUE]
           /\ \A p \in Requests \ {q} : draft'[p] = draft[p]
<1> DEFINE new == [u \in DOMAIN draft[q] \cup {t} |->
                     IF u = t THEN NewRow(SessionOf(q))
                     ELSE IF u = presented[q] THEN [draft[q][u] EXCEPT !.rotated = TRUE]
                     ELSE draft[q][u]]
<1>1. /\ DOMAIN draft[q] = {presented[q]}
      /\ draft[q][presented[q]] = token[presented[q]]
      /\ SessionOf(q) \in Sessions
  BY DEF LockInv, RequestInv, FirstLook, Locks, Holding, Stored, SessionOf
<1>2. draft' = [draft EXCEPT ![q] = new]
  BY DEF RotateInto
<1>3. t \in Tokens /\ \A p \in Requests : t \notin DOMAIN draft[p]
  BY DEF Fresh
<1>4. NewRow(SessionOf(q)) \in Row
  BY <1>1, RowsTyped
<1>5. token[presented[q]] \in Row
  BY DEF LockInv, TypeOK
<1>6. [token[presented[q]] EXCEPT !.rotated = TRUE] \in Row
  BY <1>5 DEF Row
<1>7. new \in [{t, presented[q]} -> Row]
  BY <1>1, <1>3, <1>4, <1>6
<1>8. /\ t # presented[q]
      /\ new[t] = NewRow(SessionOf(q))
      /\ new[presented[q]] = [token[presented[q]] EXCEPT !.rotated = TRUE]
  BY <1>1, <1>3
<1>9. presented[q] \in Tokens
  BY DEF LockInv, TypeOK
<1> HIDE DEF new
<1>10. draft'[q] = new /\ DOMAIN draft' = Requests
  BY <1>2 DEF LockInv, TypeOK
<1>11. \A p \in Requests \ {q} : draft'[p] = draft[p]
  BY <1>2 DEF LockInv, TypeOK
<1>12. DraftTyped'
  <2>1. \A p \in Requests \ {q} :
          /\ draft'[p] \in [DOMAIN draft'[p] -> Row]
          /\ DOMAIN draft'[p] \subseteq Tokens
          /\ DOMAIN draft'[p] \cap DOMAIN draft'[q] = {}
    BY <1>1, <1>3, <1>7, <1>10, <1>11 DEF LockInv, TypeOK
  <2>2. /\ draft'[q] \in [DOMAIN draft'[q] -> Row]
        /\ DOMAIN draft'[q] \subseteq Tokens
    BY <1>3, <1>7, <1>9, <1>10
  <2>3. \A p, r \in Requests \ {q} :
          p # r => DOMAIN draft'[p] \cap DOMAIN draft'[r] = {}
    BY <1>11 DEF LockInv, TypeOK
  <2>4. QED
    BY <1>10, <2>1, <2>2, <2>3 DEF DraftTyped
<1>13. QED
  BY <1>7, <1>8, <1>10, <1>11, <1>12

\* Transactions that commit or are dropped, with the labels they end at.
LEMMA EndTyped ==
    ASSUME TypeOK, NEW q \in Requests,
           \/ Refuse(q) \/ LogoutAgain(q) \/ DeadlockVictim(q) \/ Lose(q)
           \/ CommitRequest(q) \/ ReportReuse(q)
    PROVE  TypeOK'
<1>1. draft' = [draft EXCEPT ![q] = Unlocked]
  BY DEF Refuse, LogoutAgain, DeadlockVictim, Lose, CommitRequest, ReportReuse,
         Commit, Rollback
<1>2. DraftTyped'
  BY <1>1, DropTyped
<1>3. token' \in [Tokens -> Row]
  <2>1. CASE token' = token
    BY <2>1 DEF TypeOK
  <2>2. CASE Commit(q)
    BY <2>2, CommitTyped
  <2>3. QED
    BY <2>1, <2>2 DEF Refuse, LogoutAgain, DeadlockVictim, Lose, CommitRequest,
                      ReportReuse, Rollback
<1>4. session' \in [Sessions -> SessionRow]
  <2>1. CASE session' = session
    BY <2>1 DEF TypeOK
  <2>2. CASE EndSessionOf(q)
    <3>1. \A s \in Sessions :
            /\ session[s] \in SessionRow
            /\ [session[s] EXCEPT !.status = "revoked"] \in SessionRow
      BY DEF TypeOK, SessionRow
    <3>2. session' = [session EXCEPT ![SessionOf(q)] =
                        [session[SessionOf(q)] EXCEPT !.status = "revoked"]]
      BY <2>2 DEF EndSessionOf
    <3>3. QED
      BY <3>1, <3>2 DEF TypeOK
  <2>3. QED
    BY <2>1, <2>2 DEF Refuse, LogoutAgain, DeadlockVictim, Lose, CommitRequest,
                      ReportReuse
<1>5. pc' \in [Requests -> Labels] /\ answer' \in [Requests -> Answers]
  BY DEF TypeOK, Refuse, LogoutAgain, DeadlockVictim, Lose, CommitRequest,
         ReportReuse, Finish, Answer, Goto, Labels, Answers
<1>6. targets' \in [Requests -> SUBSET Tokens]
  BY DEF TypeOK, Refuse, LogoutAgain, DeadlockVictim, Lose, CommitRequest, ReportReuse
<1>7. UNCHANGED <<clock, kind, presented, now, closed>>
  BY DEF Refuse, LogoutAgain, DeadlockVictim, Lose, CommitRequest, ReportReuse
<1>8. RestTyped'
  BY <1>3, <1>4, <1>5, <1>6, <1>7 DEF TypeOK, RestTyped
<1>9. QED
  BY <1>2, <1>8, TypeParts

\* Steps that change neither the tables nor a lock.
LEMMA LocalTyped ==
    ASSUME TypeOK, NEW q \in Requests,
           \/ Begin(q) \/ LogoutFamily(q) \/ ScanFamily(q) \/ Respond(q)
           \/ RevokeSession(q)
    PROVE  TypeOK'
<1>1. pc' \in [Requests -> Labels]
  BY DEF TypeOK, Begin, LogoutFamily, ScanFamily, Respond, RevokeSession, Goto, Labels
<1>2. answer' \in [Requests -> Answers]
  BY DEF TypeOK, Begin, LogoutFamily, ScanFamily, Respond, RevokeSession, Goto,
         Answer, Answers
<1>3. targets' \in [Requests -> SUBSET Tokens]
  BY DEF TypeOK, Begin, LogoutFamily, ScanFamily, Respond, RevokeSession
<1>4. /\ now' \in [Requests -> Instants]
      /\ closed' \in [Requests -> SUBSET Sessions]
  BY DEF TypeOK, Begin, LogoutFamily, ScanFamily, Respond, RevokeSession
<1>5. UNCHANGED <<clock, session, token, kind, presented, draft>>
  BY DEF Begin, LogoutFamily, ScanFamily, Respond, RevokeSession, dbVars
<1>6. QED
  BY <1>1, <1>2, <1>3, <1>4, <1>5 DEF TypeOK

LEMMA TypeStep == LockInv /\ [Next]_vars => TypeOK'
<1> SUFFICES ASSUME LockInv, [Next]_vars PROVE TypeOK'
  OBVIOUS
<1>0. TypeOK
  BY DEF LockInv
<1>1. ASSUME NEW s \in Sessions, Login(s) PROVE TypeOK'
  BY <1>0, <1>1, LoginTyped
<1>2. ASSUME NEW q \in Requests, Begin(q) \/ Step(q) \/ Lose(q) PROVE TypeOK'
  <2>1. CASE LockToken(q)
    BY <1>0, <2>1, LockTokenTyped
  <2>2. CASE DetectReuse(q)
    BY <2>2, DetectReuseTyped
  <2>3. CASE RevokeRow(q)
    BY <1>0, <2>3, RevokeRowTyped
  <2>4. CASE Rotate(q)
    <3>1. DraftTyped'
      BY <2>4, RotateTyped DEF Rotate
    <3>2. RestTyped'
      BY <1>0, <2>4 DEF Rotate, Goto, TypeOK, RestTyped, Labels, dbVars
    <3>3. QED
      BY <3>1, <3>2, TypeParts
  <2>5. CASE \/ Refuse(q) \/ LogoutAgain(q) \/ DeadlockVictim(q) \/ Lose(q)
             \/ CommitRequest(q) \/ ReportReuse(q)
    BY <1>0, <2>5, EndTyped
  <2>6. CASE \/ Begin(q) \/ LogoutFamily(q) \/ ScanFamily(q) \/ Respond(q)
             \/ RevokeSession(q)
    BY <1>0, <2>6, LocalTyped
  <2>7. QED
    BY <1>2, <2>1, <2>2, <2>3, <2>4, <2>5, <2>6 DEF Step, Refresh, Logout, Revoke
<1>3. CASE Tick
  BY <1>0, <1>3, TimeAssumption DEF Tick, TypeOK, Instants, dbVars
<1>4. CASE UNCHANGED vars
  BY <1>0, <1>4 DEF vars, TypeOK
<1>5. QED
  BY <1>1, <1>2, <1>3, <1>4 DEF Next

-----------------------------------------------------------------------------
(* What a step does to the tables, and what that leaves of the other        *)
(* requests.                                                                *)

\* Rows stay in their family, and neither a rotation nor an end is undone.
Kept ==
    /\ \A t \in Tokens : Stored(t) =>
         /\ token'[t].session = token[t].session
         /\ token[t].rotated => token'[t].rotated
    /\ \A s \in Sessions :
         /\ session[s].status = "revoked" => session'[s].status = "revoked"
         /\ session[s].status # "none" => session'[s].status # "none"

\* Nothing changes in the rows that p has locked, nor in p itself.
Untouched(p) ==
    /\ \A t \in DOMAIN draft[p] : token'[t] = token[t]
    /\ pc'[p] = pc[p]
    /\ kind'[p] = kind[p]
    /\ presented'[p] = presented[p]
    /\ draft'[p] = draft[p]
    /\ targets'[p] = targets[p]
    /\ answer'[p] = answer[p]
    /\ closed'[p] = closed[p]

LEMMA TablesUnchanged ==
    ASSUME UNCHANGED dbVars
    PROVE  Kept
BY DEF Kept, dbVars

\* The rows that p has yet to revoke stay in their family.
TargetsKept(p) ==
    pc[p] = "revoke" =>
        \A t \in targets[p] : token'[t].session = token[t].session

LEMMA KeptTargets ==
    ASSUME LockInv, Kept, NEW p \in Requests
    PROVE  TargetsKept(p)
BY DEF LockInv, TypeOK, RequestInv, Revocation, Kept, TargetsKept

\* A request that a step does not touch keeps its part of the invariant.
LEMMA UntouchedKeeps ==
    ASSUME LockInv, NEW p \in Requests, Untouched(p), TargetsKept(p)
    PROVE  RequestInv(p)'
<1>1. RequestInv(p) /\ TypeOK
  BY DEF LockInv
<1>2. presented[p] \in Tokens /\ DOMAIN draft[p] \subseteq Tokens /\ targets[p] \subseteq Tokens
  BY <1>1 DEF TypeOK
<1>3. Holding(p) =>
        /\ presented[p] \in DOMAIN draft[p] /\ Stored(presented[p])
        /\ token'[presented[p]] = token[presented[p]]
        /\ Stored(presented[p])' /\ SessionOf(p)' = SessionOf(p)
  BY <1>1, <1>2 DEF RequestInv, Locks, Stored, SessionOf, Untouched
<1>4. Holding(p)' = Holding(p) /\ Rotating(p)' = Rotating(p)
  BY DEF Holding, Rotating, Untouched
<1>5. Locks(p)'
  BY <1>1, <1>3, <1>4 DEF RequestInv, Locks, Untouched, Stored
<1>6. FirstLook(p)'
  BY <1>1, <1>3, <1>4 DEF RequestInv, FirstLook, Untouched, Holding
<1>7. Revocation(p)'
  <2>1. ASSUME pc[p] = "revoke", NEW t \in targets[p]
        PROVE  Stored(t)' /\ token'[t].session = SessionOf(p)'
    <3>1. Stored(t) /\ token[t].session = SessionOf(p) /\ Holding(p)
      BY <1>1, <2>1 DEF RequestInv, Revocation, Holding
    <3>2. token'[t].session = token[t].session
      BY <2>1 DEF TargetsKept
    <3>3. QED
      BY <1>3, <3>1, <3>2 DEF Stored
  <2>2. ASSUME ~Rotating(p), NEW t \in DOMAIN draft[p]
        PROVE  /\ Stored(t)'
               /\ token'[t].session = SessionOf(p)'
               /\ draft[p][t].session = token'[t].session
               /\ draft[p][t].rotated = token'[t].rotated
               /\ token'[t].revoked => draft[p][t].revoked
    <3>1. Holding(p) /\ token'[t] = token[t]
      BY <1>1, <2>2 DEF RequestInv, Locks, Untouched
    <3>2. /\ Stored(t) /\ token[t].session = SessionOf(p)
          /\ draft[p][t].session = token[t].session
          /\ draft[p][t].rotated = token[t].rotated
          /\ token[t].revoked => draft[p][t].revoked
      BY <1>1, <2>2 DEF RequestInv, Revocation
    <3>3. QED
      BY <1>3, <3>1, <3>2 DEF Stored
  <2>3. QED
    BY <1>4, <2>1, <2>2 DEF Revocation, Untouched
<1>8. Rotation(p)'
  <2>1. SUFFICES ASSUME Rotating(p) PROVE Rotation(p)'
    BY <1>4 DEF Rotation
  <2>2. SessionOf(p)' = SessionOf(p) /\ presented[p] \in DOMAIN draft[p]
    BY <1>3, <2>1 DEF Rotating, Holding
  <2>3. PICK t \in Tokens : Replaces(p, t)
    BY <1>1, <2>1 DEF RequestInv, Rotation
  <2>4. token'[t] = token[t] /\ token'[presented[p]] = token[presented[p]]
    BY <2>2, <2>3 DEF Replaces, Untouched
  <2>5. Replaces(p, t)'
    BY <2>2, <2>3, <2>4 DEF Replaces, Untouched
  <2>6. QED
    BY <1>1, <2>1, <2>2, <2>4, <2>5 DEF RequestInv, Rotation, Untouched, IsCurrent
<1>9. QED
  BY <1>5, <1>6, <1>7, <1>8 DEF RequestInv

\* So does its answer, as long as no end is undone.
LEMMA UntouchedAnswered ==
    ASSUME IInv, Kept, NEW p \in Requests, Untouched(p)
    PROVE  Answered(p)'
<1>1. RequestInv(p) /\ Answered(p) /\ presented[p] \in Tokens
  BY DEF IInv, LockInv, TypeOK
<1>2. Stored(presented[p]) => Stored(presented[p])' /\ SessionOf(p)' = SessionOf(p)
  BY <1>1 DEF Kept, Stored, SessionOf, Untouched
<1>3. Rotating(p) => Stored(presented[p])
  BY <1>1 DEF RequestInv, Locks, Rotating, Holding
<1>4. Rotating(p)' = Rotating(p)
  BY DEF Rotating, Untouched
<1>5. \A s : Ended(s) => Ended(s)'
  BY DEF Kept, Ended
<1>6. Stored(presented[p]) /\ token[presented[p]].rotated => token'[presented[p]].rotated
  BY <1>1 DEF Kept
<1>7. QED
  BY <1>1, <1>2, <1>3, <1>4, <1>5, <1>6 DEF Answered, Untouched

TablesInv == StoredRows /\ AtMostOne /\ AtLeastOne

\* A commit changes nothing that another request has locked.
LEMMA CommitSpares ==
    ASSUME TypeOK, NEW q \in Requests, Commit(q), NEW p \in Requests \ {q}
    PROVE  \A t \in DOMAIN draft[p] : token'[t] = token[t]
BY DEF TypeOK, Commit, Seen

LEMMA RotationCommits ==
    ASSUME LockInv, NEW q \in Requests, Rotating(q), Commit(q), session' = session
    PROVE  Kept /\ TablesInv' /\ token'[presented[q]].rotated
<1> DEFINE old == presented[q]
<1>1. PICK new \in Tokens : Replaces(q, new)
  BY DEF LockInv, RequestInv, Rotation
<1>2. /\ old \in Tokens /\ Stored(old) /\ IsCurrent(token[old])
      /\ SessionOf(q) = token[old].session
      /\ token[old] \in Row
  BY DEF LockInv, TypeOK, RequestInv, Locks, Rotation, Rotating, Holding, SessionOf
<1>3. /\ token'[new] = NewRow(SessionOf(q))
      /\ token'[old] = [token[old] EXCEPT !.rotated = TRUE]
      /\ \A t \in Tokens \ {new, old} : token'[t] = token[t]
      /\ new # old /\ token[new] = NoRow
  BY <1>1, <1>2 DEF Replaces, Commit, Seen
<1>4. /\ token'[old].session = token[old].session
      /\ token'[old].rotated
      /\ token'[new].session = SessionOf(q)
      /\ IsCurrent(token'[new])
  BY <1>2, <1>3 DEF Row, NewRow, NoRow, IsCurrent
<1>5. ~Stored(new)
  BY <1>3, NamesAssumption DEF Stored, NoRow
<1>6. Kept
  BY <1>2, <1>3, <1>4, <1>5 DEF Kept
<1>7. StoredRows'
  <2>1. token'[old].session \in Sessions /\ session'[token'[old].session].status # "none"
    <3>1. token[old] # NoRow
      BY <1>2, NamesAssumption DEF Stored, NoRow
    <3>2. QED
      BY <1>2, <1>4, <3>1 DEF Stored, LockInv, StoredRows
  <2>2. Stored(new)' /\ session'[token'[new].session].status # "none"
    BY <1>2, <1>4, <2>1 DEF Stored
  <2>3. QED
    BY <1>3, <2>1, <2>2 DEF LockInv, StoredRows, Stored
<1>8. AtMostOne'
  <2>1. SUFFICES ASSUME NEW t \in Tokens, NEW u \in Tokens,
                        Stored(t)', IsCurrent(token'[t]),
                        Stored(u)', IsCurrent(token'[u]),
                        token'[t].session = token'[u].session
                 PROVE  t = u
    BY DEF AtMostOne
  <2>2. t # old /\ u # old
    BY <1>4, <2>1 DEF IsCurrent
  <2>3. ASSUME NEW v \in Tokens \ {old, new}, Stored(v)', IsCurrent(token'[v])
        PROVE  token'[v].session # SessionOf(q)
    BY <1>2, <1>3, <2>3 DEF LockInv, AtMostOne, Stored
  <2>4. CASE t # new /\ u # new
    BY <1>3, <2>1, <2>2, <2>4 DEF LockInv, AtMostOne, Stored
  <2>5. QED
    BY <1>4, <2>1, <2>2, <2>3, <2>4
<1>9. AtLeastOne'
  <2>1. SUFFICES ASSUME NEW s \in Sessions, session[s].status = "active"
                 PROVE  \E t \in Tokens : t \in Current(s)'
    BY DEF AtLeastOne
  <2>2. PICK t \in Tokens : t \in Current(s)
    BY <2>1 DEF LockInv, AtLeastOne
  <2>3. CASE s = SessionOf(q)
    BY <1>4, <2>3 DEF Current, IsCurrent
  <2>4. CASE s # SessionOf(q)
    <3>1. t # old /\ t # new
      BY <1>2, <1>5, <2>2, <2>4 DEF Current, Stored
    <3>2. QED
      BY <1>3, <2>2, <3>1 DEF Current
  <2>5. QED
    BY <2>3, <2>4
<1>10. QED
  BY <1>4, <1>6, <1>7, <1>8, <1>9 DEF TablesInv

\* The commit of a family's revocation, together with its session's.
LEMMA RevocationCommits ==
    ASSUME LockInv, NEW q \in Requests, Holding(q), ~Rotating(q), Commit(q),
           EndSessionOf(q)
    PROVE  Kept /\ TablesInv' /\ session'[SessionOf(q)].status = "revoked"
<1>1. SessionOf(q) \in Sessions /\ TypeOK
  BY DEF LockInv, RequestInv, Locks, Stored, SessionOf
<1>2. \A t \in Tokens :
        /\ token'[t].session = token[t].session
        /\ token'[t].rotated = token[t].rotated
        /\ token[t].revoked => token'[t].revoked
        /\ token'[t] = token[t] \/ (Stored(t) /\ token[t].session = SessionOf(q))
  BY DEF LockInv, RequestInv, Revocation, Commit, Seen
<1>3. \A s \in Sessions \ {SessionOf(q)} : session'[s] = session[s]
  BY DEF EndSessionOf, LockInv, TypeOK
<1>4. session'[SessionOf(q)].status = "revoked"
  <2>1. session[SessionOf(q)] \in SessionRow
    BY <1>1 DEF TypeOK
  <2>2. QED
    BY <1>1, <2>1 DEF EndSessionOf, TypeOK, SessionRow
<1>5. Kept
  BY <1>1, <1>2, <1>3, <1>4 DEF Kept
<1>6. StoredRows'
  <2>1. SUFFICES ASSUME NEW t \in Tokens
                 PROVE  token'[t] = NoRow \/ (Stored(t)' /\ session'[token'[t].session].status # "none")
    BY DEF StoredRows
  <2>2. CASE Stored(t) /\ session[token[t].session].status # "none"
    BY <1>2, <1>5, <2>2 DEF Stored, Kept
  <2>3. CASE token[t] = NoRow
    BY <1>2, <2>3, NamesAssumption DEF Stored, NoRow
  <2>4. QED
    BY <2>2, <2>3 DEF LockInv, StoredRows
<1>7. AtMostOne'
  BY <1>2 DEF LockInv, AtMostOne, IsCurrent, Stored
<1>8. AtLeastOne'
  <2>1. SUFFICES ASSUME NEW s \in Sessions, session'[s].status = "active"
                 PROVE  \E t \in Tokens : t \in Current(s)'
    BY DEF AtLeastOne
  <2>2. s # SessionOf(q) /\ session[s].status = "active"
    BY <1>3, <1>4, <2>1
  <2>3. PICK t \in Tokens : t \in Current(s)
    BY <2>2 DEF LockInv, AtLeastOne
  <2>4. QED
    BY <1>2, <2>2, <2>3 DEF Current
<1>9. QED
  BY <1>1, <1>2, <1>4, <1>5, <1>6, <1>7, <1>8 DEF TablesInv

LEMMA LoginCommits ==
    ASSUME LockInv, NEW s \in Sessions, Login(s)
    PROVE  Kept /\ TablesInv' /\ \A p \in Requests : Untouched(p)
<1>1. PICK new \in Fresh : token' = [token EXCEPT ![new] = NewRow(s)]
  BY DEF Login
<1>2. /\ new \in Tokens /\ token[new] = NoRow
      /\ \A p \in Requests : new \notin DOMAIN draft[p]
  BY DEF Fresh
<1>3. /\ token'[new] = NewRow(s)
      /\ \A t \in Tokens \ {new} : token'[t] = token[t]
  BY <1>1, <1>2 DEF LockInv, TypeOK
<1>4. token'[new].session = s /\ IsCurrent(token'[new])
  BY <1>3 DEF NewRow, NoRow, IsCurrent
<1>5. /\ session[s].status = "none"
      /\ session'[s].status = "active"
      /\ \A r \in Sessions \ {s} : session'[r] = session[r]
  BY DEF Login, Unopened, LockInv, TypeOK
<1>6. ~Stored(new)
  BY <1>2, NamesAssumption DEF Stored, NoRow
<1>7. Kept
  BY <1>3, <1>5, <1>6 DEF Kept
<1>8. \A t \in Tokens \ {new} :
        Stored(t) => token'[t].session = token[t].session /\ token[t].session # s
  BY <1>3, <1>5, NamesAssumption DEF LockInv, StoredRows, Stored, NoRow
<1>9. StoredRows'
  BY <1>3, <1>4, <1>5, <1>8 DEF LockInv, StoredRows, Stored
<1>10. AtMostOne'
  BY <1>3, <1>4, <1>8 DEF LockInv, AtMostOne, Stored
<1>11. AtLeastOne'
  <2>1. SUFFICES ASSUME NEW r \in Sessions, session'[r].status = "active"
                 PROVE  \E t \in Tokens : t \in Current(r)'
    BY DEF AtLeastOne
  <2>2. CASE r = s
    BY <1>2, <1>4, <2>2 DEF Current, IsCurrent
  <2>3. CASE r # s
    <3>1. PICK t \in Tokens : t \in Current(r)
      BY <1>5, <2>1, <2>3 DEF LockInv, AtLeastOne
    <3>2. t # new
      BY <1>6, <3>1 DEF Current, Stored
    <3>3. QED
      BY <1>3, <3>1, <3>2 DEF Current
  <2>4. QED
    BY <2>2, <2>3
<1>12. ASSUME NEW p \in Requests PROVE Untouched(p)
  <2>1. \A t \in DOMAIN draft[p] : token'[t] = token[t]
    BY <1>2, <1>3 DEF LockInv, TypeOK
  <2>2. QED
    BY <2>1 DEF Untouched, Login
<1>13. QED
  BY <1>7, <1>9, <1>10, <1>11, <1>12 DEF TablesInv

-----------------------------------------------------------------------------
(* What the step of a request leaves of its own part of the invariant.      *)

LEMMA BeginOwn ==
    ASSUME LockInv, NEW q \in Requests, Begin(q)
    PROVE  RequestInv(q)'
<1>1. RequestInv(q) /\ TypeOK
  BY DEF LockInv
<1>2. /\ pc[q] = "idle" /\ pc'[q] = "lock"
      /\ UNCHANGED <<session, token, kind, presented, draft, targets>>
  BY <1>1 DEF Begin, Goto, TypeOK, dbVars
<1>3. DOMAIN draft[q] = {}
  BY <1>1, <1>2 DEF RequestInv, Locks, Holding
<1>4. QED
  BY <1>2, <1>3 DEF RequestInv, Locks, FirstLook, Revocation, Rotation,
                    Rotating, Holding

\* A transaction that is rolled back, whatever was answered.
LEMMA DropOwn ==
    ASSUME LockInv, NEW q \in Requests,
           Refuse(q) \/ LogoutAgain(q) \/ DeadlockVictim(q) \/ Lose(q)
    PROVE  RequestInv(q)'
<1>1. RequestInv(q) /\ TypeOK
  BY DEF LockInv
<1>2. /\ UNCHANGED <<session, token, kind, presented>>
      /\ draft' = [draft EXCEPT ![q] = Unlocked]
      /\ pc'[q] \in {"done", "lost"}
  BY <1>1 DEF Refuse, LogoutAgain, DeadlockVictim, Lose, Rollback, Finish, Goto, TypeOK
<1>3. DOMAIN draft'[q] = {}
  BY <1>1, <1>2, DropTyped
<1>4. QED
  BY <1>2, <1>3 DEF RequestInv, Locks, FirstLook, Revocation, Rotation,
                    Rotating, Holding

LEMMA LockTokenOwn ==
    ASSUME LockInv, NEW q \in Requests, LockToken(q)
    PROVE  /\ RequestInv(q)'
           /\ \A p \in Requests \ {q} : draft'[p] = draft[p]
<1>1. RequestInv(q) /\ TypeOK
  BY DEF LockInv
<1>2. /\ pc[q] = "lock"
      /\ UNCHANGED <<session, token, kind, presented, targets, closed>>
      /\ presented[q] \in Tokens /\ token[presented[q]] \in Row
  BY <1>1 DEF LockToken, TypeOK, dbVars
<1>3. DOMAIN draft[q] = {}
  BY <1>1, <1>2 DEF RequestInv, Locks, Holding
<1>4. CASE token[presented[q]] = NoRow
  <2>1. pc'[q] = "done" /\ draft' = draft
    BY <1>1, <1>4 DEF LockToken, Finish, TypeOK
  <2>2. QED
    BY <1>2, <1>3, <2>1 DEF RequestInv, Locks, FirstLook, Revocation, Rotation,
                            Rotating, Holding
<1>5. CASE token[presented[q]] # NoRow
  <2>1. /\ pc'[q] = "session"
        /\ ~LockedByOther(q, presented[q])
        /\ Write(q, presented[q], token[presented[q]])
    BY <1>1, <1>5 DEF LockToken, Goto, TypeOK
  <2>2. /\ DOMAIN draft'[q] = {presented[q]}
        /\ draft'[q][presented[q]] = token[presented[q]]
        /\ \A p \in Requests \ {q} : draft'[p] = draft[p]
    BY <1>1, <1>2, <1>3, <2>1, WriteTyped
  <2>3. Stored(presented[q])
    BY <1>2, <1>5 DEF LockInv, StoredRows
  <2>4. Locks(q)' /\ FirstLook(q)' /\ Revocation(q)' /\ Rotation(q)'
    BY <1>2, <2>1, <2>2, <2>3
       DEF Locks, FirstLook, Revocation, Rotation, Rotating, Holding, Stored, SessionOf
  <2>5. QED
    BY <2>2, <2>4 DEF RequestInv
<1>6. QED
  BY <1>4, <1>5

\* Steps of a request that has locked its token, and touches no row.
LEMMA LocalOwn ==
    ASSUME LockInv, NEW q \in Requests,
           LogoutFamily(q) \/ ScanFamily(q) \/ RevokeSession(q) \/ Respond(q)
    PROVE  RequestInv(q)'
<1>1. RequestInv(q) /\ TypeOK
  BY DEF LockInv
<1>2. /\ UNCHANGED <<session, token, kind, presented, draft, closed>>
      /\ Holding(q)
  BY <1>1 DEF LogoutFamily, ScanFamily, RevokeSession, Respond, Holding, dbVars
<1>3. /\ Stored(presented[q])' /\ SessionOf(q)' = SessionOf(q)
      /\ presented[q] \in DOMAIN draft[q]
  BY <1>1, <1>2 DEF RequestInv, Locks, Stored, SessionOf
<1>4. /\ pc'[q] \in {"scan", "revoke", "respond", "commit"}
      /\ Rotating(q)' = Rotating(q)
      /\ pc'[q] = "commit" => Respond(q)
      /\ pc'[q] = "revoke" => ScanFamily(q)
  <2>1. CASE LogoutFamily(q)
    BY <1>1, <1>2, <2>1 DEF LogoutFamily, Rotating, Goto, TypeOK
  <2>2. CASE ScanFamily(q)
    BY <1>1, <1>2, <2>2 DEF ScanFamily, Rotating, Goto, TypeOK
  <2>3. CASE RevokeSession(q)
    BY <1>1, <1>2, <2>3 DEF RevokeSession, Rotating, Goto, TypeOK
  <2>4. CASE Respond(q)
    BY <1>1, <1>2, <2>4 DEF Respond, Rotating, TypeOK
  <2>5. QED
    BY <2>1, <2>2, <2>3, <2>4
<1>5. Locks(q)' /\ FirstLook(q)'
  BY <1>2, <1>3, <1>4 DEF Locks, FirstLook, Holding
<1>6. Rotation(q)'
  BY <1>1, <1>2, <1>3, <1>4 DEF RequestInv, Rotation, Replaces
<1>7. Revocation(q)'
  <2>1. \A t \in Tokens : Stored(t)' = Stored(t)
    BY <1>2 DEF Stored
  <2>2. ASSUME ScanFamily(q), NEW t \in targets'[q]
        PROVE  Stored(t) /\ token[t].session = SessionOf(q)
    <3>1. t \in Tokens /\ Seen(q, t).session = SessionOf(q) /\ ~Rotating(q)
      BY <1>1, <2>2 DEF ScanFamily, TypeOK, Rotating
    <3>2. token[t].session = SessionOf(q)
      BY <1>1, <3>1 DEF RequestInv, Revocation, Seen
    <3>3. QED
      BY <1>1, <1>2, <3>2 DEF RequestInv, Locks, Stored, SessionOf
  <2>3. DOMAIN draft[q] \subseteq Tokens /\ targets'[q] \subseteq Tokens
    BY <1>1 DEF TypeOK, LogoutFamily, ScanFamily, RevokeSession, Respond
  <2>4. QED
    BY <1>1, <1>2, <1>3, <1>4, <2>1, <2>2, <2>3 DEF RequestInv, Revocation
<1>8. QED
  BY <1>5, <1>6, <1>7 DEF RequestInv

LEMMA DetectReuseOwn ==
    ASSUME LockInv, NEW q \in Requests, DetectReuse(q)
    PROVE  /\ RequestInv(q)'
           /\ \A p \in Requests \ {q} : draft'[p] = draft[p]
<1> DEFINE row == [Seen(q, presented[q]) EXCEPT !.reused = TRUE]
<1>1. RequestInv(q) /\ TypeOK
  BY DEF LockInv
<1>2. /\ pc[q] = "session" /\ pc'[q] = "scan" /\ kind[q] = "refresh"
      /\ UNCHANGED <<session, token, kind, presented, targets>>
      /\ Write(q, presented[q], row)
  BY <1>1 DEF DetectReuse, Goto, TypeOK, dbVars
<1>3. /\ DOMAIN draft[q] = {presented[q]}
      /\ Seen(q, presented[q]) = token[presented[q]]
      /\ Stored(presented[q])
  BY <1>1, <1>2 DEF RequestInv, FirstLook, Locks, Holding, Seen
<1>4. /\ presented[q] \in Tokens
      /\ Seen(q, presented[q]) \in Row /\ row \in Row
      /\ ~LockedByOther(q, presented[q])
  <2>1. presented[q] \in Tokens /\ ~LockedByOther(q, presented[q])
    BY <1>1, <1>3 DEF TypeOK, LockedByOther
  <2>2. Seen(q, presented[q]) \in Row
    BY <1>1, <2>1, SeenTyped
  <2>3. QED
    BY <2>1, <2>2 DEF Row
<1>5. /\ row.session = token[presented[q]].session
      /\ row.rotated = token[presented[q]].rotated
      /\ row.revoked = token[presented[q]].revoked
  BY <1>3, <1>4 DEF Row
<1> HIDE DEF row
<1>6. /\ DOMAIN draft'[q] = {presented[q]}
      /\ draft'[q][presented[q]] = row
      /\ \A p \in Requests \ {q} : draft'[p] = draft[p]
  BY <1>1, <1>2, <1>3, <1>4, WriteTyped
<1>7. Locks(q)' /\ FirstLook(q)' /\ Rotation(q)'
  BY <1>2, <1>3, <1>6 DEF Locks, FirstLook, Rotation, Rotating, Holding, Stored
<1>8. Revocation(q)'
  BY <1>2, <1>3, <1>5, <1>6 DEF Revocation, Stored, SessionOf
<1>9. QED
  BY <1>6, <1>7, <1>8 DEF RequestInv

LEMMA RevokeRowOwn ==
    ASSUME LockInv, NEW q \in Requests, RevokeRow(q)
    PROVE  /\ RequestInv(q)'
           /\ \A p \in Requests \ {q} : draft'[p] = draft[p]
<1>1. RequestInv(q) /\ TypeOK
  BY DEF LockInv
<1>2. /\ pc[q] = "revoke"
      /\ UNCHANGED <<session, token, pc, kind, presented>>
  BY DEF RevokeRow, dbVars
<1>3. PICK t \in targets[q] :
        /\ ~LockedByOther(q, t)
        /\ Write(q, t, AsRevoked(q, Seen(q, t)))
        /\ targets' = [targets EXCEPT ![q] = @ \ {t}]
  BY DEF RevokeRow
<1>4. /\ t \in Tokens /\ targets'[q] \subseteq targets[q]
      /\ Seen(q, t) \in Row
  BY <1>1, <1>3, SeenTyped DEF TypeOK
<1>5. /\ ~Rotating(q) /\ Holding(q)
      /\ Stored(t) /\ token[t].session = SessionOf(q)
      /\ Seen(q, t).session = token[t].session
      /\ Seen(q, t).rotated = token[t].rotated
  BY <1>1, <1>2, <1>3 DEF RequestInv, Revocation, Rotating, Holding, Seen
<1>6. /\ AsRevoked(q, Seen(q, t)) \in Row
      /\ AsRevoked(q, Seen(q, t)).session = token[t].session
      /\ AsRevoked(q, Seen(q, t)).rotated = token[t].rotated
      /\ AsRevoked(q, Seen(q, t)).revoked
  BY <1>4, <1>5, AsRevokedTyped
<1>7. /\ DOMAIN draft'[q] = DOMAIN draft[q] \cup {t}
      /\ draft'[q][t] = AsRevoked(q, Seen(q, t))
      /\ \A u \in DOMAIN draft[q] \ {t} : draft'[q][u] = draft[q][u]
      /\ \A p \in Requests \ {q} : draft'[p] = draft[p]
  BY <1>1, <1>3, <1>4, <1>6, WriteTyped
<1>8. Locks(q)' /\ FirstLook(q)' /\ Rotation(q)'
  BY <1>1, <1>2, <1>5, <1>7
     DEF RequestInv, Locks, FirstLook, Rotation, Rotating, Holding, Stored
<1>9. Revocation(q)'
  <2>1. \A u \in DOMAIN draft'[q] :
          /\ Stored(u) /\ token[u].session = SessionOf(q)
          /\ draft'[q][u].session = token[u].session
          /\ draft'[q][u].rotated = token[u].rotated
          /\ token[u].revoked => draft'[q][u].revoked
    BY <1>1, <1>5, <1>6, <1>7 DEF RequestInv, Revocation
  <2>2. \A u \in targets'[q] : Stored(u) /\ token[u].session = SessionOf(q)
    BY <1>1, <1>2, <1>4 DEF RequestInv, Revocation
  <2>3. QED
    BY <1>2, <2>1, <2>2 DEF Revocation, Stored, SessionOf
<1>10. QED
  BY <1>7, <1>8, <1>9 DEF RequestInv

LEMMA RotateOwn ==
    ASSUME LockInv, NEW q \in Requests, Rotate(q)
    PROVE  /\ RequestInv(q)'
           /\ \A p \in Requests \ {q} : draft'[p] = draft[p]
<1>1. RequestInv(q) /\ TypeOK
  BY DEF LockInv
<1>2. /\ pc[q] = "session" /\ pc'[q] = "respond" /\ kind[q] = "refresh"
      /\ UNCHANGED <<session, token, kind, presented, targets>>
  BY <1>1 DEF Rotate, Goto, TypeOK, dbVars
<1>3. /\ presented[q] \in DOMAIN draft[q]
      /\ Seen(q, presented[q]) = token[presented[q]]
      /\ Stored(presented[q])
  BY <1>1, <1>2 DEF RequestInv, FirstLook, Locks, Holding, Seen
<1>4. IsCurrent(token[presented[q]])
  BY <1>3 DEF Rotate, Reused, Refused, IsCurrent
<1>6. PICK t \in Fresh : RotateInto(q, t)
  BY DEF Rotate
<1>7. t \in Tokens /\ token[t] = NoRow
  BY DEF Fresh
<1>8. /\ DOMAIN draft'[q] = {t, presented[q]}
      /\ t # presented[q]
      /\ draft'[q][t] = NewRow(SessionOf(q))
      /\ draft'[q][presented[q]] = [token[presented[q]] EXCEPT !.rotated = TRUE]
      /\ \A p \in Requests \ {q} : draft'[p] = draft[p]
  BY <1>2, <1>6, RotateTyped
<1>9. SessionOf(q)' = SessionOf(q)
  BY <1>2 DEF SessionOf
<1>10. Rotation(q)'
  <2>1. Replaces(q, t)'
    BY <1>2, <1>7, <1>8, <1>9 DEF Replaces
  <2>2. QED
    BY <1>2, <1>4, <1>7, <1>9, <2>1 DEF Rotation, IsCurrent
<1>11. Locks(q)' /\ FirstLook(q)' /\ Revocation(q)'
  BY <1>2, <1>3, <1>8 DEF Locks, FirstLook, Revocation, Rotating, Holding, Stored
<1>12. QED
  BY <1>8, <1>10, <1>11 DEF RequestInv

LEMMA CommitOwn ==
    ASSUME LockInv, NEW q \in Requests, CommitRequest(q) \/ ReportReuse(q)
    PROVE  /\ Kept /\ TablesInv' /\ RequestInv(q)'
           /\ Stored(presented[q])
           /\ IF Rotating(q) THEN token'[presented[q]].rotated
              ELSE session'[SessionOf(q)].status = "revoked"
<1>1. RequestInv(q) /\ TypeOK
  BY DEF LockInv
<1>2. /\ Commit(q) /\ draft' = [draft EXCEPT ![q] = Unlocked]
      /\ pc'[q] = "done" /\ Holding(q)
      /\ UNCHANGED <<kind, presented>>
      /\ kind[q] \in {"refresh", "logout"}
  BY <1>1, NamesAssumption
     DEF CommitRequest, ReportReuse, Commit, Finish, Holding, TypeOK
<1>3. /\ Stored(presented[q]) /\ presented[q] \in Tokens
      /\ DOMAIN draft'[q] = {}
  BY <1>1, <1>2, DropTyped DEF RequestInv, Locks, TypeOK
<1>4. RequestInv(q)'
  BY <1>2, <1>3 DEF RequestInv, Locks, FirstLook, Revocation, Rotation,
                    Rotating, Holding
<1>5. CASE Rotating(q)
  <2>1. session' = session
    BY <1>5 DEF CommitRequest, ReportReuse, Rotating
  <2>2. QED
    BY <1>2, <1>3, <1>4, <1>5, <2>1, RotationCommits
<1>6. CASE ~Rotating(q)
  <2>1. EndSessionOf(q)
    BY <1>2, <1>6 DEF CommitRequest, ReportReuse, Rotating
  <2>2. QED
    BY <1>2, <1>3, <1>4, <1>6, <2>1, RevocationCommits
<1>7. QED
  BY <1>5, <1>6

-----------------------------------------------------------------------------
(* The invariant is inductive.                                              *)

LEMMA StepUntouched ==
    ASSUME LockInv, NEW q \in Requests, Begin(q) \/ Step(q) \/ Lose(q),
           NEW p \in Requests \ {q}
    PROVE  Untouched(p)
<1>1. TypeOK
  BY DEF LockInv
<1>2. /\ pc'[p] = pc[p] /\ answer'[p] = answer[p] /\ targets'[p] = targets[p]
      /\ kind' = kind /\ presented' = presented /\ closed'[p] = closed[p]
  <2>1. CASE Begin(q) \/ Lose(q) \/ LockToken(q) \/ DeadlockVictim(q)
    BY <1>1, <2>1 DEF Begin, Lose, LockToken, DeadlockVictim, Goto, Finish, Answer, TypeOK
  <2>2. CASE Refresh(q) \/ Logout(q)
    BY <1>1, <2>2 DEF Refresh, Logout, DetectReuse, Refuse, Rotate, LogoutFamily,
                      LogoutAgain, Goto, Finish, Answer, TypeOK
  <2>3. CASE Revoke(q) \/ Respond(q) \/ CommitRequest(q)
    BY <1>1, <2>3 DEF Revoke, ScanFamily, RevokeRow, RevokeSession, ReportReuse,
                      Respond, CommitRequest, Goto, Finish, Answer, TypeOK
  <2>4. QED
    BY <2>1, <2>2, <2>3 DEF Step
<1>3. draft'[p] = draft[p]
  <2>1. CASE LockToken(q)
    BY <2>1, LockTokenOwn
  <2>2. CASE DetectReuse(q)
    BY <2>2, DetectReuseOwn
  <2>3. CASE Rotate(q)
    BY <2>3, RotateOwn
  <2>4. CASE RevokeRow(q)
    BY <2>4, RevokeRowOwn
  <2>5. CASE draft' = draft \/ draft' = [draft EXCEPT ![q] = Unlocked]
    BY <1>1, <2>5, DropTyped
  <2>6. QED
    BY <2>1, <2>2, <2>3, <2>4, <2>5
       DEF Begin, Step, Lose, Refresh, Logout, Revoke, Respond, CommitRequest,
           DeadlockVictim, Refuse, LogoutFamily, LogoutAgain, ScanFamily,
           RevokeSession, ReportReuse, Commit, Rollback
<1>4. \A t \in DOMAIN draft[p] : token'[t] = token[t]
  <2>1. CASE Commit(q)
    BY <1>1, <2>1, CommitSpares
  <2>2. CASE token' = token
    BY <2>2
  <2>3. QED
    BY <2>1, <2>2
       DEF Begin, Step, Lose, Refresh, Logout, Revoke, Respond, CommitRequest,
           DeadlockVictim, Refuse, LogoutFamily, LogoutAgain, ScanFamily,
           RevokeSession, ReportReuse, LockToken, DetectReuse, Rotate, RevokeRow,
           Rollback, dbVars
<1>5. QED
  BY <1>2, <1>3, <1>4 DEF Untouched

LEMMA StepOwn ==
    ASSUME LockInv, NEW q \in Requests, Begin(q) \/ Step(q) \/ Lose(q)
    PROVE  Kept /\ TablesInv' /\ RequestInv(q)'
<1>1. CASE CommitRequest(q) \/ ReportReuse(q)
  BY <1>1, CommitOwn
<1>2. CASE ~(CommitRequest(q) \/ ReportReuse(q))
  <2>1. UNCHANGED dbVars
    BY <1>2 DEF Begin, Step, Lose, Refresh, Logout, Revoke, Respond,
                DeadlockVictim, Refuse, LogoutFamily, LogoutAgain, ScanFamily,
                RevokeSession, LockToken, DetectReuse, Rotate, RevokeRow,
                Rollback, dbVars
  <2>2. Kept
    BY <2>1, TablesUnchanged
  <2>3. TablesInv'
    BY <2>1 DEF LockInv, TablesInv, StoredRows, AtMostOne, AtLeastOne, Stored, Current,
                dbVars
  <2>4. RequestInv(q)'
    BY <1>2, BeginOwn, DropOwn, LockTokenOwn, LocalOwn, DetectReuseOwn, RevokeRowOwn,
       RotateOwn DEF Step, Refresh, Logout, Revoke
  <2>5. QED
    BY <2>2, <2>3, <2>4
<1>3. QED
  BY <1>1, <1>2

\* What the step of a request leaves of its answer.
LEMMA AnsweredOwn ==
    ASSUME IInv, NEW q \in Requests, Begin(q) \/ Step(q) \/ Lose(q)
    PROVE  Answered(q)'
<1>1. RequestInv(q) /\ Answered(q) /\ TypeOK /\ LockInv
  BY DEF IInv, LockInv
<1>2. kind' = kind /\ presented' = presented /\ kind[q] \in {"refresh", "logout"}
  BY <1>1, NamesAssumption
     DEF Begin, Step, Lose, Refresh, Logout, Revoke, Respond, CommitRequest,
         DeadlockVictim, Refuse, LogoutFamily, LogoutAgain, ScanFamily,
         RevokeSession, ReportReuse, LockToken, DetectReuse, Rotate, RevokeRow,
         TypeOK
<1>3. Holding(q) => Stored(presented[q])
  BY <1>1 DEF RequestInv, Locks
<1>4. CASE CommitRequest(q) \/ ReportReuse(q)
  <2>1. /\ Kept /\ Stored(presented[q])
        /\ IF Rotating(q) THEN token'[presented[q]].rotated
           ELSE session'[SessionOf(q)].status = "revoked"
    BY <1>1, <1>4, CommitOwn
  <2>2. /\ pc'[q] = "done" /\ closed' = closed /\ presented[q] \in Tokens
    BY <1>1, <1>4 DEF CommitRequest, ReportReuse, Finish, TypeOK
  <2>3. Stored(presented[q])' /\ SessionOf(q)' = SessionOf(q)
    BY <1>2, <2>1, <2>2 DEF Kept, Stored, SessionOf
  <2>4. \A s : Ended(s) => Ended(s)'
    BY <2>1 DEF Kept, Ended
  <2>5. ~Rotating(q) => Ended(SessionOf(q))'
    BY <2>1, <2>3 DEF Ended, Stored, SessionOf
  <2>6. IF Rotating(q) THEN answer'[q] = "rotated" /\ answer[q] = "rotated"
        ELSE \/ answer'[q] = "reuse"
             \/ answer'[q] = "logged_out" /\ kind[q] = "logout"
    BY <1>1, <1>2, <1>4
       DEF CommitRequest, ReportReuse, Finish, Answer, Answered, Rotating, TypeOK
  <2>7. Rotating(q) => kind[q] = "refresh"
    BY DEF Rotating
  <2>8. QED
    BY <1>1, <1>2, <2>1, <2>2, <2>3, <2>4, <2>5, <2>6, <2>7 DEF Answered, Rotating
<1>5. CASE ~(CommitRequest(q) \/ ReportReuse(q))
  <2>1. UNCHANGED dbVars
    BY <1>5 DEF Begin, Step, Lose, Refresh, Logout, Revoke, Respond,
                DeadlockVictim, Refuse, LogoutFamily, LogoutAgain, ScanFamily,
                RevokeSession, LockToken, DetectReuse, Rotate, RevokeRow,
                Rollback, dbVars
  <2>2. /\ \A s : Ended(s)' = Ended(s)
        /\ SessionOf(q)' = SessionOf(q) /\ Stored(presented[q])' = Stored(presented[q])
    BY <1>2, <2>1 DEF dbVars, Ended, SessionOf, Stored
  <2>3. CASE Begin(q)
    <3>1. /\ pc[q] = "idle" /\ pc'[q] = "lock" /\ answer' = answer
          /\ closed'[q] = {s \in Sessions : session[s].status = "revoked"}
      BY <1>1, <2>3 DEF Begin, Goto, TypeOK
    <3>2. QED
      BY <1>1, <2>2, <3>1 DEF Answered, Ended, Rotating
  <2>4. CASE LogoutAgain(q)
    <3>1. Stored(presented[q]) /\ Ended(SessionOf(q))
      BY <1>3, <2>4 DEF LogoutAgain, Holding, Ended, Stored, SessionOf
    <3>2. /\ pc'[q] = "done" /\ answer'[q] = "logged_out" /\ kind[q] = "logout"
          /\ closed' = closed
      BY <1>1, <2>4 DEF LogoutAgain, Finish, Answer, TypeOK
    <3>3. QED
      BY <1>1, <1>2, <2>2, <3>1, <3>2 DEF Answered, Rotating
  <2>5. CASE Refuse(q) \/ DeadlockVictim(q) \/ (LockToken(q) /\ pc'[q] # "session")
    <3>1. /\ pc'[q] = "done" /\ answer'[q] \in {"refused", "deadlock", "unknown"}
          /\ closed' = closed
      BY <1>1, <2>5 DEF Refuse, DeadlockVictim, LockToken, Goto, Finish, Answer, TypeOK
    <3>2. QED
      BY <1>1, <2>2, <3>1 DEF Answered, Rotating
  <2>6. CASE Lose(q)
    <3>1. pc'[q] = "lost" /\ answer' = answer /\ closed' = closed
      BY <1>1, <2>6 DEF Lose, Goto, TypeOK
    <3>2. QED
      BY <1>1, <1>2, <2>1, <2>2, <3>1 DEF Answered, Rotating, dbVars
  <2>7. CASE Respond(q)
    <3>1. /\ pc[q] = "respond" /\ pc'[q] = "commit" /\ closed' = closed
          /\ answer'[q] = IF kind[q] = "refresh" THEN "rotated" ELSE "logged_out"
      BY <1>1, <2>7 DEF Respond, Answer, TypeOK
    <3>2. kind[q] = "refresh" => SessionOf(q) \notin closed[q]
      BY <1>1, <3>1 DEF Answered, Rotating
    <3>3. Stored(presented[q])
      BY <1>3, <3>1 DEF Holding
    <3>4. QED
      BY <1>1, <1>2, <2>2, <3>1, <3>2, <3>3 DEF Answered, Rotating
  <2>8. CASE Rotate(q)
    <3>1. /\ pc[q] = "session" /\ pc'[q] = "respond" /\ answer' = answer
          /\ closed' = closed
      BY <1>1, <2>8 DEF Rotate, Goto, TypeOK
    <3>2. SessionOf(q) \notin closed[q]
      BY <1>1, <2>8 DEF Rotate, Refused, Answered, Ended
    <3>3. QED
      BY <1>1, <1>2, <2>2, <3>1, <3>2 DEF Answered, Rotating
  <2>9. CASE \/ LockToken(q) /\ pc'[q] = "session"
             \/ DetectReuse(q) \/ LogoutFamily(q) \/ ScanFamily(q)
             \/ RevokeRow(q) \/ RevokeSession(q)
    <3>1. /\ pc[q] \in {"lock", "session", "scan", "revoke"} /\ closed' = closed
          /\ answer'[q] = answer[q]
          /\ pc'[q] \in {"session", "scan", "revoke"}
             \/ (pc'[q] = "respond" /\ kind[q] = "logout")
      BY <1>1, <1>2, <2>9 DEF LockToken, DetectReuse, LogoutFamily, ScanFamily,
         RevokeRow, RevokeSession, Goto, Finish, TypeOK
    <3>2. answer[q] = "none"
      BY <1>1, <3>1 DEF Answered
    <3>3. QED
      BY <1>1, <1>2, <2>2, <3>1, <3>2 DEF Answered, Rotating
  <2>10. QED
    BY <1>5, <2>3, <2>4, <2>5, <2>6, <2>7, <2>8, <2>9
       DEF Step, Refresh, Logout, Revoke
<1>6. QED
  BY <1>4, <1>5

LEMMA LockInvInit == Init => LockInv
<1> SUFFICES ASSUME Init PROVE LockInv
  OBVIOUS
<1>1. TypeOK
  BY TypeInit
<1>2. \A t \in Tokens : token[t] = NoRow /\ ~Stored(t)
  BY NamesAssumption DEF Init, Stored, NoRow
<1>3. \A s \in Sessions : session[s].status = "none"
  BY DEF Init, Unopened
<1>4. StoredRows /\ AtMostOne /\ AtLeastOne
  BY <1>2, <1>3 DEF StoredRows, AtMostOne, AtLeastOne
<1>5. ASSUME NEW q \in Requests PROVE RequestInv(q)
  <2>1. pc[q] = "idle" /\ DOMAIN draft[q] = {}
    BY DEF Init, Unlocked
  <2>2. QED
    BY <2>1 DEF RequestInv, Locks, FirstLook, Revocation, Rotation,
                Rotating, Holding
<1>6. QED
  BY <1>1, <1>4, <1>5 DEF LockInv

LEMMA IInvInit == Init => IInv
<1>1. Init => \A q \in Requests : Answered(q)
  BY DEF Init, Answered, Rotating
<1>2. QED
  BY <1>1, LockInvInit DEF IInv

\* Every step but a login is one request's, or leaves all of them alone.
LEMMA QuietStep ==
    ASSUME LockInv, UNCHANGED dbVars, \A p \in Requests : Untouched(p)
    PROVE  Kept /\ TablesInv' /\ \A p \in Requests : RequestInv(p)'
<1>1. Kept /\ TablesInv'
  BY TablesUnchanged
     DEF LockInv, TablesInv, StoredRows, AtMostOne, AtLeastOne, Stored, Current, dbVars
<1>2. QED
  BY <1>1, KeptTargets, UntouchedKeeps

LEMMA LockInvStep ==
    ASSUME LockInv, [Next]_vars
    PROVE  LockInv' /\ Kept
<1>1. TypeOK'
  BY TypeStep
<1>2. CASE \E s \in Sessions : Login(s)
  BY <1>1, <1>2, LoginCommits, KeptTargets, UntouchedKeeps DEF LockInv, TablesInv
<1>3. CASE \E q \in Requests : Begin(q) \/ Step(q) \/ Lose(q)
  <2>1. PICK q \in Requests : Begin(q) \/ Step(q) \/ Lose(q)
    BY <1>3
  <2>2. Kept /\ TablesInv' /\ RequestInv(q)'
    BY <2>1, StepOwn
  <2>3. \A p \in Requests \ {q} : RequestInv(p)'
    BY <2>1, <2>2, StepUntouched, KeptTargets, UntouchedKeeps
  <2>4. QED
    BY <1>1, <2>2, <2>3 DEF LockInv, TablesInv
<1>4. CASE Tick \/ UNCHANGED vars
  <2>1. UNCHANGED dbVars /\ \A p \in Requests : Untouched(p)
    BY <1>4 DEF Tick, vars, dbVars, Untouched
  <2>2. QED
    BY <1>1, <2>1, QuietStep DEF LockInv, TablesInv
<1>5. QED
  BY <1>2, <1>3, <1>4 DEF Next

LEMMA IInvStep == IInv /\ [Next]_vars => IInv'
<1> SUFFICES ASSUME IInv, [Next]_vars PROVE IInv'
  OBVIOUS
<1>1. LockInv' /\ Kept /\ LockInv
  BY LockInvStep DEF IInv
<1>2. ASSUME NEW p \in Requests PROVE Answered(p)'
  <2>1. CASE \E s \in Sessions : Login(s)
    BY <1>1, <2>1, LoginCommits, UntouchedAnswered
  <2>2. CASE \E q \in Requests : Begin(q) \/ Step(q) \/ Lose(q)
    BY <1>1, <2>2, AnsweredOwn, StepUntouched, UntouchedAnswered
  <2>3. CASE Tick \/ UNCHANGED vars
    <3>1. Untouched(p)
      BY <2>3 DEF Tick, vars, dbVars, Untouched
    <3>2. QED
      BY <1>1, <3>1, UntouchedAnswered
  <2>4. QED
    BY <2>1, <2>2, <2>3 DEF Next
<1>3. QED
  BY <1>1, <1>2 DEF IInv

-----------------------------------------------------------------------------
(* Theorems.                                                                *)

\* Tables, locks and answers always agree in the way that IInv states.
THEOREM Invariance == Spec => []IInv
BY IInvInit, IInvStep, PTL DEF Spec

\* Every variable has its type, and no row is ever locked by two transactions.
THEOREM TypeCorrect == Spec => []TypeOK
<1>1. IInv => TypeOK
  BY DEF IInv, LockInv
<1>2. QED
  BY <1>1, Invariance, PTL

\* OneCurrentToken, from what LockInv says without cardinalities.
LEMMA LockInvOneCurrent == LockInv => OneCurrentToken
<1> SUFFICES ASSUME LockInv, NEW s \in Sessions
             PROVE  /\ Cardinality(Current(s)) <= 1
                    /\ session[s].status = "active" => Cardinality(Current(s)) = 1
  BY DEF OneCurrentToken
<1>1. \A t, u \in Current(s) : t = u
  BY DEF LockInv, AtMostOne, Current, Stored, IsCurrent
<1>2. CASE Current(s) = {}
  <2>1. Cardinality(Current(s)) = 0
    BY <1>2, FS_EmptySet
  <2>2. session[s].status # "active"
    BY <1>2 DEF LockInv, AtLeastOne
  <2>3. QED
    BY <2>1, <2>2
<1>3. CASE Current(s) # {}
  <2>1. PICK t : t \in Current(s)
    BY <1>3
  <2>2. Current(s) = {t}
    BY <1>1, <2>1
  <2>3. Cardinality({t}) = 1
    BY FS_Singleton
  <2>4. QED
    BY <2>2, <2>3
<1>4. QED
  BY <1>2, <1>3

\* The invariant of docs/auth.md:248, and its other half: no interleaving of
\* refreshes, reuse detections, logouts, deadlocks and lost requests gives a
\* family two current tokens, or leaves a live session without one.
THEOREM OneCurrentTokenAlways == Spec => []OneCurrentToken
<1>1. IInv => OneCurrentToken
  BY LockInvOneCurrent DEF IInv
<1>2. QED
  BY <1>1, Invariance, PTL

\* A token is rotated by one request at most, however many present it: what a
\* committed rotation has marked, no later one takes for current.
THEOREM RotatedOnceAlways == Spec => []RotatedOnce
<1>1. Init => RotatedOnce
  BY DEF Init, RotatedOnce, Rotated
<1>2. IInv /\ RotatedOnce /\ [Next]_vars => RotatedOnce'
  <2>1. SUFFICES ASSUME IInv, RotatedOnce, [Next]_vars,
                        NEW q \in Requests, NEW p \in Requests, q # p,
                        Rotated(q)', Rotated(p)', presented'[q] = presented'[p]
                 PROVE  FALSE
    BY DEF RotatedOnce
  <2>2. presented' = presented
    BY <2>1 DEF Next, Login, Begin, Step, Lose, Tick, Refresh, Logout, Revoke, Respond,
           CommitRequest, DeadlockVictim, Refuse, LogoutFamily, LogoutAgain,
           ScanFamily, RevokeSession, ReportReuse, LockToken, DetectReuse, Rotate,
           RevokeRow, vars
  <2>3. ASSUME NEW r \in Requests, Rotated(r)', ~Rotated(r)
        PROVE  /\ CommitRequest(r) /\ Rotating(r)
               /\ IsCurrent(token[presented[r]])
    <3>1. Begin(r) \/ Step(r) \/ Lose(r)
      <4>1. ~Untouched(r)
        BY <2>3 DEF Rotated, Untouched
      <4>2. ~Tick /\ ~UNCHANGED vars /\ \A s \in Sessions : ~Login(s)
        BY <2>1, <4>1, LoginCommits DEF IInv, Tick, vars, dbVars, Untouched
      <4>3. QED
        BY <2>1, <4>1, <4>2, StepUntouched DEF Next, IInv
    <3>2. pc[r] \in {"idle", "lock", "session", "scan", "revoke", "respond"} =>
            answer[r] = "none"
      BY <2>1 DEF IInv, Answered
    <3>3. CommitRequest(r)
      BY <2>1, <2>3, <3>1, <3>2
         DEF Rotated, Begin, Step, Lose, Refresh, Logout, Revoke, Respond,
             DeadlockVictim, Refuse, LogoutFamily, LogoutAgain, ScanFamily,
             RevokeSession, ReportReuse, LockToken, DetectReuse, Rotate, RevokeRow,
             Goto, Finish, Answer, IInv, LockInv, TypeOK
    <3>4. Rotating(r)
      BY <2>1, <2>3, <3>3 DEF Rotated, CommitRequest, Rotating, IInv, Answered
    <3>5. QED
      BY <2>1, <3>3, <3>4 DEF IInv, LockInv, RequestInv, Rotation
  <2>4. \A r \in Requests : Rotated(r) => token[presented[r]].rotated
    BY <2>1 DEF IInv, Answered, Rotated
  <2>5. ASSUME NEW r \in Requests, CommitRequest(r), NEW o \in Requests \ {r}
        PROVE  Rotated(o)' = Rotated(o)
    BY <2>1, <2>5, StepUntouched DEF IInv, Untouched, Rotated, Step
  <2>6. QED
    BY <2>1, <2>2, <2>3, <2>4, <2>5 DEF RotatedOnce, IsCurrent
<1>3. QED
  BY <1>1, <1>2, Invariance, PTL DEF Spec

\* A session that was revoked before a refresh began is never refreshed by it,
\* whether or not the revocation reached the token it presents.
THEOREM NothingAfterCloseAlways == Spec => []NothingAfterClose
<1>1. IInv => NothingAfterClose
  BY DEF IInv, Answered, NothingAfterClose
<1>2. QED
  BY <1>1, Invariance, PTL

\* A session stays ended once a reuse was reported or a logout committed.
THEOREM ReportedIsEndedAlways == Spec => []ReportedIsEnded
<1>1. IInv => ReportedIsEnded
  BY DEF IInv, Answered, ReportedIsEnded, Ended
<1>2. QED
  BY <1>1, Invariance, PTL

-----------------------------------------------------------------------------
(* The families: every step is one of TokenFamilies or changes nothing there.*)

IsHeir(t, s) == t \in Tokens /\ token[t].session = s /\ ~token[t].rotated

\* Of the tokens of an opened session exactly one was never rotated, whether it
\* was revoked or not.
OneHeir ==
    \A s \in Opened : \E t \in Tokens :
        IsHeir(t, s) /\ \A u \in Tokens : IsHeir(u, s) => u = t

LEMMA HeirFound ==
    ASSUME OneHeir, NEW s \in Opened
    PROVE  IsHeir(Heir[s], s) /\ \A u \in Tokens : IsHeir(u, s) => u = Heir[s]
<1>1. Heir[s] = CHOOSE t \in Tokens : token[t].session = s /\ ~token[t].rotated
  BY DEF Heir
<1>2. PICK t \in Tokens : IsHeir(t, s) /\ \A u \in Tokens : IsHeir(u, s) => u = t
  BY DEF OneHeir
<1>3. QED
  BY <1>1, <1>2 DEF IsHeir

LEMMA HeirFoundNext ==
    ASSUME OneHeir', NEW s \in Opened'
    PROVE  IsHeir(Heir[s], s)' /\ \A u \in Tokens : IsHeir(u, s)' => u = Heir'[s]
<1>1. Heir'[s] = CHOOSE t \in Tokens : token'[t].session = s /\ ~token'[t].rotated
  BY DEF Heir
<1>2. PICK t \in Tokens : IsHeir(t, s)' /\ \A u \in Tokens : IsHeir(u, s)' => u = t
  BY DEF OneHeir
<1>3. QED
  BY <1>1, <1>2 DEF IsHeir

\* Rows that change neither family nor rotation leave every heir.
LEMMA HeirsStay ==
    ASSUME OneHeir, Opened' = Opened,
           \A t \in Tokens : /\ token'[t].session = token[t].session
                             /\ token'[t].rotated = token[t].rotated
    PROVE  OneHeir' /\ Heir' = Heir
<1>1. \A t, s : IsHeir(t, s)' <=> IsHeir(t, s)
  BY DEF IsHeir
<1>2. OneHeir'
  BY <1>1 DEF OneHeir
<1>3. \A s \in Opened : Heir'[s] = Heir[s]
  BY <1>1, <1>2, HeirFound, HeirFoundNext DEF IsHeir
<1>4. QED
  BY <1>2, <1>3 DEF Heir

\* What is an heir or was exchanged is stored.
LEMMA UsedIsStored ==
    ASSUME IInv, OneHeir, NEW t \in Tokens, token[t] = NoRow
    PROVE  t \notin Families!Used
<1>1. ~Stored(t)
  BY NamesAssumption DEF Stored, NoRow
<1>2. \A s \in Opened : Heir[s] # t
  BY <1>1, HeirFound DEF IsHeir, Stored, Opened
<1>3. \A q \in Requests : Rotated(q) => presented[q] # t
  BY <1>1 DEF IInv, Answered, Rotated
<1>4. DOMAIN Heir = Opened
  BY DEF Heir
<1>5. \A e \in Exchanged : e[2] # t
  BY <1>3 DEF Exchanged
<1>6. QED
  BY <1>2, <1>4, <1>5 DEF Families!Used

LEMMA LoginSeen ==
    ASSUME IInv, OneHeir, NEW s \in Sessions, Login(s)
    PROVE  OneHeir' /\ Families!Next
<1>1. /\ LockInv /\ TypeOK /\ UNCHANGED <<pc, answer, presented, closed>>
  BY DEF IInv, LockInv, Login
<1>2. PICK new \in Fresh : token' = [token EXCEPT ![new] = NewRow(s)]
  BY DEF Login
<1>3. /\ new \in Tokens /\ token[new] = NoRow /\ token'[new] = NewRow(s)
      /\ \A t \in Tokens \ {new} : token'[t] = token[t]
  BY <1>1, <1>2 DEF Fresh, TypeOK
<1>4. token'[new].session = s /\ ~token'[new].rotated /\ ~token'[new].revoked
  BY <1>3 DEF NewRow, NoRow
<1>5. /\ session[s].status = "none" /\ session'[s].status = "active"
      /\ \A r \in Sessions \ {s} : session'[r] = session[r]
  BY <1>1 DEF Login, Unopened, TypeOK
<1>6. s \notin Opened /\ Opened' = Opened \cup {s} /\ EndedSessions' = EndedSessions
  BY <1>5 DEF Opened, EndedSessions
<1>7. \A t \in Tokens : token[t].session # s
  <2>1. SUFFICES ASSUME NEW t \in Tokens, token[t].session = s PROVE FALSE
    OBVIOUS
  <2>2. token[t] # NoRow /\ Stored(t)
    BY <2>1, NamesAssumption DEF NoRow, Stored
  <2>3. QED
    BY <1>1, <1>5, <2>1, <2>2 DEF LockInv, StoredRows
<1>8. \A t \in Tokens : IsHeir(t, s)' <=> t = new
  BY <1>3, <1>4, <1>7 DEF IsHeir
<1>9. \A t \in Tokens, r \in Opened : IsHeir(t, r)' <=> IsHeir(t, r)
  <2>1. \A r \in Opened : r # s /\ r # NoSession
    BY <1>6, NamesAssumption DEF Opened
  <2>2. QED
    BY <1>3, <1>4, <2>1 DEF IsHeir, NoRow
<1>10. OneHeir'
  BY <1>3, <1>6, <1>8, <1>9 DEF OneHeir
<1>11. Heir'[s] = new /\ \A r \in Opened : Heir'[r] = Heir[r] /\ Heir[r] \in Tokens \ {new}
  <2>1. Heir'[s] = new
    BY <1>6, <1>8, <1>10, HeirFoundNext DEF IsHeir
  <2>2. ASSUME NEW r \in Opened
        PROVE  Heir'[r] = Heir[r] /\ Heir[r] \in Tokens \ {new}
    <3>1. r \in Opened' /\ IsHeir(Heir[r], r) /\ Heir[r] \in Tokens
      BY <1>6, HeirFound DEF IsHeir
    <3>2. Heir[r] # new
      BY <1>3, <3>1, NamesAssumption DEF IsHeir, NoRow, Opened
    <3>3. PICK t \in Tokens : t = Heir[r]
      BY <3>1
    <3>4. IsHeir(t, r)'
      BY <1>9, <3>1, <3>3
    <3>5. QED
      BY <1>10, <3>1, <3>2, <3>3, <3>4, HeirFoundNext
  <2>3. QED
    BY <2>1, <2>2
<1>12. Heir' = [r \in DOMAIN Heir \cup {s} |-> IF r = s THEN new ELSE Heir[r]]
  <2>1. DOMAIN Heir = Opened /\ DOMAIN Heir' = Opened'
    BY DEF Heir
  <2>2. Heir' = [r \in Opened' |-> Heir'[r]]
    BY DEF Heir
  <2>3. QED
    BY <1>6, <1>11, <2>1, <2>2
<1>13. CaughtSessions' = CaughtSessions
  BY <1>3, <1>4, <1>6, <1>11 DEF CaughtSessions
<1>14. Exchanged' = Exchanged
  BY <1>1 DEF Exchanged, Rotated
<1>15. new \notin Families!Used
  BY <1>3, UsedIsStored
<1>16. Families!Open(s, new)
  BY <1>1, <1>6, <1>12, <1>13, <1>14, <1>15 DEF Families!Open, Heir
<1>17. QED
  BY <1>3, <1>10, <1>16 DEF Families!Next

\* The commit of a rotation.
LEMMA RotationSeen ==
    ASSUME IInv, OneHeir, NEW q \in Requests, CommitRequest(q), Rotating(q)
    PROVE  OneHeir' /\ Families!Next
<1> PICK old, s : old = presented[q] /\ s = SessionOf(q)
  OBVIOUS
<1>1. /\ LockInv /\ TypeOK /\ Commit(q) /\ pc[q] = "commit" /\ kind[q] = "refresh"
      /\ UNCHANGED <<answer, kind, presented, closed, session>>
      /\ pc' = [pc EXCEPT ![q] = "done"] /\ answer[q] = "rotated"
  BY DEF IInv, LockInv, CommitRequest, Rotating, Answered
<1>2. PICK new \in Tokens : Replaces(q, new)
  BY <1>1 DEF LockInv, RequestInv, Rotation
<1>3. /\ old \in Tokens /\ Stored(old) /\ IsCurrent(token[old]) /\ token[old] \in Row
      /\ s = token[old].session /\ s \in Sessions
  BY <1>1 DEF LockInv, TypeOK, RequestInv, Locks, Rotation, Holding, SessionOf, Stored
<1>4. /\ token'[new] = NewRow(s)
      /\ token'[old] = [token[old] EXCEPT !.rotated = TRUE]
      /\ \A t \in Tokens \ {new, old} : token'[t] = token[t]
      /\ new # old /\ token[new] = NoRow
  BY <1>1, <1>2, <1>3 DEF Replaces, Commit, Seen
<1>5. /\ token'[new].session = s /\ ~token'[new].rotated /\ ~token'[new].revoked
      /\ token'[old].session = s /\ token'[old].rotated
  BY <1>3, <1>4 DEF NewRow, NoRow, Row
<1>6. s \in Opened /\ Opened' = Opened /\ EndedSessions' = EndedSessions
  <2>1. token[old] # NoRow
    BY <1>3, NamesAssumption DEF Stored, NoRow
  <2>2. QED
    BY <1>1, <1>3, <2>1 DEF LockInv, StoredRows, Opened, EndedSessions
<1>7. Heir[s] = old
  BY <1>3, <1>6, HeirFound DEF IsHeir, IsCurrent
<1>8. \A t \in Tokens : IsHeir(t, s)' <=> t = new
  <2>1. \A t \in Tokens \ {old, new} : ~IsHeir(t, s)
    BY <1>6, <1>7, HeirFound
  <2>2. QED
    BY <1>4, <1>5, <2>1 DEF IsHeir
<1>9. \A t \in Tokens, r \in Opened \ {s} : IsHeir(t, r)' <=> IsHeir(t, r)
  <2>1. SUFFICES ASSUME NEW t \in Tokens, NEW r \in Opened \ {s}
                 PROVE  IsHeir(t, r)' <=> IsHeir(t, r)
    OBVIOUS
  <2>2. token[new].session = NoSession /\ r # NoSession /\ r # s
    BY <1>4, NamesAssumption DEF NoRow, Opened
  <2>3. CASE t \in {new, old}
    BY <1>3, <1>5, <2>2, <2>3 DEF IsHeir
  <2>4. CASE t \notin {new, old}
    BY <1>4, <2>4 DEF IsHeir
  <2>5. QED
    BY <2>3, <2>4
<1>10. OneHeir'
  <2>1. SUFFICES ASSUME NEW r \in Opened
                 PROVE  \E t \in Tokens :
                            IsHeir(t, r)' /\ \A u \in Tokens : IsHeir(u, r)' => u = t
    BY <1>6 DEF OneHeir
  <2>2. CASE r = s
    BY <1>2, <1>8, <2>2
  <2>3. CASE r # s
    BY <1>9, <2>3 DEF OneHeir
  <2>4. QED
    BY <2>2, <2>3
<1>11. Heir'[s] = new /\ \A r \in Opened \ {s} : Heir'[r] = Heir[r] /\ Heir[r] \in Tokens \ {new, old}
  <2>1. Heir'[s] = new
    BY <1>6, <1>8, <1>10, HeirFoundNext DEF IsHeir
  <2>2. ASSUME NEW r \in Opened \ {s}
        PROVE  Heir'[r] = Heir[r] /\ Heir[r] \in Tokens \ {new, old}
    <3>1. r \in Opened' /\ IsHeir(Heir[r], r) /\ Heir[r] \in Tokens
      BY <1>6, HeirFound DEF IsHeir
    <3>2. Heir[r] # new /\ Heir[r] # old
      BY <1>3, <1>4, <3>1, NamesAssumption DEF IsHeir, NoRow, Opened
    <3>3. PICK t \in Tokens : t = Heir[r]
      BY <3>1
    <3>4. IsHeir(t, r)'
      BY <1>9, <3>1, <3>3
    <3>5. QED
      BY <1>10, <3>1, <3>2, <3>3, <3>4, HeirFoundNext
  <2>3. QED
    BY <2>1, <2>2
<1>12. Heir' = [Heir EXCEPT ![s] = new]
  <2>1. Heir' = [r \in Opened |-> Heir'[r]] /\ DOMAIN Heir = Opened
    BY <1>6 DEF Heir
  <2>2. [Heir EXCEPT ![s] = new] = [r \in Opened |-> IF r = s THEN new ELSE Heir[r]]
    BY <2>1
  <2>3. QED
    BY <1>6, <1>11, <2>1, <2>2
<1>13. CaughtSessions' = CaughtSessions /\ s \notin CaughtSessions
  <2>1. s \notin CaughtSessions /\ s \notin CaughtSessions'
    BY <1>3, <1>5, <1>7, <1>11 DEF CaughtSessions, IsCurrent
  <2>2. \A r \in Opened \ {s} : token'[Heir'[r]] = token[Heir[r]]
    BY <1>4, <1>11
  <2>3. QED
    BY <1>6, <2>1, <2>2 DEF CaughtSessions
<1>14. ~Rotated(q) /\ Rotated(q)' /\ \A p \in Requests \ {q} : Rotated(p)' <=> Rotated(p)
  BY <1>1 DEF Rotated, TypeOK
<1>15. Exchanged' = Exchanged \cup {<<q, old>>} /\ \A e \in Exchanged : e[1] # q
  BY <1>1, <1>14 DEF Exchanged
<1>16. s \notin closed[q]
  BY DEF IInv, Answered
<1>17. new \notin Families!Used
  BY <1>4, UsedIsStored
<1>18. Families!Exchange(q, s, new)
  <2>1. DOMAIN Heir = Opened
    BY DEF Heir
  <2>2. QED
    BY <1>1, <1>6, <1>7, <1>12, <1>13, <1>15, <1>16, <1>17, <2>1 DEF Families!Exchange
<1>19. QED
  BY <1>3, <1>10, <1>18 DEF Families!Next

\* The commit of a revocation.
LEMMA RevocationSeen ==
    ASSUME IInv, OneHeir, NEW q \in Requests, ~Rotating(q),
           CommitRequest(q) \/ ReportReuse(q)
    PROVE  OneHeir' /\ Families!Next
<1> PICK s : s = SessionOf(q)
  OBVIOUS
<1>1. LockInv /\ TypeOK /\ Holding(q) /\ Commit(q) /\ EndSessionOf(q)
      /\ UNCHANGED <<kind, presented, closed>> /\ pc' = [pc EXCEPT ![q] = "done"]
  <2>1. kind[q] \in {"refresh", "logout"}
    BY NamesAssumption DEF IInv, LockInv, TypeOK
  <2>2. QED
    BY <2>1 DEF IInv, LockInv, CommitRequest, ReportReuse, Rotating, Holding, Finish
<1>2. /\ s \in Sessions /\ s \in Opened
      /\ \A t \in Tokens :
           /\ token'[t].session = token[t].session
           /\ token'[t].rotated = token[t].rotated
           /\ token[t].revoked => token'[t].revoked
           /\ token'[t] = token[t] \/ (Stored(t) /\ token[t].session = s)
  <2>1. RequestInv(q) /\ presented[q] \in Tokens /\ Stored(presented[q])
    BY <1>1 DEF LockInv, TypeOK, RequestInv, Locks
  <2>2. token[presented[q]] # NoRow
    BY <2>1, NamesAssumption DEF Stored, NoRow
  <2>3. s \in Sessions /\ s \in Opened
    BY <1>1, <2>1, <2>2 DEF LockInv, StoredRows, Stored, SessionOf, Opened
  <2>4. QED
    BY <1>1, <2>1, <2>3 DEF RequestInv, Revocation, Commit, Seen
<1>3. /\ session'[s].status = "revoked"
      /\ \A r \in Sessions \ {s} : session'[r] = session[r]
  <2>1. session[s] \in SessionRow
    BY <1>1, <1>2 DEF TypeOK
  <2>2. QED
    BY <1>1, <1>2, <2>1 DEF EndSessionOf, TypeOK, SessionRow
<1>4. Opened' = Opened /\ EndedSessions' = EndedSessions \cup {s}
  BY <1>2, <1>3 DEF Opened, EndedSessions
<1>5. OneHeir' /\ Heir' = Heir
  BY <1>2, <1>4, HeirsStay
<1>6. CaughtSessions' \in {CaughtSessions, CaughtSessions \cup {s}}
  <2>1. ASSUME NEW r \in Opened \ {s} PROVE token'[Heir[r]] = token[Heir[r]]
    BY <1>2, <2>1, HeirFound DEF IsHeir
  <2>2. token[Heir[s]].revoked => token'[Heir[s]].revoked
    BY <1>2, HeirFound DEF IsHeir
  <2>3. CASE token'[Heir[s]].revoked
    <3>1. CaughtSessions' = CaughtSessions \cup {s}
      BY <1>2, <1>4, <1>5, <2>1, <2>3 DEF CaughtSessions
    <3>2. QED
      BY <3>1
  <2>4. CASE ~token'[Heir[s]].revoked
    <3>1. CaughtSessions' = CaughtSessions
      BY <1>2, <1>4, <1>5, <2>1, <2>2, <2>4 DEF CaughtSessions
    <3>2. QED
      BY <3>1
  <2>5. QED
    BY <2>3, <2>4
<1>7. \A p \in Requests : Rotated(p)' <=> Rotated(p)
  <2>1. \A p \in Requests \ {q} : pc'[p] = pc[p] /\ answer'[p] = answer[p]
    BY <1>1, StepUntouched DEF Untouched, Step, Revoke
  <2>2. ~Rotated(q)
    BY DEF Rotated, CommitRequest, ReportReuse
  <2>3. ~Rotated(q)'
    <3>1. CASE CommitRequest(q)
      BY <3>1, <1>1 DEF CommitRequest, Rotating, IInv, Answered, Rotated
    <3>2. CASE ReportReuse(q)
      BY <1>1, <3>2 DEF ReportReuse, Finish, Answer, Rotated, TypeOK
    <3>3. QED
      BY <3>1, <3>2
  <2>4. QED
    BY <2>1, <2>2, <2>3 DEF Rotated
<1>8. Exchanged' = Exchanged
  BY <1>1, <1>7 DEF Exchanged
<1>9. Families!Close(s)
  BY <1>1, <1>2, <1>4, <1>5, <1>6, <1>8 DEF Families!Close, Heir
<1>10. QED
  BY <1>2, <1>5, <1>9 DEF Families!Next

\* All other steps: an arrival, or nothing.
LEMMA LocalSeen ==
    ASSUME IInv, OneHeir, NEW q \in Requests, Begin(q) \/ Step(q) \/ Lose(q),
           ~CommitRequest(q), ~ReportReuse(q)
    PROVE  OneHeir' /\ (Families!Next \/ UNCHANGED Families!families)
<1>1. LockInv /\ TypeOK /\ Answered(q)
  BY DEF IInv, LockInv
<1>2. UNCHANGED <<session, token, presented>>
  BY DEF Begin, Step, Lose, Refresh, Logout, Revoke, LockToken, DetectReuse,
         Refuse, Rotate, Respond, LogoutFamily, LogoutAgain, ScanFamily,
         RevokeRow, RevokeSession, DeadlockVictim, Rollback, dbVars
<1>3. Opened' = Opened /\ EndedSessions' = EndedSessions
  BY <1>2 DEF Opened, EndedSessions
<1>4. OneHeir' /\ Heir' = Heir
  BY <1>2, <1>3, HeirsStay
<1>5. CaughtSessions' = CaughtSessions
  BY <1>2, <1>3, <1>4 DEF CaughtSessions
<1>6. ~Rotated(q) /\ ~Rotated(q)'
  <2>1. CASE Begin(q) \/ Lose(q) \/ LockToken(q)
    BY <1>1, <2>1 DEF Begin, Lose, LockToken, Goto, Finish, Answer, TypeOK, Rotated
  <2>2. CASE Refresh(q) \/ Logout(q)
    BY <1>1, <2>2 DEF Refresh, Logout, DetectReuse, Refuse, Rotate, LogoutFamily,
                      LogoutAgain, Goto, Finish, Answer, TypeOK, Rotated
  <2>3. CASE (Revoke(q) /\ ~ReportReuse(q)) \/ Respond(q)
    BY <1>1, <2>3 DEF Revoke, ScanFamily, RevokeRow, RevokeSession,
                      Respond, Goto, Finish, Answer, TypeOK, Rotated
  <2>4. CASE DeadlockVictim(q)
    <3>1. Wanted[q] # {}
      BY <2>4 DEF DeadlockVictim, InCircle
    <3>2. pc[q] \in {"lock", "revoke"}
      BY <3>1 DEF Wanted
    <3>3. QED
      BY <1>1, <2>4, <3>2 DEF DeadlockVictim, Finish, Answer, TypeOK, Rotated
  <2>5. QED
    BY <2>1, <2>2, <2>3, <2>4 DEF Step
<1>7. Exchanged' = Exchanged
  <2>1. \A p \in Requests \ {q} : pc'[p] = pc[p] /\ answer'[p] = answer[p]
    BY <1>1, StepUntouched DEF Untouched
  <2>2. \A p \in Requests : Rotated(p)' <=> Rotated(p)
    BY <1>6, <2>1 DEF Rotated
  <2>3. QED
    BY <1>2, <2>2 DEF Exchanged
<1>8. CASE Begin(q)
  <2>1. closed' = [closed EXCEPT ![q] = EndedSessions]
    BY <1>8 DEF Begin, EndedSessions
  <2>2. Families!Arrive(q)
    BY <1>3, <1>4, <1>5, <1>7, <2>1 DEF Families!Arrive
  <2>3. QED
    BY <1>4, <2>2 DEF Families!Next
<1>9. CASE ~Begin(q)
  <2>1. closed' = closed
    BY <1>9 DEF Step, Lose, Refresh, Logout, Revoke, LockToken, DetectReuse,
         Refuse, Rotate, Respond, LogoutFamily, LogoutAgain, ScanFamily,
         RevokeRow, RevokeSession, DeadlockVictim
  <2>2. QED
    BY <1>3, <1>4, <1>5, <1>7, <2>1 DEF Families!families
<1>10. QED
  BY <1>8, <1>9

LEMMA FamiliesStep ==
    ASSUME IInv, OneHeir, [Next]_vars
    PROVE  OneHeir' /\ [Families!Next]_(Families!families)
<1>1. CASE \E s \in Sessions : Login(s)
  BY <1>1, LoginSeen
<1>2. CASE \E q \in Requests : Begin(q) \/ Step(q) \/ Lose(q)
  <2>1. PICK q \in Requests : Begin(q) \/ Step(q) \/ Lose(q)
    BY <1>2
  <2>2. CASE CommitRequest(q) \/ ReportReuse(q)
    <3>1. ReportReuse(q) => ~Rotating(q)
      BY DEF ReportReuse, Rotating
    <3>2. QED
      BY <2>2, <3>1, RotationSeen, RevocationSeen
  <2>3. CASE ~CommitRequest(q) /\ ~ReportReuse(q)
    BY <2>1, <2>3, LocalSeen
  <2>4. QED
    BY <2>2, <2>3
<1>3. CASE Tick \/ UNCHANGED vars
  <2>1. UNCHANGED <<session, token, pc, answer, presented, closed>>
    BY <1>3 DEF Tick, vars, dbVars
  <2>2. Opened' = Opened /\ EndedSessions' = EndedSessions
    BY <2>1 DEF Opened, EndedSessions
  <2>3. OneHeir' /\ Heir' = Heir
    BY <2>1, <2>2, HeirsStay
  <2>4. CaughtSessions' = CaughtSessions /\ Exchanged' = Exchanged
    BY <2>1, <2>2, <2>3 DEF CaughtSessions, Exchanged, Rotated
  <2>5. QED
    BY <2>1, <2>2, <2>3, <2>4 DEF Families!families
<1>4. QED
  BY <1>1, <1>2, <1>3 DEF Next

\* Requests whose statements interleave in any way, fail anywhere and read
\* sessions without a lock behave as TokenFamilies: a token is exchanged in one
\* step by one request, for the session's new heir and by nobody who came after
\* the session had ended (refresh, logout, get_db).
THEOREM FamiliesImplementation == Spec => ImplementsFamilies
<1>1. Init => OneHeir /\ Families!Init
  <2> SUFFICES ASSUME Init PROVE OneHeir /\ Families!Init
    OBVIOUS
  <2>1. Opened = {} /\ EndedSessions = {}
    BY DEF Init, Opened, EndedSessions, Unopened
  <2>2. CaughtSessions = {} /\ Exchanged = {} /\ closed = [q \in Requests |-> {}]
    BY <2>1 DEF Init, CaughtSessions, Exchanged, Rotated
  <2>3. Heir = [s \in {} |-> s]
    BY <2>1 DEF Heir
  <2>4. QED
    BY <2>1, <2>2, <2>3 DEF OneHeir, Families!Init
<1>2. IInv /\ OneHeir /\ [Next]_vars => OneHeir' /\ [Families!Next]_(Families!families)
  BY FamiliesStep
<1>3. QED
  BY <1>1, <1>2, Invariance, PTL DEF Spec, ImplementsFamilies, Families!Spec

-----------------------------------------------------------------------------
(* The cleanup run: its inductive invariant is LockInv and CleanerInv.       *)

CleanerTyped ==
    /\ revokedAt \in [Sessions -> Instants]
    /\ step \in {"idle", "scan", "tokens", "cascade", "commit", "done"}
    /\ doomed \subseteq Sessions
    /\ scanned \subseteq Tokens /\ deleted \subseteq Tokens
    /\ ~Underway => scanned = {} /\ deleted = {}
    /\ step = "commit" => scanned = {}

\* The run decides on what it read without a lock: no session comes back from
\* the state it was found in.
DoomedEnded ==
    Underway =>
        \A s \in doomed :
            /\ session[s].status # "none"
            /\ session[s].status = "revoked" \/ session[s].expires < clock

\* It touches tokens of these sessions only, and holds those it has deleted.
DeletedDoomed ==
    Underway =>
        /\ \A t \in scanned \cup deleted : token[t].session \in doomed
        /\ \A q \in Requests : DOMAIN draft[q] \cap deleted = {}

\* Once it holds the sessions, the cascade finds every token of them, and no
\* request is about to commit another.
NothingMissed ==
    step \in {"cascade", "commit"} =>
        /\ \A t \in Tokens : token[t].session \in doomed => t \in scanned \cup deleted
        /\ \A q \in Requests : Rotating(q) => SessionOf(q) \notin doomed

CleanerInv == CleanerTyped /\ DoomedEnded /\ DeletedDoomed /\ NothingMissed

-----------------------------------------------------------------------------
(* Steps of the requests and of the environment.                            *)

Beside == Others \/ \E q \in Requests : StepBeside(q)

LEMMA BesideIsNext ==
    ASSUME Beside
    PROVE  Next /\ UNCHANGED cleanerVars
BY DEF Beside, Others, StepBeside, Next

\* A session is opened by a login, and ended by a request; nothing else
\* happens to it.
LEMMA SessionsMove ==
    ASSUME LockInv, Beside, NEW s \in doomed, s \in Sessions
    PROVE  session'[s] = session[s] \/ session'[s].status = "revoked"
<1>1. session \in [Sessions -> SessionRow]
  BY DEF LockInv, TypeOK
<1>2. CASE \E q \in Requests : EndSessionOf(q)
  BY <1>1, <1>2 DEF EndSessionOf, SessionRow
<1>3. CASE \E r \in Sessions \ doomed : Login(r)
  BY <1>1, <1>3 DEF Login
<1>4. CASE session' = session
  BY <1>4
<1>5. QED
  BY <1>2, <1>3, <1>4
     DEF Beside, Others, StepBeside, Begin, Lose, Tick, Step, Refresh, Logout,
         Revoke, Respond, CommitRequest, DeadlockVictim, Refuse, LogoutFamily,
         LogoutAgain, ScanFamily, RevokeRow, RevokeSession, ReportReuse,
         LockToken, DetectReuse, Rotate, dbVars

\* A row changes its session only when it is inserted: by a login, or by the
\* commit of a rotation.
LEMMA RowsMove ==
    ASSUME LockInv, Beside, NEW t \in Tokens
    PROVE  \/ token'[t].session = token[t].session
           \/ token'[t].session \in Sessions \ doomed
           \/ \E q \in Requests : Rotating(q) /\ token'[t].session = SessionOf(q)
<1>1. TypeOK /\ \A q \in Requests : RequestInv(q)
  BY DEF LockInv
<1>2. ASSUME NEW q \in Requests, Commit(q)
      PROVE  \/ token'[t].session = token[t].session
             \/ Rotating(q) /\ token'[t].session = SessionOf(q)
  <2>1. token'[t] = Seen(q, t)
    BY <1>2 DEF Commit
  <2>2. CASE t \notin DOMAIN draft[q]
    BY <2>1, <2>2 DEF Seen
  <2>3. CASE t \in DOMAIN draft[q] /\ ~Rotating(q)
    BY <1>1, <2>1, <2>3 DEF Seen, RequestInv, Revocation
  <2>4. CASE t \in DOMAIN draft[q] /\ Rotating(q)
    <3>1. PICK new \in Tokens : Replaces(q, new)
      BY <1>1, <2>4 DEF RequestInv, Rotation
    <3>2. CASE t = new
      BY <2>1, <2>4, <3>1, <3>2 DEF Seen, Replaces, NewRow, NoRow
    <3>3. CASE t = presented[q]
      <4>1. token'[t] = [token[t] EXCEPT !.rotated = TRUE] /\ token[t] \in Row
        BY <1>1, <2>1, <2>4, <3>1, <3>3 DEF Seen, Replaces, TypeOK
      <4>2. QED
        BY <4>1 DEF Row
    <3>4. QED
      BY <2>4, <3>1, <3>2, <3>3 DEF Replaces
  <2>5. QED
    BY <2>2, <2>3, <2>4
<1>3. ASSUME NEW r \in Sessions \ doomed, Login(r)
      PROVE  token'[t].session = token[t].session \/ token'[t].session = r
  BY <1>1, <1>3 DEF Login, TypeOK, NewRow, NoRow
<1>4. CASE token' = token
  BY <1>4
<1>5. QED
  BY <1>2, <1>3, <1>4
     DEF Beside, Others, StepBeside, Begin, Lose, Tick, Step, Refresh, Logout,
         Revoke, Respond, CommitRequest, DeadlockVictim, Refuse, LogoutFamily,
         LogoutAgain, ScanFamily, RevokeRow, RevokeSession, ReportReuse,
         LockToken, DetectReuse, Rotate, Rollback, dbVars

\* A request locks nothing that the run has deleted.
LEMMA LocksMove ==
    ASSUME LockInv, Beside, NEW p \in Requests, DOMAIN draft[p] \cap deleted = {}
    PROVE  DOMAIN draft'[p] \cap deleted = {}
<1>1. TypeOK
  BY DEF LockInv
<1>2. CASE draft'[p] = draft[p]
  BY <1>2
<1>3. CASE StepBeside(p)
  BY <1>3 DEF StepBeside
<1>4. ASSUME NEW q \in Requests, Begin(q) \/ Step(q) \/ Lose(q), p # q
      PROVE  draft'[p] = draft[p]
  BY <1>4, StepUntouched DEF Untouched
<1>5. CASE Lose(p)
  BY <1>1, <1>5, DropTyped DEF Lose, Rollback
<1>6. QED
  BY <1>2, <1>3, <1>4, <1>5 DEF Beside, Others, StepBeside, Login, Begin, Tick

\* A rotation starts only for a session that the run does not hold.
LEMMA RotationsMove ==
    ASSUME LockInv, Beside, step \in {"cascade", "commit"}, NEW p \in Requests,
           Rotating(p) => SessionOf(p) \notin doomed, Rotating(p)'
    PROVE  SessionOf(p)' \notin doomed
<1>1. RequestInv(p) /\ TypeOK /\ Kept /\ presented[p] \in Tokens
  <2>1. Kept
    BY BesideIsNext, LockInvStep
  <2>2. QED
    BY <2>1 DEF LockInv, TypeOK
<1>2. presented' = presented /\ kind' = kind
  BY DEF Beside, Others, StepBeside, Login, Begin, Lose, Tick, Step, Refresh,
         Logout, Revoke, Respond, CommitRequest, DeadlockVictim, Refuse,
         LogoutFamily, LogoutAgain, ScanFamily, RevokeRow, RevokeSession,
         ReportReuse, LockToken, DetectReuse, Rotate
<1>3. Holding(p) => SessionOf(p)' = SessionOf(p)
  BY <1>1, <1>2 DEF RequestInv, Locks, Kept, SessionOf
<1>4. CASE Rotating(p)
  BY <1>3, <1>4 DEF Rotating, Holding
<1>5. CASE ~Rotating(p)
  <2>1. pc'[p] # pc[p] /\ kind[p] = "refresh" /\ pc'[p] \in {"respond", "commit"}
    BY <1>2, <1>5 DEF Rotating
  <2>2. ~Untouched(p)
    BY <2>1 DEF Untouched
  <2>3. \/ StepBeside(p) \/ Begin(p) \/ Lose(p)
    <3>1. \A s \in Sessions : ~Login(s)
      BY <2>2, LoginCommits
    <3>2. ~Tick
      BY <2>1 DEF Tick
    <3>3. \A q \in Requests \ {p} : ~(Begin(q) \/ Step(q) \/ Lose(q))
      BY <2>2, StepUntouched
    <3>4. QED
      BY <3>1, <3>2, <3>3 DEF Beside, Others, StepBeside
  <2>4. StepBeside(p) /\ Rotate(p)
    BY <1>1, <1>5, <2>1, <2>3
       DEF StepBeside, Begin, Lose, Step, Refresh, Logout, Revoke, Respond,
           CommitRequest, DeadlockVictim, Refuse, LogoutFamily, LogoutAgain,
           ScanFamily, RevokeRow, RevokeSession, ReportReuse, LockToken,
           DetectReuse, Rotate, Goto, Finish, TypeOK, Rotating
  <2>5. NeedsSession(p)
    BY <2>4 DEF Rotate, NeedsSession
  <2>6. SessionOf(p) \notin doomed
    BY <2>4, <2>5 DEF StepBeside, Deleting
  <2>7. Holding(p)
    BY <2>4 DEF Rotate, Holding
  <2>8. QED
    BY <1>3, <2>6, <2>7
<1>6. QED
  BY <1>4, <1>5

LEMMA BesideKeeps ==
    ASSUME LockInv, CleanerInv, Beside
    PROVE  LockInv' /\ CleanerInv'
<1>1. LockInv' /\ Kept /\ UNCHANGED cleanerVars
  BY BesideIsNext, LockInvStep
<1>2. CleanerTyped'
  <2>1. \A q \in Requests : now[q] \in Instants
    BY DEF LockInv, TypeOK
  <2>2. revokedAt' \in [Sessions -> Instants]
    BY <2>1 DEF CleanerInv, CleanerTyped, Beside, Others, StepBeside
  <2>3. QED
    BY <1>1, <2>2 DEF CleanerInv, CleanerTyped, Underway, cleanerVars
<1>3. DoomedEnded'
  <2>1. SUFFICES ASSUME Underway, NEW s \in doomed
                 PROVE  /\ session'[s].status # "none"
                        /\ session'[s].status = "revoked" \/ session'[s].expires < clock'
    BY <1>1 DEF DoomedEnded, Underway, cleanerVars
  <2>2. /\ s \in Sessions /\ session[s].status # "none"
        /\ session[s].status = "revoked" \/ session[s].expires < clock
    BY <2>1 DEF CleanerInv, CleanerTyped, DoomedEnded
  <2>3. session'[s] = session[s] \/ session'[s].status = "revoked"
    BY <2>2, SessionsMove
  <2>4. /\ clock \in Int /\ clock' \in Int /\ clock <= clock'
        /\ session[s].expires \in Int
    <3>1. clock \in Int /\ session[s].expires \in Int
      BY <2>2, TimeAssumption DEF LockInv, TypeOK, Instants, SessionRow
    <3>2. clock' = clock \/ clock' = clock + 1
      BY DEF Beside, Others, StepBeside, Login, Begin, Lose, Tick, Step, Refresh,
             Logout, Revoke, Respond, CommitRequest, DeadlockVictim, Refuse,
             LogoutFamily, LogoutAgain, ScanFamily, RevokeRow, RevokeSession,
             ReportReuse, LockToken, DetectReuse, Rotate
    <3>3. QED
      BY <3>1, <3>2
  <2>5. QED
    BY <2>2, <2>3, <2>4
<1>4. DeletedDoomed'
  <2>1. SUFFICES ASSUME Underway
                 PROVE  /\ \A t \in scanned \cup deleted : token'[t].session \in doomed
                        /\ \A q \in Requests : DOMAIN draft'[q] \cap deleted = {}
    BY <1>1 DEF DeletedDoomed, Underway, cleanerVars
  <2>2. ASSUME NEW t \in scanned \cup deleted
        PROVE  token'[t].session \in doomed
    <3>1. t \in Tokens /\ token[t].session \in doomed /\ doomed \subseteq Sessions
      BY <2>1, <2>2 DEF CleanerInv, CleanerTyped, DeletedDoomed
    <3>2. QED
      BY <1>1, <3>1 DEF Kept, Stored
  <2>3. \A q \in Requests : DOMAIN draft'[q] \cap deleted = {}
    BY <2>1, LocksMove DEF CleanerInv, DeletedDoomed
  <2>4. QED
    BY <2>2, <2>3
<1>5. NothingMissed'
  <2>1. SUFFICES ASSUME step \in {"cascade", "commit"}
                 PROVE  /\ \A t \in Tokens :
                             token'[t].session \in doomed => t \in scanned \cup deleted
                        /\ \A q \in Requests : Rotating(q)' => SessionOf(q)' \notin doomed
    BY <1>1 DEF NothingMissed, cleanerVars
  <2>2. /\ \A t \in Tokens : token[t].session \in doomed => t \in scanned \cup deleted
        /\ \A q \in Requests : Rotating(q) => SessionOf(q) \notin doomed
    BY <2>1 DEF CleanerInv, NothingMissed
  <2>3. \A t \in Tokens : token'[t].session \in doomed => token[t].session \in doomed
    BY <2>2, RowsMove
  <2>4. \A q \in Requests : Rotating(q)' => SessionOf(q)' \notin doomed
    BY <2>1, <2>2, RotationsMove
  <2>5. QED
    BY <2>2, <2>3, <2>4
<1>6. QED
  BY <1>1, <1>2, <1>3, <1>4, <1>5 DEF CleanerInv

-----------------------------------------------------------------------------
(* Steps of the run.                                                        *)

\* Steps of the run that leave the tables alone leave LockInv alone.
LEMMA RunLocal ==
    ASSUME LockInv, UNCHANGED vars
    PROVE  LockInv'
BY LockInvStep

\* A request that inserts a token holds the row of its session.
LEMMA RotatingHolds ==
    ASSUME LockInv, NEW q \in Requests, Rotating(q)
    PROVE  SessionHeld(SessionOf(q))
<1>1. PICK t \in Tokens : Replaces(q, t)
  BY DEF LockInv, RequestInv, Rotation
<1>2. /\ t \in DOMAIN draft[q] /\ token[t] = NoRow
      /\ draft[q][t].session = SessionOf(q)
  BY <1>1 DEF Replaces, NewRow, NoRow
<1>3. QED
  BY <1>2 DEF SessionHeld

LEMMA RunKeeps ==
    ASSUME LockInv, CleanerInv,
           FindSessions \/ ScanTokens \/ DeleteToken \/ DeleteSessions
             \/ CascadeDone \/ RunVictim \/ LoseRun
    PROVE  LockInv' /\ CleanerInv'
<1> USE DEF CleanerInv
<1>0. UNCHANGED vars /\ revokedAt' = revokedAt
  BY DEF FindSessions, ScanTokens, DeleteToken, DeleteSessions, CascadeDone,
         RunVictim, LoseRun, RollbackRun
<1>1. LockInv'
  BY <1>0, RunLocal
<1>2. /\ session' = session /\ token' = token /\ draft' = draft /\ clock' = clock
      /\ \A q \in Requests : Rotating(q)' = Rotating(q) /\ SessionOf(q)' = SessionOf(q)
  BY <1>0 DEF vars, Rotating, SessionOf
<1>3. CASE FindSessions
  <2>1. /\ step' \in {"done", "scan"} /\ doomed' = {s \in Sessions : PastRetention(s)}
        /\ scanned' = {} /\ deleted' = {}
    BY <1>3 DEF FindSessions, CleanerTyped, Underway
  <2>2. ASSUME NEW s \in Sessions, PastRetention(s)
        PROVE  /\ session[s].status # "none"
               /\ session[s].status = "revoked" \/ session[s].expires < clock
    <3>1. clock \in Int /\ session[s].expires \in Int /\ Retention \in Nat
      BY TimeAssumption, CleanupAssumption DEF LockInv, TypeOK, Instants, SessionRow
    <3>2. QED
      BY <2>2, <3>1 DEF PastRetention
  <2>3. QED
    BY <1>0, <1>1, <1>2, <2>1, <2>2
       DEF CleanerTyped, DoomedEnded, DeletedDoomed, NothingMissed, Underway
<1>4. CASE ScanTokens
  <2>1. /\ Underway /\ step' = "tokens" /\ doomed' = doomed /\ deleted' = deleted
        /\ scanned' = TokensOf(doomed)
    BY <1>4 DEF ScanTokens, Underway
  <2>2. QED
    BY <1>0, <1>1, <1>2, <2>1
       DEF CleanerTyped, DoomedEnded, DeletedDoomed, NothingMissed, Underway, TokensOf
<1>5. CASE DeleteToken
  <2>1. PICK t \in scanned : /\ \A q \in Requests : t \notin DOMAIN draft[q]
                             /\ scanned' = scanned \ {t}
                             /\ deleted' = deleted \cup {t}
    BY <1>5 DEF DeleteToken
  <2>2. step' = step /\ doomed' = doomed /\ step \notin {"idle", "commit"}
    BY <1>5, <2>1 DEF DeleteToken, CleanerTyped, Underway
  <2>3. CleanerTyped'
    BY <1>0, <2>1, <2>2 DEF CleanerTyped, Underway
  <2>4. DoomedEnded' /\ NothingMissed'
    BY <1>2, <2>1, <2>2 DEF DoomedEnded, NothingMissed, Underway
  <2>5. DeletedDoomed'
    BY <1>2, <2>1, <2>2 DEF DeletedDoomed, Underway
  <2>6. QED
    BY <1>1, <2>3, <2>4, <2>5
<1>6. CASE DeleteSessions
  <2>1. /\ Underway /\ step' = "cascade" /\ doomed' = doomed /\ deleted' = deleted
        /\ scanned' = TokensOf(doomed)
        /\ \A s \in doomed : ~SessionHeld(s)
    BY <1>6 DEF DeleteSessions, Underway
  <2>2. \A q \in Requests : Rotating(q) => SessionOf(q) \notin doomed
    BY <2>1, RotatingHolds
  <2>3. QED
    BY <1>0, <1>1, <1>2, <2>1, <2>2
       DEF CleanerTyped, DoomedEnded, DeletedDoomed, NothingMissed, Underway, TokensOf
<1>7. CASE CascadeDone
  <2>1. /\ step = "cascade" /\ step' = "commit" /\ scanned = {}
        /\ UNCHANGED <<doomed, scanned, deleted>>
    BY <1>7 DEF CascadeDone
  <2>2. QED
    BY <1>0, <1>1, <1>2, <2>1
       DEF CleanerTyped, DoomedEnded, DeletedDoomed, NothingMissed, Underway
<1>8. CASE RunVictim \/ LoseRun
  <2>1. step' = "done" /\ scanned' = {} /\ deleted' = {} /\ doomed' = doomed
    BY <1>8 DEF RunVictim, LoseRun, RollbackRun
  <2>2. QED
    BY <1>0, <1>1, <2>1
       DEF CleanerTyped, DoomedEnded, DeletedDoomed, NothingMissed, Underway
<1>9. QED
  BY <1>3, <1>4, <1>5, <1>6, <1>7, <1>8

\* The commit of the run takes every token of a doomed session with it, and
\* nothing that a request has locked or will revoke.
LEMMA CommitRows ==
    ASSUME LockInv, CleanerInv, CommitCleanup
    PROVE  /\ \A t \in Tokens :
                IF token[t].session \in doomed THEN token'[t] = NoRow
                ELSE token'[t] = token[t] /\ t \notin deleted
           /\ \A s \in Sessions \ doomed : session'[s] = session[s]
           /\ \A s \in doomed : session'[s] = Unopened
           /\ \A q \in Requests : \A t \in DOMAIN draft[q] : token'[t] = token[t]
<1>1. /\ step = "commit" /\ scanned = {} /\ Underway /\ doomed \subseteq Sessions
      /\ \A t \in Tokens : token[t].session \in doomed <=> t \in deleted
      /\ \A q \in Requests : DOMAIN draft[q] \cap deleted = {}
  BY DEF CommitCleanup, CleanerInv, CleanerTyped, DeletedDoomed, NothingMissed, Underway
<1>2. /\ \A t \in Tokens : token'[t] = IF t \in deleted THEN NoRow ELSE token[t]
      /\ \A s \in Sessions : session'[s] = IF s \in doomed THEN Unopened ELSE session[s]
  BY DEF CommitCleanup
<1>3. \A q \in Requests : DOMAIN draft[q] \subseteq Tokens
  BY DEF LockInv, TypeOK
<1>4. QED
  BY <1>1, <1>2, <1>3

LEMMA CommitKeeps ==
    ASSUME LockInv, CleanerInv, CommitCleanup
    PROVE  LockInv' /\ CleanerInv'
<1>1. TypeOK /\ \A p \in Requests : RequestInv(p)
  BY DEF LockInv
<1>2. TypeOK'
  <2>1. token' \in [Tokens -> Row]
    BY <1>1, RowsTyped DEF CommitCleanup, TypeOK
  <2>2. Unopened \in SessionRow
    BY TimeAssumption DEF Unopened, SessionRow
  <2>3. session' \in [Sessions -> SessionRow]
    BY <1>1, <2>2 DEF CommitCleanup, TypeOK
  <2>4. QED
    BY <1>1, <2>1, <2>3 DEF CommitCleanup, TypeOK
<1>3. ASSUME NEW p \in Requests PROVE RequestInv(p)'
  <2>1. Untouched(p)
    BY CommitRows DEF CommitCleanup, Untouched
  <2>2. ASSUME pc[p] = "revoke", NEW t \in targets[p]
        PROVE  token'[t].session = token[t].session
    <3>1. /\ t \in Tokens /\ presented[p] \in DOMAIN draft[p]
          /\ Stored(t) /\ token[t].session = SessionOf(p)
      BY <1>1, <2>2 DEF TypeOK, RequestInv, Locks, Revocation, Holding
    <3>2. presented[p] \in Tokens /\ token'[presented[p]] = token[presented[p]]
      BY <1>1, <3>1, CommitRows DEF TypeOK
    <3>3. Stored(presented[p]) /\ token'[presented[p]] # NoRow
      BY <1>1, <2>2, <3>2, NamesAssumption
         DEF RequestInv, Locks, Holding, Stored, NoRow
    <3>4. SessionOf(p) \notin doomed
      BY <3>2, <3>3, CommitRows DEF SessionOf
    <3>5. QED
      BY <3>1, <3>4, CommitRows
  <2>3. QED
    BY <2>1, <2>2, UntouchedKeeps DEF TargetsKept
<1>4. StoredRows'
  <2>1. SUFFICES ASSUME NEW t \in Tokens, token'[t] # NoRow
                 PROVE  Stored(t)' /\ session'[token'[t].session].status # "none"
    BY DEF StoredRows
  <2>2. token'[t] = token[t] /\ token[t].session \notin doomed
    BY <2>1, CommitRows
  <2>3. Stored(t) /\ session[token[t].session].status # "none"
    BY <2>1, <2>2 DEF LockInv, StoredRows
  <2>4. QED
    BY <2>2, <2>3, CommitRows DEF Stored
<1>5. AtMostOne'
  <2>1. \A t \in Tokens : Stored(t)' => token'[t] = token[t]
    BY CommitRows, NamesAssumption DEF Stored, NoRow
  <2>2. QED
    BY <2>1 DEF LockInv, AtMostOne, Stored
<1>6. AtLeastOne'
  <2>1. SUFFICES ASSUME NEW s \in Sessions, session'[s].status = "active"
                 PROVE  \E t \in Tokens : t \in Current(s)'
    BY DEF AtLeastOne
  <2>2. s \notin doomed /\ session[s].status = "active"
    BY <2>1, CommitRows DEF Unopened
  <2>3. PICK t \in Tokens : t \in Current(s)
    BY <2>2 DEF LockInv, AtLeastOne
  <2>4. token'[t] = token[t]
    BY <2>2, <2>3, CommitRows DEF Current
  <2>5. QED
    BY <2>3, <2>4 DEF Current
<1>7. CleanerInv'
  <2>1. /\ step' = "done" /\ scanned = {} /\ deleted' = {}
        /\ UNCHANGED <<revokedAt, doomed, scanned>>
    BY DEF CommitCleanup, CleanerInv, CleanerTyped
  <2>2. QED
    BY <2>1 DEF CleanerInv, CleanerTyped, DoomedEnded, DeletedDoomed,
                NothingMissed, Underway
<1>8. QED
  BY <1>2, <1>3, <1>4, <1>5, <1>6, <1>7 DEF LockInv

-----------------------------------------------------------------------------
(* The invariant is inductive.                                              *)

LEMMA CleanupInitInv == CleanupInit => LockInv /\ CleanerInv
<1> SUFFICES ASSUME CleanupInit PROVE LockInv /\ CleanerInv
  OBVIOUS
<1>1. LockInv
  BY LockInvInit DEF CleanupInit
<1>2. 0 \in Instants
  BY TimeAssumption DEF Instants
<1>3. CleanerInv
  BY <1>2 DEF CleanupInit, CleanerInv, CleanerTyped, DoomedEnded, DeletedDoomed,
              NothingMissed, Underway
<1>4. QED
  BY <1>1, <1>3

LEMMA CleanupStepInv ==
    LockInv /\ CleanerInv /\ [CleanupNext]_cleanupVars => LockInv' /\ CleanerInv'
<1> SUFFICES ASSUME LockInv, CleanerInv, [CleanupNext]_cleanupVars
             PROVE  LockInv' /\ CleanerInv'
  OBVIOUS
<1>1. CASE Beside
  BY <1>1, BesideKeeps
<1>2. CASE FindSessions \/ ScanTokens \/ DeleteToken \/ DeleteSessions
             \/ CascadeDone \/ RunVictim \/ LoseRun
  BY <1>2, RunKeeps
<1>3. CASE CommitCleanup
  BY <1>3, CommitKeeps
<1>4. CASE UNCHANGED cleanupVars
  <2>1. UNCHANGED vars /\ UNCHANGED <<revokedAt, step, doomed, scanned, deleted>>
    BY <1>4 DEF cleanupVars, cleanerVars
  <2>2. /\ session' = session /\ token' = token /\ draft' = draft /\ clock' = clock
        /\ \A q \in Requests : Rotating(q)' = Rotating(q) /\ SessionOf(q)' = SessionOf(q)
    BY <2>1 DEF vars, Rotating, SessionOf
  <2>3. CleanerInv'
    BY <2>1, <2>2 DEF CleanerInv, CleanerTyped, DoomedEnded, DeletedDoomed,
                      NothingMissed, Underway
  <2>4. QED
    BY <2>1, <2>3, RunLocal
<1>5. QED
  BY <1>1, <1>2, <1>3, <1>4 DEF CleanupNext, RunStep, Beside

-----------------------------------------------------------------------------
(* Theorems.                                                                *)

\* Beside the run, rows and locks agree as they do without it, what it has
\* found to be past retention stays so, and its cascade misses no token.
THEOREM CleanupInvariance == CleanupSpec => [](LockInv /\ CleanerInv)
BY CleanupInitInv, CleanupStepInv, PTL DEF CleanupSpec

\* No refresh slips a token in between the deletion of a session's tokens and
\* of the session: none is left that refers to no session.
THEOREM NoOrphanTokensAlways == CleanupSpec => []NoOrphanTokens
<1>1. LockInv => NoOrphanTokens
  BY DEF LockInv, StoredRows, NoOrphanTokens
<1>2. QED
  BY <1>1, CleanupInvariance, PTL

\* The family of a session keeps its one current token while the run deletes
\* other families around it.
THEOREM OneCurrentBesideCleanup == CleanupSpec => []OneCurrentToken
BY LockInvOneCurrent, CleanupInvariance, PTL

\* docs/auth.md:807-810: whatever the run read before, it never deletes a session
\* that is active now, nor one of its tokens.
THEOREM ActiveKeptAlways == CleanupSpec => ActiveKept
<1> DEFINE Spared ==
      \A s \in Sessions :
        session[s].status = "active" /\ session[s].expires >= clock =>
          /\ session'[s].status # "none"
          /\ \A t \in Tokens : token[t].session = s => token'[t] # NoRow
<1>1. LockInv /\ CleanerInv /\ [CleanupNext]_cleanupVars => [Spared]_cleanupVars
  <2> SUFFICES ASSUME LockInv, CleanerInv, CleanupNext,
                      NEW s \in Sessions, session[s].status = "active",
                      session[s].expires >= clock
               PROVE  /\ session'[s].status # "none"
                      /\ \A t \in Tokens : token[t].session = s => token'[t] # NoRow
    OBVIOUS
  <2>1. CASE Beside \/ UNCHANGED vars
    <3>1. Kept
      BY <2>1, BesideIsNext, LockInvStep
    <3>2. QED
      BY <3>1, NamesAssumption DEF Kept, Stored, NoRow
  <2>2. CASE CommitCleanup
    <3>1. s \notin doomed
      <4>1. clock \in Int /\ session[s].expires \in Int
        BY TimeAssumption DEF LockInv, TypeOK, Instants, SessionRow
      <4>2. s \in doomed => session[s].expires < clock
        BY <2>2 DEF CommitCleanup, CleanerInv, DoomedEnded, Underway
      <4>3. QED
        BY <4>1, <4>2
    <3>2. session'[s] = session[s] /\ \A t \in Tokens : token[t].session = s => token'[t] = token[t]
      BY <2>2, <3>1, CommitRows
    <3>3. QED
      BY <3>2, NamesAssumption DEF NoRow
  <2>3. QED
    BY <2>1, <2>2 DEF CleanupNext, Beside, FindSessions, RunStep, ScanTokens,
       DeleteToken, DeleteSessions, CascadeDone, RunVictim, LoseRun, RollbackRun
<1>2. QED
  BY <1>1, CleanupInvariance, PTL DEF CleanupSpec, ActiveKept

\* A request that is about to commit waits for nothing.
LEMMA CommittersGoOn ==
    ASSUME NEW q \in Requests, pc[q] \in {"respond", "commit"}
    PROVE  InProgress(q) /\ ~RequestWaits(q)
BY DEF InProgress, RequestWaits, Wanted, NeedsSession

LEMMA LockersInProgress ==
    ASSUME LockInv, NEW q \in Requests, NEW t \in DOMAIN draft[q]
    PROVE  InProgress(q)
BY DEF LockInv, RequestInv, Locks, Holding, InProgress

\* The rows that the run and the requests have locked, the sessions of logouts
\* left out.
Locked == [x \in Requests \cup {Cleaner} |->
    IF x = Cleaner THEN deleted \cup {s \in doomed : Deleting(s)} ELSE DOMAIN draft[x]]
Pending == {q \in Requests : InProgress(q)}
           \cup {x \in {Cleaner} : Underway}

\* Who waits for a session waits for one who is about to commit, or for the run.
\* If all wait, each therefore waits for rows that another one has locked.
LEMMA WaitForRows ==
    ASSUME LockInv, CleanerInv,
           \A q \in Requests : InProgress(q) => RequestWaits(q), Underway => RunWaits
    PROVE  WantWithin(Pending, Locked, WantedRows)
<1>1. /\ WantedRows[Cleaner] = scanned
      /\ Locked[Cleaner] = deleted \cup {s \in doomed : Deleting(s)}
      /\ \A q \in Requests : /\ Locked[q] = DOMAIN draft[q] /\ q # Cleaner
                             /\ Wanted[q] \subseteq WantedRows[q]
                             /\ \A s \in Sessions : NeedsSession(q) /\ SessionOf(q) = s
                                                      => s \in WantedRows[q]
  BY CleanupAssumption DEF WantedRows, Locked
<1>2. ASSUME NEW q \in Requests, InProgress(q)
      PROVE  \E z \in Pending \ {q} : WantedRows[q] \cap Locked[z] # {}
  <2>1. CASE Wanted[q] # {} /\ \A t \in Wanted[q] : LockedByOther(q, t) \/ t \in deleted
    <3>1. PICK t \in Wanted[q] : LockedByOther(q, t) \/ t \in deleted
      BY <2>1
    <3>2. CASE LockedByOther(q, t)
      <4>1. PICK p \in Requests \ {q} : t \in DOMAIN draft[p]
        BY <3>2 DEF LockedByOther
      <4>2. InProgress(p)
        BY <4>1, LockersInProgress
      <4>3. QED
        BY <1>1, <3>1, <4>1, <4>2 DEF Pending
    <3>3. CASE t \in deleted
      <4>1. Underway
        BY <3>3 DEF CleanerInv, CleanerTyped
      <4>2. QED
        BY <1>1, <3>1, <3>3, <4>1 DEF Pending
    <3>4. QED
      BY <3>1, <3>2, <3>3
  <2>2. CASE NeedsSession(q) /\ Deleting(SessionOf(q))
    <3>1. Underway /\ SessionOf(q) \in doomed /\ doomed \subseteq Sessions
      BY <2>2 DEF Deleting, Underway, CleanerInv, CleanerTyped
    <3>2. QED
      BY <1>1, <2>2, <3>1 DEF Pending
  <2>3. CASE pc[q] = "revoke" /\ targets[q] = {} /\ ~SessionFree(q)
    BY <2>3, CommittersGoOn DEF SessionFree
  <2>4. QED
    BY <1>2, <2>1, <2>2, <2>3 DEF RequestWaits
<1>3. ASSUME Underway
      PROVE  \E z \in Pending \ {Cleaner} : WantedRows[Cleaner] \cap Locked[z] # {}
  <2>1. CASE scanned # {} /\ \A t \in scanned : \E q \in Requests : t \in DOMAIN draft[q]
    <3>1. PICK t \in scanned, q \in Requests : t \in DOMAIN draft[q]
      BY <2>1
    <3>2. InProgress(q)
      BY <3>1, LockersInProgress
    <3>3. QED
      BY <1>1, <3>1, <3>2 DEF Pending
  <2>2. CASE \E s \in doomed : SessionHeld(s)
    <3>1. \A q \in Requests : pc[q] \notin {"respond", "commit"}
      BY CommittersGoOn
    <3>2. PICK q \in Requests : \E t \in DOMAIN draft[q] : token[t] = NoRow
      BY <2>2, <3>1 DEF SessionHeld
    <3>3. RequestInv(q) /\ ~Rotating(q)
      BY <3>1 DEF LockInv, Rotating
    <3>4. \A t \in DOMAIN draft[q] : Stored(t)
      BY <3>3 DEF RequestInv, Revocation
    <3>5. QED
      BY <3>2, <3>4, NamesAssumption DEF Stored, NoRow
  <2>3. QED
    BY <1>3, <2>1, <2>2 DEF RunWaits
<1>4. QED
  BY <1>2, <1>3 DEF Pending, WantWithin

\* The cleanup run and the requests lock rows of two tables in orders of their
\* own.  They never all wait without a circle that PostgreSQL detects, of
\* requests alone or with the run.
THEOREM WaitsAreCirclesAlways == CleanupSpec => []WaitsAreCircles
<1>1. LockInv /\ CleanerInv => WaitsAreCircles
  <2> SUFFICES ASSUME LockInv, CleanerInv, Pending # {},
                      \A q \in Requests : InProgress(q) => RequestWaits(q),
                      Underway => RunWaits
               PROVE  \/ \E q \in Requests : InCircle(q, Wanted)
                      \/ Waits!InCircle(Cleaner, WantedRows)
    BY DEF WaitsAreCircles, Pending
  <2> DEFINE All == Requests \cup {Cleaner}
  <2>1. Holdings(Tokens \cup Sessions, All, Locked, WantedRows)
    <3>1. IsFiniteSet(Tokens \cup Sessions)
      BY NamesAssumption, CleanupAssumption, FS_Union
    <3>2. Locked \in [All -> SUBSET (Tokens \cup Sessions)]
      BY DEF Locked, LockInv, TypeOK, CleanerInv, CleanerTyped
    <3>3. \A q \in Requests : Wanted[q] \subseteq Tokens
      BY DEF Wanted, LockInv, TypeOK
    <3>4. WantedRows \in [All -> SUBSET (Tokens \cup Sessions)]
      BY <3>3 DEF WantedRows, CleanerInv, CleanerTyped
    <3>5. \A y, z \in All : y # z => Locked[y] \cap Locked[z] = {}
      <4>1. \A q, p \in Requests : q # p => DOMAIN draft[q] \cap DOMAIN draft[p] = {}
        BY DEF LockInv, TypeOK
      <4>2. \A q \in Requests : DOMAIN draft[q] \cap deleted = {}
        BY DEF CleanerInv, CleanerTyped, DeletedDoomed
      <4>3. \A q \in Requests : DOMAIN draft[q] \cap doomed = {}
        BY CleanupAssumption DEF LockInv, TypeOK, CleanerInv, CleanerTyped
      <4>4. QED
        BY <4>1, <4>2, <4>3, CleanupAssumption DEF Locked
    <3>6. QED
      BY <3>1, <3>2, <3>4, <3>5 DEF Holdings
  <2>2. Pending \in SUBSET All
    BY DEF Pending
  <2> HIDE DEF All
  <2>3. PICK U \in SUBSET Pending :
           U # {} /\ WantWithin(U, Locked, WantedRows) /\ WantedWithin(U, Locked, WantedRows)
    BY <2>1, <2>2, WaitForRows, CircleOfHolders
  <2>4. U \subseteq Requests \cup {Cleaner}
    BY <2>2, <2>3 DEF All
  <2>5. CASE Cleaner \in U
    <3>1. \A x \in Requests \cup {Cleaner} : Locked[x] \subseteq DOMAIN Held[x]
      BY DEF Locked, Held
    <3>2. \A y \in U : /\ \E z \in U \ {y} : WantedRows[y] \cap DOMAIN Held[z] # {}
                      /\ \E z \in U \ {y} : WantedRows[z] \cap DOMAIN Held[y] # {}
      BY <2>3, <2>4, <3>1 DEF WantWithin, WantedWithin
    <3>3. QED
      BY <2>4, <2>5, <3>2 DEF Waits!InCircle
  <2>6. CASE Cleaner \notin U
    <3>1. U \in SUBSET Requests /\ \A y \in U : Locked[y] = DOMAIN draft[y]
      BY <2>4, <2>6, CleanupAssumption DEF Locked
    <3>2. \A y, z \in U : WantedRows[y] \cap Locked[z] = Wanted[y] \cap DOMAIN draft[z]
      <4>1. \A z \in U : DOMAIN draft[z] \cap Sessions = {}
        BY <3>1, CleanupAssumption DEF LockInv, TypeOK
      <4>2. \A y \in U : WantedRows[y] \subseteq Wanted[y] \cup Sessions
                         /\ Wanted[y] \subseteq WantedRows[y]
        BY <3>1, CleanupAssumption DEF WantedRows
      <4>3. QED
        BY <3>1, <4>1, <4>2
    <3>3. \A y \in U : /\ \E z \in U \ {y} : Wanted[y] \cap DOMAIN draft[z] # {}
                      /\ \E z \in U \ {y} : Wanted[z] \cap DOMAIN draft[y] # {}
      BY <2>3, <3>2 DEF WantWithin, WantedWithin
    <3>4. PICK q \in U : TRUE
      BY <2>3
    <3>5. InCircle(q, Wanted)
      BY <3>1, <3>3 DEF InCircle
    <3>6. QED
      BY <3>1, <3>5
  <2>7. QED
    BY <2>5, <2>6
<1>2. QED
  BY <1>1, CleanupInvariance, PTL
=============================================================================
