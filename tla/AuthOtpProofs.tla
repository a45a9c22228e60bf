---------------------------- MODULE AuthOtpProofs ----------------------------
(***************************************************************************)
(* A code opens one session, is refused once it is dead, is stored only if *)
(* it was mailed and used up only for a reason, and its sessions belong to *)
(* one user, for any codes, requests, settings and clock.                  *)
(***************************************************************************)
EXTENDS AuthOtp, CountingLemmas

-----------------------------------------------------------------------------
(* The inductive invariant.                                                 *)

SenderLabels == {"idle", "count", "scan", "mark", "mail", "commit", "done", "lost"}
Deciding == {"check", "raise", "user", "insert", "respond", "commit"}
Accepted == {"user", "insert", "respond", "commit"}
VerifierLabels == {"idle", "select", "lock", "done", "lost"} \cup Deciding

\* What a request would commit for a row it holds.
AsStored(q, r) == draft[q][r] = otp[r]
AsUsed(q, r) == otp[r].stored /\ draft[q][r] = [otp[r] EXCEPT !.used = TRUE]

\* A sender marks stored codes and adds one that is not stored yet.
Creates(q) ==
    /\ row[q] \in DOMAIN draft[q]
    /\ ~otp[row[q]].stored
    /\ draft[q][row[q]] = NewRow(now[q])
    /\ \A r \in DOMAIN draft[q] \ {row[q]} : AsUsed(q, r)

SenderInv(q) ==
    /\ pc[q] \in SenderLabels
    /\ pc[q] \notin {"mark", "mail", "commit"} => draft[q] = Unlocked
    /\ pc[q] = "mark" => /\ \A r \in targets[q] : otp[r].stored
                         /\ \A r \in DOMAIN draft[q] : AsUsed(q, r)
    /\ pc[q] \in {"mail", "commit"} => Creates(q)
    /\ pc[q] = "commit" => answer[q] = "sent" /\ row[q] \in mailed
    /\ pc[q] = "done" /\ answer[q] = "sent" => row[q] \in Codes /\ otp[row[q]].stored

\* A verifier decides on a code that it has locked and that is active, and
\* changes nothing but that code.
Decides(v) == row[v] \in DOMAIN draft[v] /\ Active(otp[row[v]], now[v])
Consumes(v) == /\ AsUsed(v, row[v])
               /\ \A r \in DOMAIN draft[v] \ {row[v]} : AsStored(v, r)

VerifierInv(v) ==
    /\ pc[v] \in VerifierLabels
    /\ pc[v] \notin {"lock"} \cup Deciding => draft[v] = Unlocked
    /\ pc[v] \in {"lock", "check"} => \A r \in DOMAIN draft[v] : AsStored(v, r)
    /\ pc[v] \in Deciding => Decides(v)
    /\ pc[v] \in Accepted => Consumes(v)
    /\ \A r \in dead[v] : /\ otp[r].stored
                          /\ otp[r].used \/ Expires(otp[r]) <= now[v]
    /\ pc[v] = "commit" => answer[v] = "verified"
    /\ answer[v] = "verified" =>
         pc[v] \in {"commit", "done", "lost"} /\ row[v] \in Codes \ dead[v]
    /\ Verified(v) => otp[row[v]].stored /\ otp[row[v]].used

\* At most one verifier is about to commit the user, and none once there is one.
UserInv ==
    /\ \A v \in Verifiers :
         /\ pc[v] \in {"respond", "commit"} =>
              /\ owner[v] # NoUser
              /\ owner[v] = user \/ (owner[v] = v /\ user = NoUser)
         /\ Verified(v) => owner[v] = user /\ user # NoUser
    /\ user # NoUser => pc[user] = "done"
    /\ \A v, w \in Verifiers : InsertsUser(v) /\ InsertsUser(w) => v = w

\* Only a verification that has ended has failed.
Failed(r) == {v \in Verifiers : pc[v] = "done" /\ row[v] = r}
Counted == \A r \in Codes : failures[r] <= Cardinality(Failed(r))

Labels == SenderLabels \cup VerifierLabels
Answers == {"none", "sent", "failed", "limited", "invalid", "verified", "error"}

DraftTyped ==
    /\ DOMAIN draft = Requests
    /\ \A q \in Requests : /\ DOMAIN draft[q] \subseteq Codes
                           /\ \A r \in DOMAIN draft[q] : draft[q][r] \in Row
Separate ==
    \A q, p \in Requests : q # p => DOMAIN draft[q] \cap DOMAIN draft[p] = {}
RestTyped ==
    /\ clock \in Instants
    /\ otp \in [Codes -> Row]
    /\ user \in Verifiers \cup {NoUser}
    /\ pc \in [Requests -> Labels]
    /\ now \in [Requests -> Instants]
    /\ targets \in [Requests -> SUBSET Codes]
    /\ row \in [Requests -> Codes \cup {WrongCode}]
    /\ entered \in [Verifiers -> Codes \cup {WrongCode}]
    /\ owner \in [Verifiers -> Verifiers \cup {NoUser}]
    /\ answer \in [Requests -> Answers]
    /\ mailed \subseteq Codes
    /\ failures \in [Codes -> Nat]
    /\ dead \in [Requests -> SUBSET Codes]

Typed == DraftTyped /\ RestTyped

IInv ==
    /\ Typed /\ Separate
    /\ \A q \in Senders : SenderInv(q)
    /\ \A v \in Verifiers : VerifierInv(v)
    /\ UserInv /\ Counted
    /\ StoredWasMailed /\ UsedForAReason /\ ConsumedOnce

-----------------------------------------------------------------------------
(* Locks.                                                                   *)

LEMMA UnlockedEmpty == DOMAIN Unlocked = {}
BY DEF Unlocked

LEMMA WriteLocks ==
    ASSUME Typed, Separate, NEW q \in Requests, NEW r \in Codes, NEW x \in Row,
           ~LockedByOther(q, r), Write(q, r, x)
    PROVE  /\ DraftTyped' /\ Separate'
           /\ DOMAIN draft'[q] = DOMAIN draft[q] \cup {r} /\ draft'[q][r] = x
           /\ \A u \in DOMAIN draft[q] \ {r} : draft'[q][u] = draft[q][u]
           /\ \A p \in Requests \ {q} : draft'[p] = draft[p]
<1>1. /\ DOMAIN draft' = Requests
      /\ draft'[q] = [u \in DOMAIN draft[q] \cup {r} |-> IF u = r THEN x ELSE draft[q][u]]
      /\ \A p \in Requests \ {q} : draft'[p] = draft[p]
  BY DEF Typed, DraftTyped, Write
<1>2. /\ DOMAIN draft'[q] = DOMAIN draft[q] \cup {r} /\ draft'[q][r] = x
      /\ \A u \in DOMAIN draft[q] \ {r} : draft'[q][u] = draft[q][u]
  BY <1>1
<1>3. DraftTyped'
  <2>1. ASSUME NEW p \in Requests
        PROVE  /\ DOMAIN draft'[p] \subseteq Codes
               /\ \A u \in DOMAIN draft'[p] : draft'[p][u] \in Row
    <3>1. CASE p = q
      BY <1>2, <3>1 DEF Typed, DraftTyped
    <3>2. CASE p # q
      BY <1>1, <3>2 DEF Typed, DraftTyped
    <3> QED BY <3>1, <3>2
  <2>2. Row' = Row /\ Codes' = Codes
    BY DEF Row, Instants
  <2> QED BY <1>1, <2>1, <2>2 DEF DraftTyped
<1>4. Separate'
  BY <1>1, <1>2 DEF Separate, LockedByOther
<1> QED BY <1>1, <1>2, <1>3, <1>4

LEMMA DropLocks ==
    ASSUME Typed, Separate, NEW q \in Requests, draft' = [draft EXCEPT ![q] = Unlocked]
    PROVE  /\ DraftTyped' /\ Separate' /\ draft'[q] = Unlocked
           /\ \A p \in Requests \ {q} : draft'[p] = draft[p]
<1>1. /\ DOMAIN draft' = Requests /\ draft'[q] = Unlocked
      /\ \A p \in Requests \ {q} : draft'[p] = draft[p]
  BY DEF Typed, DraftTyped
<1>2. DraftTyped'
  BY <1>1, UnlockedEmpty DEF Typed, DraftTyped, Row, Instants
<1>3. Separate'
  BY <1>1, UnlockedEmpty DEF Separate
<1> QED BY <1>1, <1>2, <1>3

-----------------------------------------------------------------------------
(* What a step of one request leaves of the others.                         *)

Same(p) ==
    /\ pc'[p] = pc[p] /\ now'[p] = now[p] /\ draft'[p] = draft[p]
    /\ targets'[p] = targets[p] /\ row'[p] = row[p] /\ answer'[p] = answer[p]
    /\ dead'[p] = dead[p]
SameVerifier(v) == Same(v) /\ owner'[v] = owner[v]
Beside(q) == /\ \A p \in Senders \ {q} : Same(p)
             /\ \A v \in Verifiers \ {q} : SameVerifier(v)

\* Codes that are stored stay stored, and used ones used.
Grows ==
    \A r \in Codes :
        otp[r].stored => /\ otp'[r].stored /\ otp'[r].created = otp[r].created
                         /\ otp[r].used => otp'[r].used

LEMMA SenderKept ==
    ASSUME NEW q \in Senders, Typed, SenderInv(q), Same(q), Grows, mailed \subseteq mailed',
           \A r \in DOMAIN draft[q] : otp'[r] = otp[r]
    PROVE  SenderInv(q)'
<1>1. q \in Requests /\ targets[q] \subseteq Codes
  BY DEF Requests, Typed, RestTyped
<1>2. \A r \in DOMAIN draft[q] : AsUsed(q, r) => AsUsed(q, r)'
  BY DEF AsUsed, Same
<1>3. Creates(q) => Creates(q)'
  BY <1>2 DEF Creates, Same, NewRow
<1>4. pc[q] = "mark" => \A r \in targets[q] : otp'[r].stored
  BY <1>1 DEF SenderInv, Grows
<1> QED BY <1>2, <1>3, <1>4 DEF SenderInv, Same, SenderLabels, Grows, Unlocked

LEMMA VerifierKept ==
    ASSUME NEW v \in Verifiers, Typed, VerifierInv(v), SameVerifier(v), Grows,
           \A r \in DOMAIN draft[v] : otp'[r] = otp[r]
    PROVE  VerifierInv(v)'
<1>1. v \in Requests /\ dead[v] \subseteq Codes
  BY DEF Requests, Typed, RestTyped
<1>2. \A r \in DOMAIN draft[v] : /\ AsUsed(v, r) => AsUsed(v, r)'
                                 /\ AsStored(v, r) => AsStored(v, r)'
  BY DEF AsUsed, AsStored, SameVerifier, Same
<1>3. Decides(v) => Decides(v)'
  BY DEF Decides, SameVerifier, Same, Active, Expires
<1>4. Decides(v) /\ Consumes(v) => Consumes(v)'
  BY <1>2 DEF Decides, Consumes, SameVerifier, Same
<1>5. \A r \in dead[v] : otp'[r].stored /\ (otp'[r].used \/ Expires(otp'[r]) <= now[v])
  BY <1>1 DEF VerifierInv, Grows, Expires
<1>6. Verified(v)' => otp'[row[v]].stored /\ otp'[row[v]].used
  BY DEF VerifierInv, Verified, SameVerifier, Same, Grows
<1>7. /\ pc'[v] = pc[v] /\ now'[v] = now[v] /\ draft'[v] = draft[v]
      /\ row'[v] = row[v] /\ answer'[v] = answer[v] /\ dead'[v] = dead[v]
  BY DEF SameVerifier, Same
<1>8. Deciding' = Deciding /\ Accepted' = Accepted /\ VerifierLabels' = VerifierLabels
      /\ Unlocked' = Unlocked
  BY DEF Deciding, Accepted, VerifierLabels, Unlocked
<1>9. pc[v] \in {"lock", "check"} => \A r \in DOMAIN draft'[v] : AsStored(v, r)'
  BY <1>2, <1>7 DEF VerifierInv
<1>10. /\ pc[v] \in Deciding => Decides(v)'
       /\ pc[v] \in Accepted => Consumes(v)'
  BY <1>3, <1>4 DEF VerifierInv, Deciding, Accepted
<1> QED BY <1>5, <1>6, <1>7, <1>8, <1>9, <1>10 DEF VerifierInv

\* A failure is counted with a verification that has ended.
LEMMA FailedFinite ==
    \A r \in Codes : IsFiniteSet(Failed(r)) /\ Cardinality(Failed(r)) \in Nat
<1> SUFFICES ASSUME NEW r \in Codes
             PROVE  IsFiniteSet(Failed(r)) /\ Cardinality(Failed(r)) \in Nat
  OBVIOUS
<1>1. Failed(r) \in SUBSET Verifiers
  BY DEF Failed
<1>2. IsFiniteSet(Failed(r))
  BY <1>1, OtpNamesAssumption, FS_Subset
<1> QED BY <1>2, FS_CardinalityType

LEMMA CountedKept ==
    ASSUME Typed, Counted, failures' = failures,
           \A v \in Verifiers : pc[v] = "done" => pc'[v] = "done" /\ row'[v] = row[v]
    PROVE  Counted'
<1> SUFFICES ASSUME NEW r \in Codes PROVE failures[r] <= Cardinality(Failed(r)')
  BY DEF Counted
<1>1. Failed(r) \subseteq Failed(r)' /\ Failed(r)' \in SUBSET Verifiers
  BY DEF Failed
<1>2. IsFiniteSet(Failed(r)')
  BY <1>1, OtpNamesAssumption, FS_Subset
<1>3. Failed(r) \in SUBSET Failed(r)'
  BY <1>1
<1>4. Cardinality(Failed(r)) <= Cardinality(Failed(r)')
  BY <1>2, <1>3, FS_Subset
<1>5. Cardinality(Failed(r)') \in Nat
  BY <1>2, FS_CardinalityType
<1>6. failures[r] \in Nat /\ Cardinality(Failed(r)) \in Nat /\ failures[r] <= Cardinality(Failed(r))
  BY FailedFinite DEF Counted, Typed, RestTyped
<1> QED BY <1>4, <1>5, <1>6

LEMMA UserKept ==
    ASSUME IInv, NEW q \in Requests, Beside(q), user' = user, pc[q] # "done",
           q \in Verifiers => /\ ~Verified(q)'
                             /\ owner'[q] = owner[q]
                             /\ (pc'[q] \in {"respond", "commit"}
                                   => pc[q] \in {"respond", "commit"})
    PROVE  UserInv'
<1>1. \A v \in Verifiers :
        /\ pc'[v] \in {"respond", "commit"} => pc[v] \in {"respond", "commit"}
        /\ owner'[v] = owner[v]
        /\ Verified(v)' => Verified(v)
  BY DEF Beside, SameVerifier, Same, Verified
<1>2. user # NoUser => user \in Verifiers /\ pc'[user] = "done"
  BY DEF IInv, UserInv, Typed, RestTyped, Beside, SameVerifier, Same
<1>3. \A v \in Verifiers : InsertsUser(v)' => InsertsUser(v)
  BY <1>1 DEF InsertsUser
<1> QED BY <1>1, <1>2, <1>3 DEF IInv, UserInv

\* A step that commits nothing.
LEMMA UncommittedStep ==
    ASSUME IInv, NEW q \in Requests, Beside(q), otp' = otp, mailed \subseteq mailed',
           \A r \in Codes : failures[r] <= failures'[r],
           Typed', Separate', UserInv', Counted', pc[q] # "done",
           q \in Senders => SenderInv(q)' /\ (pc'[q] = "done" => answer'[q] # "sent"),
           q \in Verifiers => VerifierInv(q)' /\ ~Verified(q)'
    PROVE  IInv'
<1>1. Grows
  BY DEF Grows
<1>2. \A p \in Senders : SenderInv(p)'
  BY <1>1, SenderKept DEF IInv, Beside
<1>3. \A v \in Verifiers : VerifierInv(v)'
  BY <1>1, VerifierKept DEF IInv, Beside
<1>4. StoredWasMailed'
  BY DEF IInv, StoredWasMailed
<1>5. \A v \in Verifiers : /\ Verified(v) => Verified(v)' /\ row'[v] = row[v]
                           /\ Verified(v)' => Verified(v)
  BY DEF Beside, SameVerifier, Same, Verified
<1>6. UsedForAReason'
  <2> SUFFICES ASSUME NEW r \in Codes, otp[r].used
               PROVE  \/ \E v \in Verifiers : Verified(v)' /\ row'[v] = r
                      \/ \E p \in Senders : /\ answer'[p] = "sent" /\ pc'[p] = "done"
                                            /\ row'[p] # r /\ otp[row'[p]].stored
                      \/ failures'[r] >= MaxAttempts
    BY DEF UsedForAReason
  <2>1. CASE \E v \in Verifiers : Verified(v) /\ row[v] = r
    BY <1>5, <2>1 DEF Verified
  <2>2. CASE \E p \in Senders : /\ answer[p] = "sent" /\ pc[p] = "done"
                               /\ row[p] # r /\ otp[row[p]].stored
    BY <2>2 DEF Beside, Same
  <2>3. CASE failures[r] >= MaxAttempts
    <3>1. failures[r] \in Nat /\ failures'[r] \in Nat /\ MaxAttempts \in Nat
      BY OtpSettingsAssumption DEF IInv, Typed, RestTyped
    <3> QED BY <2>3, <3>1
  <2> QED BY <2>1, <2>2, <2>3 DEF IInv, UsedForAReason
<1>7. ConsumedOnce'
  BY <1>5 DEF IInv, ConsumedOnce, Verified
<1> QED BY <1>2, <1>3, <1>4, <1>6, <1>7 DEF IInv

\* A step that, besides, neither fails nor finds a user.
LEMMA QuietStep ==
    ASSUME IInv, NEW q \in Requests, Beside(q), otp' = otp, mailed \subseteq mailed',
           failures' = failures, user' = user, owner' = owner,
           Typed', Separate', pc[q] # "done",
           q \in Senders => SenderInv(q)' /\ (pc'[q] = "done" => answer'[q] # "sent"),
           q \in Verifiers => /\ VerifierInv(q)' /\ ~Verified(q)'
                             /\ (pc'[q] \in {"respond", "commit"}
                                   => pc[q] \in {"respond", "commit"})
    PROVE  IInv'
<1>1. UserInv'
  BY UserKept
<1>2. \A v \in Verifiers : pc[v] = "done" => pc'[v] = "done" /\ row'[v] = row[v]
  BY DEF Beside, SameVerifier, Same
<1>3. Counted'
  BY <1>2, CountedKept DEF IInv
<1>4. \A r \in Codes : failures[r] <= failures'[r]
  BY DEF IInv, Typed, RestTyped
<1> QED BY <1>1, <1>3, <1>4, UncommittedStep

-----------------------------------------------------------------------------
(* Requesting a code.                                                       *)

LEMMA SenderOnly == \A q \in Senders : q \in Requests /\ q \notin Verifiers
BY OtpNamesAssumption DEF Requests

LEMMA VerifierOnly == \A v \in Verifiers : v \in Requests /\ v \notin Senders
BY OtpNamesAssumption DEF Requests

LEMMA SameLocks ==
    ASSUME Typed, Separate, draft' = draft
    PROVE  DraftTyped' /\ Separate'
BY DEF Typed, DraftTyped, Separate, Row, Instants

LEMMA BeginRequestStep ==
    ASSUME IInv, NEW q \in Senders, BeginRequest(q)
    PROVE  IInv'
<1>1. Typed /\ Separate /\ SenderInv(q) /\ q \in Requests /\ q \notin Verifiers
  BY SenderOnly DEF IInv
<1>2. Beside(q)
  BY <1>1 DEF Typed, RestTyped, Requests, BeginRequest, Goto, Beside, SameVerifier, Same
<1>3. Typed' /\ Separate'
  BY <1>1, SameLocks DEF Typed, RestTyped, Labels, SenderLabels, Instants, Row, Answers,
       BeginRequest, Goto
<1>4. SenderInv(q)' /\ pc[q] # "done" /\ pc'[q] # "done"
  BY <1>1 DEF Typed, RestTyped, SenderInv, SenderLabels, BeginRequest, Goto, Unlocked
<1> QED BY <1>1, <1>2, <1>3, <1>4, QuietStep DEF BeginRequest

LEMMA CountRecentStep ==
    ASSUME IInv, NEW q \in Senders, CountRecent(q)
    PROVE  IInv'
<1>1. Typed /\ Separate /\ SenderInv(q) /\ q \in Requests /\ q \notin Verifiers
  BY SenderOnly DEF IInv
<1>2. Beside(q)
  BY <1>1 DEF Typed, RestTyped, Requests, CountRecent, Finish, Answer, Goto, Beside,
       SameVerifier, Same
<1>3. Typed' /\ Separate'
  BY <1>1, SameLocks DEF Typed, RestTyped, Labels, SenderLabels, Instants, Row, Answers,
       CountRecent, Finish, Answer, Goto
<1>4. SenderInv(q)' /\ pc[q] # "done" /\ (pc'[q] = "done" => answer'[q] # "sent")
  BY <1>1 DEF Typed, RestTyped, SenderInv, SenderLabels, CountRecent, Finish, Answer, Goto,
       Unlocked
<1> QED BY <1>1, <1>2, <1>3, <1>4, QuietStep DEF CountRecent

LEMMA ScanUnusedStep ==
    ASSUME IInv, NEW q \in Senders, ScanUnused(q)
    PROVE  IInv'
<1>1. Typed /\ Separate /\ SenderInv(q) /\ q \in Requests /\ q \notin Verifiers
  BY SenderOnly DEF IInv
<1>2. Beside(q)
  BY <1>1 DEF Typed, RestTyped, Requests, ScanUnused, Goto, Beside, SameVerifier, Same
<1>3. Typed' /\ Separate'
  BY <1>1, SameLocks DEF Typed, RestTyped, Labels, SenderLabels, Instants, Row, Answers,
       ScanUnused, Goto
<1>4. SenderInv(q)' /\ pc[q] # "done" /\ pc'[q] # "done"
  BY <1>1, UnlockedEmpty DEF Typed, RestTyped, SenderInv, SenderLabels, ScanUnused, Goto
<1> QED BY <1>1, <1>2, <1>3, <1>4, QuietStep DEF ScanUnused

LEMMA MarkUsedStep ==
    ASSUME IInv, NEW q \in Senders, MarkUsed(q)
    PROVE  IInv'
<1>1. Typed /\ Separate /\ SenderInv(q) /\ q \in Requests /\ q \notin Verifiers
  BY SenderOnly DEF IInv
<1>2. PICK r \in targets[q] : /\ ~LockedByOther(q, r)
                              /\ Write(q, r, [otp[r] EXCEPT !.used = TRUE])
                              /\ targets' = [targets EXCEPT ![q] = @ \ {r}]
  BY DEF MarkUsed
<1>3. /\ r \in Codes /\ otp[r].stored
      /\ [otp[r] EXCEPT !.used = TRUE] \in Row
  <2>1. r \in Codes /\ otp[r].stored
    BY <1>1, <1>2 DEF Typed, RestTyped, SenderInv, MarkUsed
  <2>2. otp[r] \in Row
    BY <1>1, <2>1 DEF Typed, RestTyped
  <2> QED BY <2>1, <2>2 DEF Row
<1>4. /\ DraftTyped' /\ Separate'
      /\ DOMAIN draft'[q] = DOMAIN draft[q] \cup {r}
      /\ draft'[q][r] = [otp[r] EXCEPT !.used = TRUE]
      /\ \A u \in DOMAIN draft[q] \ {r} : draft'[q][u] = draft[q][u]
      /\ \A p \in Requests \ {q} : draft'[p] = draft[p]
  BY <1>1, <1>2, <1>3, WriteLocks
<1>5. Beside(q)
  BY <1>1, <1>2, <1>4 DEF Typed, RestTyped, Requests, MarkUsed, Beside, SameVerifier, Same
<1>6. Typed'
  BY <1>1, <1>2, <1>4 DEF Typed, RestTyped, Labels, Instants, Row, Answers, MarkUsed
<1>7. \A u \in DOMAIN draft'[q] : AsUsed(q, u)'
  BY <1>1, <1>3, <1>4 DEF SenderInv, AsUsed, MarkUsed
<1>8. SenderInv(q)' /\ pc[q] # "done" /\ pc'[q] # "done"
  BY <1>1, <1>2, <1>7 DEF Typed, RestTyped, SenderInv, SenderLabels, MarkUsed
<1> QED BY <1>1, <1>4, <1>5, <1>6, <1>8, QuietStep DEF MarkUsed

LEMMA CreateCodeStep ==
    ASSUME IInv, NEW q \in Senders, CreateCode(q)
    PROVE  IInv'
<1>1. Typed /\ Separate /\ SenderInv(q) /\ q \in Requests /\ q \notin Verifiers
  BY SenderOnly DEF IInv
<1>2. PICK r \in Fresh : /\ Write(q, r, NewRow(now[q]))
                         /\ row' = [row EXCEPT ![q] = r]
  BY DEF CreateCode
<1>3. /\ r \in Codes /\ ~otp[r].stored
      /\ r \notin DOMAIN draft[q] /\ ~LockedByOther(q, r)
  BY <1>1 DEF Fresh, LockedByOther
<1>4. NewRow(now[q]) \in Row
  BY <1>1, OtpSettingsAssumption DEF Typed, RestTyped, NewRow, Row
<1>5. /\ DraftTyped' /\ Separate'
      /\ DOMAIN draft'[q] = DOMAIN draft[q] \cup {r}
      /\ draft'[q][r] = NewRow(now[q])
      /\ \A u \in DOMAIN draft[q] \ {r} : draft'[q][u] = draft[q][u]
      /\ \A p \in Requests \ {q} : draft'[p] = draft[p]
  BY <1>1, <1>2, <1>3, <1>4, WriteLocks
<1>6. Beside(q)
  BY <1>1, <1>2, <1>5 DEF Typed, RestTyped, Requests, CreateCode, Goto, Beside,
       SameVerifier, Same
<1>7. Typed'
  BY <1>1, <1>2, <1>3, <1>5 DEF Typed, RestTyped, Labels, SenderLabels, Instants, Row,
       Answers, CreateCode, Goto
<1>8. Creates(q)'
  <2>1. row'[q] = r /\ now'[q] = now[q] /\ otp' = otp
    BY <1>1, <1>2 DEF Typed, RestTyped, CreateCode
  <2>2. \A u \in DOMAIN draft'[q] \ {r} : AsUsed(q, u)'
    BY <1>1, <1>5, <2>1 DEF SenderInv, AsUsed, CreateCode
  <2> QED BY <1>3, <1>5, <2>1, <2>2 DEF Creates, NewRow
<1>9. SenderInv(q)' /\ pc[q] # "done" /\ pc'[q] # "done"
  BY <1>1, <1>8 DEF Typed, RestTyped, SenderInv, SenderLabels, CreateCode, Goto
<1> QED BY <1>1, <1>5, <1>6, <1>7, <1>9, QuietStep DEF CreateCode

LEMMA MailSentStep ==
    ASSUME IInv, NEW q \in Senders, MailSent(q)
    PROVE  IInv'
<1>1. Typed /\ Separate /\ SenderInv(q) /\ q \in Requests /\ q \notin Verifiers
  BY SenderOnly DEF IInv
<1>2. Creates(q) /\ row[q] \in Codes
  BY <1>1 DEF SenderInv, MailSent, Creates, Typed, DraftTyped
<1>3. Beside(q)
  BY <1>1 DEF Typed, RestTyped, Requests, MailSent, Goto, Answer, Beside, SameVerifier, Same
<1>4. Typed' /\ Separate'
  BY <1>1, <1>2, SameLocks DEF Typed, RestTyped, Labels, SenderLabels, Instants, Row,
       Answers, MailSent, Goto, Answer
<1>5. Creates(q)'
  BY <1>2 DEF MailSent, Creates, AsUsed, NewRow
<1>6. SenderInv(q)' /\ pc[q] # "done" /\ pc'[q] # "done"
  BY <1>1, <1>5 DEF Typed, RestTyped, SenderInv, SenderLabels, MailSent, Goto, Answer
<1> QED BY <1>1, <1>3, <1>4, <1>6, QuietStep DEF MailSent

-----------------------------------------------------------------------------
(* Verifying a code.                                                        *)

LEMMA BeginVerifyStep ==
    ASSUME IInv, NEW v \in Verifiers, BeginVerify(v)
    PROVE  IInv'
<1>1. Typed /\ Separate /\ VerifierInv(v) /\ v \in Requests /\ v \notin Senders
  BY VerifierOnly DEF IInv
<1>2. Beside(v)
  BY <1>1 DEF Typed, RestTyped, Requests, BeginVerify, Goto, Beside, SameVerifier, Same
<1>3. Typed' /\ Separate'
  BY <1>1, SameLocks DEF Typed, RestTyped, Labels, VerifierLabels, Instants, Row, Answers,
       BeginVerify, Goto
<1>4. /\ pc[v] = "idle" /\ pc'[v] = "select" /\ now'[v] = clock
      /\ dead'[v] = {r \in Codes : otp[r].stored /\ (otp[r].used \/ Expires(otp[r]) <= clock)}
      /\ draft' = draft /\ answer' = answer /\ otp' = otp
  BY <1>1 DEF Typed, RestTyped, BeginVerify, Goto
<1>5. VerifierInv(v)' /\ ~Verified(v)'
  BY <1>1, <1>4 DEF VerifierInv, VerifierLabels, Deciding, Accepted, Verified, Expires,
       Unlocked
<1> QED BY <1>1, <1>2, <1>3, <1>4, <1>5, QuietStep DEF BeginVerify

LEMMA SelectActiveStep ==
    ASSUME IInv, NEW v \in Verifiers, SelectActive(v)
    PROVE  IInv'
<1>1. Typed /\ Separate /\ VerifierInv(v) /\ v \in Requests /\ v \notin Senders
  BY VerifierOnly DEF IInv
<1>2. Beside(v)
  BY <1>1 DEF Typed, RestTyped, Requests, SelectActive, Goto, Beside, SameVerifier, Same
<1>3. Typed' /\ Separate'
  BY <1>1, SameLocks DEF Typed, RestTyped, Labels, VerifierLabels, Deciding, Instants, Row,
       Answers, SelectActive, Goto
<1>4. /\ pc[v] = "select" /\ pc'[v] = "lock" /\ now' = now /\ dead' = dead
      /\ draft' = draft /\ answer' = answer /\ otp' = otp
  BY <1>1 DEF Typed, RestTyped, SelectActive, Goto
<1>5. VerifierInv(v)' /\ ~Verified(v)'
  BY <1>1, <1>4, UnlockedEmpty DEF VerifierInv, VerifierLabels, Deciding, Accepted,
       Verified, Expires
<1> QED BY <1>1, <1>2, <1>3, <1>4, <1>5, QuietStep DEF SelectActive

LEMMA LockCodeStep ==
    ASSUME IInv, NEW v \in Verifiers, LockCode(v)
    PROVE  IInv'
<1>1. Typed /\ Separate /\ VerifierInv(v) /\ v \in Requests /\ v \notin Senders
  BY VerifierOnly DEF IInv
<1>2. PICK r \in Newest(v) :
        /\ ~LockedByOther(v, r)
        /\ targets' = [targets EXCEPT ![v] = @ \ {r}]
        /\ Write(v, r, otp[r])
        /\ IF Active(otp[r], now[v])
           THEN row' = [row EXCEPT ![v] = r] /\ Goto(v, "check")
           ELSE UNCHANGED <<row, pc>>
  BY DEF LockCode
<1>3. r \in Codes /\ otp[r] \in Row
  BY <1>1, <1>2 DEF Newest, Typed, RestTyped
<1>4. /\ DraftTyped' /\ Separate'
      /\ DOMAIN draft'[v] = DOMAIN draft[v] \cup {r}
      /\ draft'[v][r] = otp[r]
      /\ \A u \in DOMAIN draft[v] \ {r} : draft'[v][u] = draft[v][u]
      /\ \A p \in Requests \ {v} : draft'[p] = draft[p]
  BY <1>1, <1>2, <1>3, WriteLocks
<1>5. Beside(v)
  BY <1>1, <1>2, <1>4 DEF Typed, RestTyped, Requests, LockCode, Goto, Beside, SameVerifier,
       Same
<1>6. Typed'
  BY <1>1, <1>2, <1>3, <1>4 DEF Typed, RestTyped, Labels, VerifierLabels, Deciding,
       Instants, Row, Answers, LockCode, Goto
<1>7. /\ pc[v] = "lock" /\ pc'[v] \in {"lock", "check"} /\ now' = now /\ dead' = dead
      /\ answer' = answer /\ otp' = otp
      /\ pc'[v] = "check" => row'[v] = r /\ Active(otp[r], now[v])
  BY <1>1, <1>2 DEF Typed, RestTyped, LockCode, Goto
<1>8. \A u \in DOMAIN draft'[v] : AsStored(v, u)'
  BY <1>1, <1>4, <1>7 DEF VerifierInv, AsStored
<1>9. pc'[v] = "check" => Decides(v)'
  BY <1>4, <1>7 DEF Decides, Active, Expires
<1>10. VerifierInv(v)' /\ ~Verified(v)'
  BY <1>1, <1>7, <1>8, <1>9 DEF VerifierInv, VerifierLabels, Deciding, Accepted, Verified,
       Expires
<1> QED BY <1>1, <1>4, <1>5, <1>6, <1>7, <1>10, QuietStep DEF LockCode

\* A verifier that decides owns its code.
LEMMA DecidingRow ==
    ASSUME IInv, NEW v \in Verifiers, pc[v] \in Deciding
    PROVE  /\ row[v] \in Codes /\ row[v] \in DOMAIN draft[v]
           /\ ~LockedByOther(v, row[v])
           /\ Active(otp[row[v]], now[v])
           /\ otp[row[v]] \in Row /\ draft[v][row[v]] \in Row
           /\ Seen(v, row[v]) = draft[v][row[v]]
<1>1. v \in Requests /\ Typed /\ Separate /\ VerifierInv(v)
  BY VerifierOnly DEF IInv
<1>2. row[v] \in DOMAIN draft[v] /\ Active(otp[row[v]], now[v])
  BY <1>1 DEF VerifierInv, Decides
<1>3. row[v] \in Codes /\ draft[v][row[v]] \in Row
  BY <1>1, <1>2 DEF Typed, DraftTyped
<1>4. otp[row[v]] \in Row
  BY <1>1, <1>3 DEF Typed, RestTyped
<1>5. ~LockedByOther(v, row[v])
  BY <1>1, <1>2 DEF Separate, LockedByOther
<1> QED BY <1>2, <1>3, <1>4, <1>5 DEF Seen

LEMMA FailAttemptStep ==
    ASSUME IInv, NEW v \in Verifiers, FailAttempt(v)
    PROVE  IInv'
<1>1. Typed /\ Separate /\ VerifierInv(v) /\ v \in Requests /\ v \notin Senders
  BY VerifierOnly DEF IInv
<1> DEFINE r == row[v]
           o == Seen(v, r)
           counted == IF Exhausted(o) THEN o ELSE [o EXCEPT !.attempts = @ + 1]
           x == [counted EXCEPT !.used = Exhausted(counted)]
<1>2. /\ r \in Codes /\ r \in DOMAIN draft[v] /\ ~LockedByOther(v, r)
      /\ Active(otp[r], now[v]) /\ o \in Row
  BY DecidingRow DEF FailAttempt, Deciding
<1>3. x \in Row
  <2>1. counted \in Row
    BY <1>2, OtpSettingsAssumption DEF Row, Exhausted
  <2>2. ASSUME NEW c \in Row, NEW b \in BOOLEAN PROVE [c EXCEPT !.used = b] \in Row
    BY DEF Row
  <2>3. Exhausted(counted) \in BOOLEAN
    BY <2>1, OtpSettingsAssumption DEF Exhausted, Row
  <2> HIDE DEF counted
  <2> QED BY <2>1, <2>2, <2>3, Zenon
<1>4. Write(v, r, x)
  BY DEF FailAttempt
<1> HIDE DEF x
<1>5. /\ DraftTyped' /\ Separate'
      /\ DOMAIN draft'[v] = DOMAIN draft[v] \cup {r}
      /\ \A p \in Requests \ {v} : draft'[p] = draft[p]
  BY <1>1, <1>2, <1>3, <1>4, WriteLocks
<1>6. Beside(v)
  BY <1>1, <1>5 DEF Typed, RestTyped, Requests, FailAttempt, Goto, Beside, SameVerifier, Same
<1>7. Typed'
  BY <1>1, <1>5 DEF Typed, RestTyped, Labels, VerifierLabels, Deciding, Instants, Row,
       Answers, FailAttempt, Goto
<1>8. /\ pc[v] = "check" /\ pc'[v] = "raise" /\ now' = now /\ dead' = dead
      /\ answer' = answer /\ otp' = otp /\ row' = row
  BY <1>1 DEF Typed, RestTyped, FailAttempt, Goto
<1>9. Decides(v)'
  BY <1>2, <1>5, <1>8 DEF Decides, Active, Expires
<1>10. VerifierInv(v)' /\ ~Verified(v)'
  BY <1>1, <1>8, <1>9 DEF VerifierInv, VerifierLabels, Deciding, Accepted, Verified, Expires
<1> QED BY <1>1, <1>5, <1>6, <1>7, <1>8, <1>10, QuietStep DEF FailAttempt

LEMMA AcceptStep ==
    ASSUME IInv, NEW v \in Verifiers, Accept(v)
    PROVE  IInv'
<1>1. Typed /\ Separate /\ VerifierInv(v) /\ v \in Requests /\ v \notin Senders
  BY VerifierOnly DEF IInv
<1> DEFINE r == row[v]
           x == [otp[r] EXCEPT !.used = TRUE]
<1>2. /\ r \in Codes /\ r \in DOMAIN draft[v] /\ ~LockedByOther(v, r)
      /\ Active(otp[r], now[v]) /\ otp[r] \in Row
      /\ Seen(v, r) = otp[r]
  BY <1>1, DecidingRow DEF Accept, Deciding, VerifierInv, AsStored
<1>3. x \in Row /\ Write(v, r, x)
  BY <1>2 DEF Row, Accept
<1> HIDE DEF x
<1>4. /\ DraftTyped' /\ Separate'
      /\ DOMAIN draft'[v] = DOMAIN draft[v] \cup {r}
      /\ draft'[v][r] = x
      /\ \A u \in DOMAIN draft[v] \ {r} : draft'[v][u] = draft[v][u]
      /\ \A p \in Requests \ {v} : draft'[p] = draft[p]
  BY <1>1, <1>2, <1>3, WriteLocks
<1>5. Beside(v)
  BY <1>1, <1>4 DEF Typed, RestTyped, Requests, Accept, Goto, Beside, SameVerifier, Same
<1>6. Typed'
  BY <1>1, <1>4 DEF Typed, RestTyped, Labels, VerifierLabels, Deciding, Instants, Row,
       Answers, Accept, Goto
<1>7. /\ pc[v] = "check" /\ pc'[v] = "user" /\ now' = now /\ dead' = dead
      /\ answer' = answer /\ otp' = otp /\ row' = row
  BY <1>1 DEF Typed, RestTyped, Accept, Goto
<1>8. Decides(v)'
  BY <1>2, <1>4, <1>7 DEF Decides, Active, Expires
<1>9. Consumes(v)'
  <2>1. AsUsed(v, r)'
    BY <1>2, <1>4, <1>7 DEF AsUsed, Active, x
  <2>2. \A u \in DOMAIN draft'[v] \ {r} : AsStored(v, u)'
    BY <1>1, <1>4, <1>7 DEF VerifierInv, AsStored
  <2> QED BY <1>7, <2>1, <2>2 DEF Consumes
<1>10. VerifierInv(v)' /\ ~Verified(v)'
  BY <1>1, <1>7, <1>8, <1>9 DEF VerifierInv, VerifierLabels, Deciding, Accepted, Verified,
       Expires
<1> QED BY <1>1, <1>4, <1>5, <1>6, <1>7, <1>10, QuietStep DEF Accept

\* What a step between accepting a code and answering keeps.
LEMMA AcceptedKept ==
    ASSUME IInv, NEW v \in Verifiers, pc[v] \in {"user", "insert", "respond"},
           pc'[v] \in Accepted,
           UNCHANGED <<otp, now, draft, row, dead>>,
           answer'[v] = IF pc'[v] = "commit" THEN "verified" ELSE answer[v]
    PROVE  VerifierInv(v)' /\ ~Verified(v)'
<1>1. Typed /\ VerifierInv(v)
  BY DEF IInv
<1>2. Decides(v) /\ Consumes(v)
  BY <1>1 DEF VerifierInv, Deciding, Accepted
<1>3. row[v] \in Codes \ dead[v]
  <2>1. row[v] \in Codes /\ Active(otp[row[v]], now[v]) /\ otp[row[v]] \in Row
    BY DecidingRow DEF Deciding
  <2>2. now[v] \in Int /\ Expires(otp[row[v]]) \in Int
    BY <1>1, <2>1, VerifierOnly, OtpSettingsAssumption
       DEF Typed, RestTyped, Row, Instants, Expires
  <2> QED BY <1>1, <2>1, <2>2 DEF VerifierInv, Active
<1>4. Decides(v)' /\ Consumes(v)'
  BY <1>2 DEF Decides, Consumes, AsUsed, AsStored, Active, Expires
<1>5. \A r \in dead'[v] : otp'[r].stored /\ (otp'[r].used \/ Expires(otp'[r]) <= now'[v])
  BY <1>1 DEF VerifierInv
<1>6. answer[v] # "verified"
  BY <1>1 DEF VerifierInv
<1> QED BY <1>1, <1>3, <1>4, <1>5, <1>6
        DEF VerifierInv, VerifierLabels, Deciding, Accepted, Verified, Expires

LEMMA FindUserStep ==
    ASSUME IInv, NEW v \in Verifiers, FindUser(v)
    PROVE  IInv'
<1>1. Typed /\ Separate /\ VerifierInv(v) /\ v \in Requests /\ v \notin Senders
  BY VerifierOnly DEF IInv
<1>2. Beside(v)
  BY <1>1 DEF Typed, RestTyped, Requests, FindUser, Goto, Beside, SameVerifier, Same
<1>3. Typed' /\ Separate'
  BY <1>1, SameLocks DEF Typed, RestTyped, Labels, VerifierLabels, Deciding, Instants, Row,
       Answers, FindUser, Goto
<1>4. /\ pc[v] = "user" /\ pc'[v] = (IF user = NoUser THEN "insert" ELSE "respond")
      /\ owner'[v] = user
      /\ \A w \in Verifiers \ {v} : pc'[w] = pc[w] /\ owner'[w] = owner[w]
      /\ answer' = answer /\ user' = user
  BY <1>1 DEF Typed, RestTyped, FindUser, Goto, Requests
<1>5. VerifierInv(v)' /\ ~Verified(v)'
  BY <1>4, AcceptedKept DEF FindUser, Accepted
<1>6. UserInv'
  <2>1. user # NoUser => user \in Verifiers /\ pc'[user] = "done" /\ user # v
    BY <1>1, <1>4 DEF IInv, UserInv, Typed, RestTyped
  <2>2. \A w \in Verifiers : InsertsUser(w)' => InsertsUser(w)
    BY <1>4, <2>1 DEF InsertsUser
  <2>3. \A w \in Verifiers : /\ Verified(w)' => owner'[w] = user' /\ user' # NoUser
    BY <1>4, <1>5 DEF IInv, UserInv, Verified
  <2>4. \A w \in Verifiers : pc'[w] \in {"respond", "commit"} =>
            owner'[w] # NoUser /\ (owner'[w] = user' \/ (owner'[w] = w /\ user' = NoUser))
    BY <1>4 DEF IInv, UserInv
  <2> QED BY <1>4, <2>1, <2>2, <2>3, <2>4 DEF IInv, UserInv
<1>7. Counted'
  BY <1>2, <1>4, CountedKept DEF IInv, FindUser, Beside, SameVerifier, Same
<1>8. \A r \in Codes : failures[r] <= failures'[r]
  BY <1>1 DEF Typed, RestTyped, FindUser
<1> QED BY <1>1, <1>2, <1>3, <1>4, <1>5, <1>6, <1>7, <1>8, UncommittedStep DEF FindUser

LEMMA InsertUserStep ==
    ASSUME IInv, NEW v \in Verifiers, InsertUser(v)
    PROVE  IInv'
<1>1. Typed /\ Separate /\ VerifierInv(v) /\ v \in Requests /\ v \notin Senders
  BY VerifierOnly DEF IInv
<1>2. Beside(v)
  BY <1>1 DEF Typed, RestTyped, Requests, InsertUser, Goto, Beside, SameVerifier, Same
<1>3. Typed' /\ Separate'
  BY <1>1, SameLocks DEF Typed, RestTyped, Labels, VerifierLabels, Deciding, Instants, Row,
       Answers, InsertUser, Goto
<1>4. /\ pc[v] = "insert" /\ pc'[v] = "respond" /\ owner'[v] = v
      /\ \A w \in Verifiers \ {v} : pc'[w] = pc[w] /\ owner'[w] = owner[w]
      /\ answer' = answer /\ user' = user /\ user = NoUser
      /\ \A w \in Verifiers \ {v} : ~InsertsUser(w)
  BY <1>1 DEF Typed, RestTyped, InsertUser, Goto, Requests
<1>5. VerifierInv(v)' /\ ~Verified(v)'
  BY <1>4, AcceptedKept DEF InsertUser, Accepted
<1>6. UserInv'
  <2>1. \A w \in Verifiers \ {v} : ~InsertsUser(w)'
    BY <1>4 DEF InsertsUser
  <2>2. \A w \in Verifiers : Verified(w)' => owner'[w] = user' /\ user' # NoUser
    BY <1>4, <1>5 DEF IInv, UserInv, Verified
  <2>3. \A w \in Verifiers : pc'[w] \in {"respond", "commit"} =>
            owner'[w] # NoUser /\ (owner'[w] = user' \/ (owner'[w] = w /\ user' = NoUser))
    BY <1>4, OtpNamesAssumption DEF IInv, UserInv
  <2> QED BY <1>4, <2>1, <2>2, <2>3 DEF UserInv
<1>7. Counted'
  BY <1>2, <1>4, CountedKept DEF IInv, InsertUser, Beside, SameVerifier, Same
<1>8. \A r \in Codes : failures[r] <= failures'[r]
  BY <1>1 DEF Typed, RestTyped, InsertUser
<1> QED BY <1>1, <1>2, <1>3, <1>4, <1>5, <1>6, <1>7, <1>8, UncommittedStep DEF InsertUser

LEMMA RespondVerifiedStep ==
    ASSUME IInv, NEW v \in Verifiers, RespondVerified(v)
    PROVE  IInv'
<1>1. Typed /\ Separate /\ VerifierInv(v) /\ v \in Requests /\ v \notin Senders
  BY VerifierOnly DEF IInv
<1>2. Beside(v)
  BY <1>1 DEF Typed, RestTyped, Requests, RespondVerified, Goto, Answer, Beside,
       SameVerifier, Same
<1>3. Typed' /\ Separate'
  BY <1>1, SameLocks DEF Typed, RestTyped, Labels, VerifierLabels, Deciding, Instants, Row,
       Answers, RespondVerified, Goto, Answer
<1>4. pc[v] = "respond" /\ pc'[v] = "commit" /\ answer'[v] = "verified"
  BY <1>1 DEF Typed, RestTyped, RespondVerified, Goto, Answer
<1>5. VerifierInv(v)' /\ ~Verified(v)'
  BY <1>4, AcceptedKept DEF RespondVerified, Accepted
<1> QED BY <1>1, <1>2, <1>3, <1>4, <1>5, QuietStep DEF RespondVerified

-----------------------------------------------------------------------------
(* The end of a request.                                                    *)

\* What a transaction that is rolled back leaves.
Undone(q) ==
    /\ Rollback(q)
    /\ \E result \in {"failed", "limited", "invalid", "error"} : Finish(q, result)
       \/ (Goto(q, "lost") /\ UNCHANGED answer)
    /\ targets' \in {targets, [targets EXCEPT ![q] = {}]}
    /\ UNCHANGED <<clock, user, now, row, entered, owner, mailed, dead>>

LEMMA UndoneKept ==
    ASSUME IInv, NEW q \in Requests, pc[q] \notin {"idle", "done", "lost"}, Undone(q),
           failures' \in [Codes -> Nat]
    PROVE  /\ Beside(q) /\ Typed' /\ Separate' /\ UserInv' /\ otp' = otp
           /\ q \in Senders => SenderInv(q)' /\ (pc'[q] = "done" => answer'[q] # "sent")
           /\ q \in Verifiers => VerifierInv(q)' /\ ~Verified(q)'
<1>1. Typed /\ Separate /\ otp' = otp
  BY DEF IInv, Undone, Rollback
<1>2. /\ DraftTyped' /\ Separate' /\ draft'[q] = Unlocked
      /\ \A p \in Requests \ {q} : draft'[p] = draft[p]
  BY <1>1, DropLocks DEF Undone, Rollback
<1>3. /\ pc'[q] \in {"done", "lost"}
      /\ pc'[q] = "done" => answer'[q] \notin {"sent", "verified"}
      /\ pc'[q] = "lost" => answer'[q] = answer[q]
      /\ answer'[q] \in Answers
      /\ \A p \in Requests \ {q} : /\ pc'[p] = pc[p] /\ answer'[p] = answer[p]
                                   /\ targets'[p] = targets[p]
      /\ pc' \in [Requests -> Labels] /\ answer' \in [Requests -> Answers]
      /\ targets' \in [Requests -> SUBSET Codes]
  BY <1>1 DEF Typed, RestTyped, Undone, Finish, Goto, Answer, Labels, SenderLabels, Answers
<1>4. Beside(q)
  BY <1>2, <1>3 DEF Undone, Beside, SameVerifier, Same, Requests
<1>5. Typed'
  BY <1>1, <1>2, <1>3 DEF Typed, RestTyped, Labels, SenderLabels, VerifierLabels, Deciding,
       Answers, Instants, Row, Undone
<1>6. q \in Senders => SenderInv(q)'
  BY <1>2, <1>3 DEF SenderInv, SenderLabels, Unlocked
<1>7. q \in Verifiers => VerifierInv(q)' /\ ~Verified(q)'
  <2> SUFFICES ASSUME q \in Verifiers PROVE VerifierInv(q)' /\ ~Verified(q)'
    OBVIOUS
  <2>1. VerifierInv(q) /\ now' = now /\ dead' = dead /\ row' = row /\ otp' = otp
    BY <1>1 DEF IInv, Undone
  <2>2. Unlocked' = Unlocked
    BY DEF Unlocked
  <2> QED BY <1>2, <1>3, <2>1, <2>2 DEF VerifierInv, VerifierLabels, Deciding, Accepted,
             Verified, Expires
<1>8. UserInv'
  BY <1>3, <1>4, <1>7, UserKept DEF Undone
<1> QED BY <1>1, <1>2, <1>3, <1>4, <1>5, <1>6, <1>7, <1>8

LEMMA UndoneStep ==
    ASSUME IInv, NEW q \in Requests, pc[q] \notin {"idle", "done", "lost"}, Undone(q),
           failures' = failures
    PROVE  IInv'
<1>1. failures' \in [Codes -> Nat]
  BY DEF IInv, Typed, RestTyped
<1>2. /\ Beside(q) /\ Typed' /\ Separate' /\ UserInv' /\ otp' = otp
      /\ q \in Senders => SenderInv(q)' /\ (pc'[q] = "done" => answer'[q] # "sent")
      /\ q \in Verifiers => VerifierInv(q)' /\ ~Verified(q)'
  BY <1>1, UndoneKept
<1>3. Counted'
  BY <1>2, CountedKept DEF IInv, Beside, SameVerifier, Same
<1>4. mailed \subseteq mailed' /\ \A r \in Codes : failures[r] <= failures'[r]
  BY DEF IInv, Typed, RestTyped, Undone
<1> QED BY <1>2, <1>3, <1>4, UncommittedStep

LEMMA RaiseStep ==
    ASSUME IInv, NEW v \in Verifiers, Raise(v)
    PROVE  IInv'
<1>1. Typed /\ Separate /\ VerifierInv(v) /\ v \in Requests /\ pc[v] = "raise"
  BY VerifierOnly DEF IInv, Raise
<1>2. row[v] \in Codes
  BY <1>1, DecidingRow DEF Deciding
<1>3. Undone(v)
  BY DEF Raise, Undone
<1>4. /\ failures' \in [Codes -> Nat]
      /\ failures'[row[v]] = failures[row[v]] + 1
      /\ \A r \in Codes \ {row[v]} : failures'[r] = failures[r]
      /\ \A r \in Codes : failures[r] <= failures'[r]
  BY <1>1, <1>2 DEF Typed, RestTyped, Raise
<1>5. /\ Beside(v) /\ Typed' /\ Separate' /\ UserInv' /\ otp' = otp
      /\ v \in Senders => SenderInv(v)' /\ (pc'[v] = "done" => answer'[v] # "sent")
      /\ VerifierInv(v)' /\ ~Verified(v)'
  BY <1>1, <1>3, <1>4, UndoneKept
<1>6. pc'[v] = "done" /\ row' = row
  BY <1>1 DEF Typed, RestTyped, Raise, Finish, Goto
<1>7. Counted'
  <2> SUFFICES ASSUME NEW r \in Codes PROVE failures'[r] <= Cardinality(Failed(r)')
    BY DEF Counted
  <2>1. /\ failures[r] \in Nat /\ Cardinality(Failed(r)) \in Nat
        /\ failures[r] <= Cardinality(Failed(r)) /\ IsFiniteSet(Failed(r))
    BY <1>1, FailedFinite DEF IInv, Counted, Typed, RestTyped
  <2>2. CASE r = row[v]
    <3>1. v \notin Failed(r) /\ Failed(r)' = Failed(r) \cup {v}
      BY <1>1, <1>5, <1>6, <2>2 DEF Failed, Beside, SameVerifier, Same
    <3>2. Cardinality(Failed(r)') = Cardinality(Failed(r)) + 1
      BY <2>1, <3>1, FS_AddElement
    <3> QED BY <1>4, <2>1, <2>2, <3>2
  <2>3. CASE r # row[v]
    <3>1. Failed(r)' = Failed(r)
      BY <1>1, <1>5, <1>6, <2>3 DEF Failed, Beside, SameVerifier, Same
    <3> QED BY <1>4, <2>1, <2>3, <3>1
  <2> QED BY <2>2, <2>3
<1>8. mailed \subseteq mailed' /\ pc[v] # "done"
  BY <1>1 DEF Raise
<1> QED BY <1>1, <1>4, <1>5, <1>7, <1>8, UncommittedStep

LEMMA VictimWaits ==
    ASSUME NEW q \in Requests, DeadlockVictim(q)
    PROVE  pc[q] \in {"mark", "lock"}
<1>1. PICK S \in SUBSET Requests :
        /\ q \in S
        /\ \E z \in S \ {q} : Wanted[q] \cap DOMAIN draft[z] # {}
  BY DEF DeadlockVictim, InCircle
<1>2. Wanted[q] # {}
  BY <1>1
<1> QED BY <1>2 DEF Wanted

LEMMA MailFailsStep ==
    ASSUME IInv, NEW q \in Senders, MailFails(q)
    PROVE  IInv'
<1>1. q \in Requests /\ pc[q] = "mail" /\ failures' = failures /\ Undone(q)
  BY SenderOnly DEF MailFails, Undone
<1> QED BY <1>1, UndoneStep

LEMMA NoActiveCodeStep ==
    ASSUME IInv, NEW v \in Verifiers, NoActiveCode(v)
    PROVE  IInv'
<1>1. v \in Requests /\ pc[v] = "lock" /\ failures' = failures /\ Undone(v)
  BY VerifierOnly DEF NoActiveCode, Undone
<1> QED BY <1>1, UndoneStep

LEMMA UserExistsStep ==
    ASSUME IInv, NEW v \in Verifiers, UserExists(v)
    PROVE  IInv'
<1>1. v \in Requests /\ pc[v] = "insert" /\ failures' = failures /\ Undone(v)
  BY VerifierOnly DEF UserExists, Undone
<1> QED BY <1>1, UndoneStep

LEMMA DeadlockVictimStep ==
    ASSUME IInv, NEW q \in Requests, DeadlockVictim(q)
    PROVE  IInv'
<1>1. pc[q] \in {"mark", "lock"}
  BY VictimWaits
<1>2. failures' = failures /\ Undone(q)
  BY DEF DeadlockVictim, Undone
<1> QED BY <1>1, <1>2, UndoneStep

LEMMA LoseStep ==
    ASSUME IInv, NEW q \in Requests, Lose(q)
    PROVE  IInv'
<1>1. pc[q] \notin {"idle", "done", "lost"} /\ failures' = failures /\ Undone(q)
  BY DEF Lose, Undone
<1> QED BY <1>1, UndoneStep

\* A commit stores what the transaction has written and gives up its locks.
LEMMA Committed ==
    ASSUME IInv, NEW q \in Requests, CommitRequest(q)
    PROVE  /\ Beside(q) /\ Separate' /\ draft'[q] = Unlocked
           /\ pc[q] = "commit" /\ pc'[q] = "done"
           /\ row' = row /\ answer' = answer
           /\ \A r \in DOMAIN draft[q] : otp'[r] = draft[q][r]
           /\ \A r \in Codes \ DOMAIN draft[q] : otp'[r] = otp[r]
           /\ \A p \in Requests \ {q} : \A r \in DOMAIN draft[p] : otp'[r] = otp[r]
           /\ DraftTyped' /\ otp' \in [Codes -> Row]
<1>1. Typed /\ Separate
  BY DEF IInv
<1>2. /\ DraftTyped' /\ Separate' /\ draft'[q] = Unlocked
      /\ \A p \in Requests \ {q} : draft'[p] = draft[p]
  BY <1>1, DropLocks DEF CommitRequest, Commit
<1>3. otp' = [r \in Codes |-> Seen(q, r)]
  BY DEF CommitRequest, Commit
<1>4. DOMAIN draft[q] \subseteq Codes /\ \A r \in DOMAIN draft[q] : draft[q][r] \in Row
  BY <1>1 DEF Typed, DraftTyped
<1>5. /\ \A r \in DOMAIN draft[q] : otp'[r] = draft[q][r]
      /\ \A r \in Codes \ DOMAIN draft[q] : otp'[r] = otp[r]
  BY <1>3, <1>4 DEF Seen
<1>6. otp' \in [Codes -> Row]
  BY <1>1, <1>3, <1>4 DEF Seen, Typed, RestTyped
<1>7. \A p \in Requests \ {q} : \A r \in DOMAIN draft[p] : otp'[r] = otp[r]
  BY <1>1, <1>5 DEF Separate, Typed, DraftTyped
<1>8. /\ pc[q] = "commit" /\ pc'[q] = "done" /\ row' = row /\ answer' = answer
      /\ Beside(q)
  BY <1>1, <1>2 DEF Typed, RestTyped, Requests, CommitRequest, Goto, Beside, SameVerifier,
     Same
<1> QED BY <1>2, <1>5, <1>6, <1>7, <1>8

LEMMA CommittedTyped ==
    ASSUME IInv, NEW q \in Requests, CommitRequest(q)
    PROVE  Typed' /\ Counted'
<1>1. Typed /\ Beside(q) /\ pc[q] = "commit" /\ DraftTyped' /\ otp' \in [Codes -> Row]
  BY Committed DEF IInv
<1>2. Typed'
  BY <1>1 DEF Typed, RestTyped, Labels, SenderLabels, Instants, Row, Answers, CommitRequest,
     Goto
<1>3. \A v \in Verifiers : pc[v] = "done" => pc'[v] = "done" /\ row'[v] = row[v]
  BY <1>1 DEF Beside, SameVerifier, Same
<1>4. Counted'
  BY <1>1, <1>3, CountedKept DEF IInv, CommitRequest
<1> QED BY <1>2, <1>4

\* The commit of a request for a code stores it, and marks the codes that the
\* request has locked.
LEMMA SenderCommits ==
    ASSUME IInv, NEW q \in Senders, CommitRequest(q)
    PROVE  /\ Creates(q) /\ answer[q] = "sent" /\ row[q] \in mailed /\ row[q] \in Codes
           /\ mailed' = mailed /\ failures' = failures /\ user' = user
           /\ otp'[row[q]] = NewRow(now[q])
           /\ \A r \in DOMAIN draft[q] \ {row[q]} :
                 otp[r].stored /\ otp'[r] = [otp[r] EXCEPT !.used = TRUE]
           /\ \A r \in Codes :
                /\ otp[r].stored => /\ otp'[r].stored /\ otp'[r].created = otp[r].created
                                    /\ otp[r].used => otp'[r].used
                /\ otp'[r].stored => otp[r].stored \/ r = row[q]
                /\ otp'[r].used => otp[r].used \/ (r \in DOMAIN draft[q] /\ r # row[q])
<1>1. Typed /\ Separate /\ SenderInv(q) /\ q \in Requests /\ q \notin Verifiers
  BY SenderOnly DEF IInv
<1>2. /\ Beside(q) /\ Separate' /\ draft'[q] = Unlocked
      /\ pc[q] = "commit" /\ pc'[q] = "done"
      /\ row' = row /\ answer' = answer
      /\ \A r \in DOMAIN draft[q] : otp'[r] = draft[q][r]
      /\ \A r \in Codes \ DOMAIN draft[q] : otp'[r] = otp[r]
      /\ \A p \in Requests \ {q} : \A r \in DOMAIN draft[p] : otp'[r] = otp[r]
  BY <1>1, Committed
<1>3. /\ Creates(q) /\ answer[q] = "sent" /\ row[q] \in mailed /\ row[q] \in Codes
      /\ mailed' = mailed /\ failures' = failures /\ user' = user
  BY <1>1, <1>2 DEF SenderInv, CommitRequest, Creates, Typed, DraftTyped
<1>4. /\ otp'[row[q]] = NewRow(now[q])
      /\ \A r \in DOMAIN draft[q] \ {row[q]} :
            otp[r].stored /\ otp'[r] = [otp[r] EXCEPT !.used = TRUE]
  BY <1>2, <1>3 DEF Creates, AsUsed
<1>5. ASSUME NEW r \in Codes
      PROVE  /\ otp[r].stored => /\ otp'[r].stored /\ otp'[r].created = otp[r].created
                                 /\ otp[r].used => otp'[r].used
             /\ otp'[r].stored => otp[r].stored \/ r = row[q]
             /\ otp'[r].used => otp[r].used \/ (r \in DOMAIN draft[q] /\ r # row[q])
  <2>0. otp[r] \in Row
    BY <1>1 DEF Typed, RestTyped
  <2>1. CASE r = row[q]
    BY <1>3, <1>4, <2>1 DEF Creates, NewRow
  <2>2. CASE r \in DOMAIN draft[q] \ {row[q]}
    BY <1>4, <2>0, <2>2 DEF Row
  <2>3. CASE r \notin DOMAIN draft[q]
    BY <1>2, <2>3
  <2> QED BY <2>1, <2>2, <2>3
<1> QED BY <1>3, <1>4, <1>5

LEMMA CommitSender ==
    ASSUME IInv, NEW q \in Senders, CommitRequest(q)
    PROVE  IInv'
<1>1. Typed /\ Separate /\ SenderInv(q) /\ q \in Requests /\ q \notin Verifiers
  BY SenderOnly DEF IInv
<1>2. /\ Beside(q) /\ Separate' /\ draft'[q] = Unlocked
      /\ pc[q] = "commit" /\ pc'[q] = "done"
      /\ row' = row /\ answer' = answer
      /\ \A r \in DOMAIN draft[q] : otp'[r] = draft[q][r]
      /\ \A r \in Codes \ DOMAIN draft[q] : otp'[r] = otp[r]
      /\ \A p \in Requests \ {q} : \A r \in DOMAIN draft[p] : otp'[r] = otp[r]
  BY <1>1, Committed
<1>3. /\ Creates(q) /\ answer[q] = "sent" /\ row[q] \in mailed /\ row[q] \in Codes
      /\ mailed' = mailed /\ failures' = failures /\ user' = user
  BY SenderCommits
<1>4. /\ otp'[row[q]] = NewRow(now[q])
      /\ \A r \in DOMAIN draft[q] \ {row[q]} :
            otp[r].stored /\ otp'[r] = [otp[r] EXCEPT !.used = TRUE]
  BY SenderCommits
<1>5. ASSUME NEW r \in Codes
      PROVE  /\ otp[r].stored => /\ otp'[r].stored /\ otp'[r].created = otp[r].created
                                 /\ otp[r].used => otp'[r].used
             /\ otp'[r].stored => otp[r].stored \/ r = row[q]
             /\ otp'[r].used => otp[r].used \/ (r \in DOMAIN draft[q] /\ r # row[q])
  BY SenderCommits
<1>6. Grows /\ Typed' /\ Counted'
  BY <1>1, <1>5, CommittedTyped DEF Grows
<1>7. \A p \in Senders \ {q} : SenderInv(p)'
  BY <1>1, <1>2, <1>3, <1>6, SenderOnly, SenderKept DEF IInv, Beside
<1>8. SenderInv(q)'
  <2>1. otp'[row'[q]].stored
    BY <1>2, <1>4 DEF NewRow
  <2> QED BY <1>2, <1>3, <2>1 DEF SenderInv, SenderLabels, Unlocked
<1>9. \A v \in Verifiers : VerifierInv(v)'
  BY <1>1, <1>2, <1>6, VerifierOnly, VerifierKept DEF IInv, Beside
<1>10. UserInv'
  BY <1>1, <1>2, <1>3, UserKept
<1>11. StoredWasMailed'
  BY <1>3, <1>5 DEF IInv, StoredWasMailed
<1>12. \A v \in Verifiers : (Verified(v)' <=> Verified(v)) /\ row'[v] = row[v]
  BY <1>1, <1>2 DEF Beside, SameVerifier, Same, Verified
<1>13. UsedForAReason'
  <2> SUFFICES ASSUME NEW r \in Codes, otp'[r].used
               PROVE  \/ \E v \in Verifiers : Verified(v)' /\ row'[v] = r
                      \/ \E p \in Senders : /\ answer'[p] = "sent" /\ pc'[p] = "done"
                                            /\ row'[p] # r /\ otp'[row'[p]].stored
                      \/ failures'[r] >= MaxAttempts
    BY DEF UsedForAReason
  <2>1. CASE r \in DOMAIN draft[q] /\ r # row[q]
    BY <1>2, <1>3, <1>4, <2>1 DEF NewRow
  <2>2. CASE otp[r].used
    <3>1. CASE \E v \in Verifiers : Verified(v) /\ row[v] = r
      BY <1>12, <3>1 DEF Verified
    <3>2. CASE \E p \in Senders : /\ answer[p] = "sent" /\ pc[p] = "done"
                                 /\ row[p] # r /\ otp[row[p]].stored
      <4>1. PICK p \in Senders : /\ answer[p] = "sent" /\ pc[p] = "done"
                                 /\ row[p] # r /\ otp[row[p]].stored
        BY <3>2
      <4>2. p # q /\ SenderInv(p)
        BY <1>2, <4>1 DEF IInv
      <4>3. pc'[p] = pc[p] /\ row[p] \in Codes
        BY <1>2, <4>1, <4>2 DEF Beside, Same, SenderInv
      <4> QED BY <1>2, <1>5, <4>1, <4>3
    <3> QED BY <1>3, <2>2, <3>1, <3>2 DEF IInv, UsedForAReason
  <2> QED BY <1>5, <2>1, <2>2
<1>14. ConsumedOnce'
  BY <1>12 DEF IInv, ConsumedOnce, Verified
<1> QED BY <1>2, <1>6, <1>7, <1>8, <1>9, <1>10, <1>11, <1>13, <1>14 DEF IInv

\* The commit of a verification marks its code, which nobody has used, and
\* changes no other.
LEMMA VerifierCommits ==
    ASSUME IInv, NEW q \in Verifiers, CommitRequest(q)
    PROVE  /\ Consumes(q) /\ answer[q] = "verified" /\ row[q] \in Codes
           /\ row[q] \in DOMAIN draft[q] /\ Active(otp[row[q]], now[q])
           /\ mailed' = mailed /\ failures' = failures /\ user' = owner[q] /\ owner' = owner
           /\ now' = now /\ dead' = dead
           /\ \A r \in Codes \ {row[q]} : otp'[r] = otp[r]
           /\ otp'[row[q]].stored /\ otp'[row[q]].used
           /\ otp'[row[q]].created = otp[row[q]].created
<1>1. Typed /\ Separate /\ VerifierInv(q) /\ q \in Requests /\ q \notin Senders
  BY VerifierOnly DEF IInv
<1>2. /\ Beside(q) /\ Separate' /\ draft'[q] = Unlocked
      /\ pc[q] = "commit" /\ pc'[q] = "done"
      /\ row' = row /\ answer' = answer
      /\ \A r \in DOMAIN draft[q] : otp'[r] = draft[q][r]
      /\ \A r \in Codes \ DOMAIN draft[q] : otp'[r] = otp[r]
      /\ \A p \in Requests \ {q} : \A r \in DOMAIN draft[p] : otp'[r] = otp[r]
  BY <1>1, Committed
<1>3. /\ Consumes(q) /\ answer[q] = "verified" /\ row[q] \in Codes
      /\ row[q] \in DOMAIN draft[q] /\ Active(otp[row[q]], now[q])
      /\ mailed' = mailed /\ failures' = failures /\ user' = owner[q] /\ owner' = owner
      /\ now' = now /\ dead' = dead
  BY <1>1, <1>2 DEF VerifierInv, CommitRequest, Decides, Deciding, Accepted
<1>4. /\ otp'[row[q]] = [otp[row[q]] EXCEPT !.used = TRUE]
      /\ \A r \in DOMAIN draft[q] \ {row[q]} : otp'[r] = otp[r]
  BY <1>2, <1>3 DEF Consumes, AsUsed, AsStored
<1>5. /\ \A r \in Codes \ {row[q]} : otp'[r] = otp[r]
      /\ otp'[row[q]].stored /\ otp'[row[q]].used
      /\ otp'[row[q]].created = otp[row[q]].created
  <2>1. otp[row[q]] \in Row
    BY <1>1, <1>3 DEF Typed, RestTyped
  <2> QED BY <1>2, <1>3, <1>4, <2>1 DEF Row, Active
<1> QED BY <1>3, <1>5

LEMMA CommitVerifier ==
    ASSUME IInv, NEW q \in Verifiers, CommitRequest(q)
    PROVE  IInv'
<1>1. Typed /\ Separate /\ VerifierInv(q) /\ q \in Requests /\ q \notin Senders
  BY VerifierOnly DEF IInv
<1>2. /\ Beside(q) /\ Separate' /\ draft'[q] = Unlocked
      /\ pc[q] = "commit" /\ pc'[q] = "done"
      /\ row' = row /\ answer' = answer
      /\ \A r \in DOMAIN draft[q] : otp'[r] = draft[q][r]
      /\ \A r \in Codes \ DOMAIN draft[q] : otp'[r] = otp[r]
      /\ \A p \in Requests \ {q} : \A r \in DOMAIN draft[p] : otp'[r] = otp[r]
  BY <1>1, Committed
<1>3. /\ Consumes(q) /\ answer[q] = "verified" /\ row[q] \in Codes
      /\ row[q] \in DOMAIN draft[q] /\ ~otp[row[q]].used /\ otp[row[q]].stored
      /\ mailed' = mailed /\ failures' = failures /\ user' = owner[q] /\ owner' = owner
      /\ now' = now /\ dead' = dead
  BY VerifierCommits DEF Active
<1>5. /\ \A r \in Codes \ {row[q]} : otp'[r] = otp[r]
      /\ otp'[row[q]].stored /\ otp'[row[q]].used
      /\ otp'[row[q]].created = otp[row[q]].created
  BY VerifierCommits
<1>6. Grows /\ Typed' /\ Counted'
  BY <1>1, <1>3, <1>5, CommittedTyped DEF Grows
<1>7. \A p \in Senders : SenderInv(p)'
  BY <1>1, <1>2, <1>3, <1>6, SenderOnly, SenderKept DEF IInv, Beside
<1>8. \A v \in Verifiers \ {q} : VerifierInv(v)'
  BY <1>1, <1>2, <1>6, VerifierOnly, VerifierKept DEF IInv, Beside
<1>9. VerifierInv(q)'
  <2>1. row[q] \in Codes \ dead[q]
    BY <1>1, <1>3 DEF VerifierInv
  <2>2. \A r \in dead'[q] : otp'[r].stored /\ (otp'[r].used \/ Expires(otp'[r]) <= now'[q])
    BY <1>1, <1>3, <1>5, <2>1 DEF VerifierInv, Typed, RestTyped
  <2> QED BY <1>2, <1>3, <1>5, <2>1, <2>2
          DEF VerifierInv, VerifierLabels, Deciding, Accepted, Verified, Unlocked
<1>10. \A v \in Verifiers \ {q} : (Verified(v)' <=> Verified(v)) /\ pc'[v] = pc[v]
  BY <1>2 DEF Beside, SameVerifier, Same, Verified
<1>11. Verified(q)' /\ ~Verified(q)
  BY <1>2, <1>3 DEF Verified
<1>12. UserInv'
  <2>1. owner[q] # NoUser /\ (owner[q] = user \/ (owner[q] = q /\ user = NoUser))
    BY <1>2 DEF IInv, UserInv
  <2>2. CASE owner[q] = user
    <3>1. user' = user /\ user # NoUser
      BY <1>3, <2>1, <2>2
    <3>2. pc'[user] = "done"
      BY <1>1, <1>2, <1>10, <3>1 DEF IInv, UserInv, Typed, RestTyped
    <3>3. \A v \in Verifiers : InsertsUser(v)' => InsertsUser(v)
      BY <1>2, <1>3, <1>10 DEF InsertsUser
    <3>4. \A v \in Verifiers : Verified(v)' => owner[v] = user
      BY <1>10, <2>2 DEF IInv, UserInv
    <3>5. \A v \in Verifiers : pc'[v] \in {"respond", "commit"} =>
            owner[v] # NoUser /\ (owner[v] = user \/ (owner[v] = v /\ user = NoUser))
      BY <1>2, <1>10 DEF IInv, UserInv
    <3> QED BY <1>3, <3>1, <3>2, <3>3, <3>4, <3>5 DEF IInv, UserInv
  <2>3. CASE owner[q] = q /\ user = NoUser
    <3>1. \A v \in Verifiers \ {q} : pc[v] \notin {"respond", "commit"} /\ ~Verified(v)
      BY <1>2, <2>3 DEF IInv, UserInv, InsertsUser
    <3>2. user' = q /\ q # NoUser
      BY <1>3, <2>1, <2>3
    <3>3. \A v \in Verifiers : ~InsertsUser(v)' /\ pc'[v] \notin {"respond", "commit"}
      BY <1>2, <1>10, <3>1 DEF InsertsUser
    <3>4. \A v \in Verifiers : Verified(v)' => owner'[v] = q
      BY <1>3, <1>10, <2>3, <3>1
    <3> QED BY <1>2, <3>2, <3>3, <3>4 DEF UserInv
  <2> QED BY <2>1, <2>2, <2>3
<1>13. StoredWasMailed'
  BY <1>3, <1>5 DEF IInv, StoredWasMailed
<1>14. UsedForAReason'
  <2> SUFFICES ASSUME NEW r \in Codes, otp'[r].used
               PROVE  \/ \E v \in Verifiers : Verified(v)' /\ row'[v] = r
                      \/ \E p \in Senders : /\ answer'[p] = "sent" /\ pc'[p] = "done"
                                            /\ row'[p] # r /\ otp'[row'[p]].stored
                      \/ failures'[r] >= MaxAttempts
    BY DEF UsedForAReason
  <2>1. CASE r = row[q]
    BY <1>2, <1>11, <2>1 DEF Verified
  <2>2. CASE r # row[q]
    <3>0. otp[r].used
      BY <1>5, <2>2
    <3>1. CASE \E v \in Verifiers : Verified(v) /\ row[v] = r
      BY <1>2, <1>10, <1>11, <3>1 DEF Verified
    <3>2. CASE \E p \in Senders : /\ answer[p] = "sent" /\ pc[p] = "done"
                                 /\ row[p] # r /\ otp[row[p]].stored
      <4>1. PICK p \in Senders : /\ answer[p] = "sent" /\ pc[p] = "done"
                                 /\ row[p] # r /\ otp[row[p]].stored
        BY <3>2
      <4>2. pc'[p] = pc[p] /\ row[p] \in Codes
        BY <1>1, <1>2, <4>1 DEF IInv, Beside, Same, SenderInv
      <4> QED BY <1>2, <1>6, <4>1, <4>2 DEF Grows
    <3> QED BY <1>3, <3>0, <3>1, <3>2 DEF IInv, UsedForAReason
  <2> QED BY <2>1, <2>2
<1>15. ConsumedOnce'
  <2>1. \A v \in Verifiers : Verified(v) => row[v] # row[q]
    BY <1>3 DEF IInv, VerifierInv
  <2> QED BY <1>2, <1>10, <1>11, <2>1 DEF IInv, ConsumedOnce, Verified
<1> QED BY <1>2, <1>6, <1>7, <1>8, <1>9, <1>12, <1>13, <1>14, <1>15 DEF IInv

-----------------------------------------------------------------------------
(* The invariance.                                                          *)

\* Nothing depends on the clock but the requests that read it.
LEMMA ClockStep ==
    ASSUME IInv, clock' \in Instants,
           UNCHANGED <<otp, user, pc, now, draft, targets, row, entered, owner, answer,
                       mailed, failures, dead>>
    PROVE  IInv'
<1>1. Grows /\ Typed /\ Separate
  BY DEF Grows, IInv
<1>2. Typed' /\ Separate'
  BY <1>1, SameLocks DEF Typed, RestTyped, Labels, Instants, Row, Answers
<1>3. \A p \in Senders : SenderInv(p)'
  BY <1>1, SenderKept DEF IInv, Same
<1>4. \A v \in Verifiers : VerifierInv(v)'
  BY <1>1, VerifierKept DEF IInv, SameVerifier, Same
<1>5. UserInv'
  BY DEF IInv, UserInv, Verified, InsertsUser
<1>6. Counted'
  BY <1>1, CountedKept DEF IInv
<1>7. StoredWasMailed' /\ UsedForAReason' /\ ConsumedOnce'
  BY DEF IInv, StoredWasMailed, UsedForAReason, ConsumedOnce, Verified
<1> QED BY <1>2, <1>3, <1>4, <1>5, <1>6, <1>7 DEF IInv

LEMMA InitInvariant == Init => IInv
<1> SUFFICES ASSUME Init PROVE IInv
  OBVIOUS
<1>1. /\ \A q \in Requests : /\ pc[q] = "idle" /\ draft[q] = Unlocked
                             /\ answer[q] = "none" /\ targets[q] = {}
      /\ \A r \in Codes : ~otp[r].stored /\ ~otp[r].used /\ failures[r] = 0
      /\ \A q \in Requests : dead[q] = {}
      /\ \A v \in Verifiers : owner[v] = NoUser
      /\ user = NoUser
  BY DEF Init, NoRow, Requests
<1>2. DraftTyped /\ Separate
  BY <1>1, UnlockedEmpty DEF Init, DraftTyped, Separate
<1>3. RestTyped
  BY OtpSettingsAssumption
     DEF Init, RestTyped, Labels, SenderLabels, Answers, Instants, Row, NoRow
<1>4. \A q \in Senders : SenderInv(q)
  BY <1>1, SenderOnly DEF SenderInv, SenderLabels
<1>5. \A v \in Verifiers : VerifierInv(v)
  BY <1>1, VerifierOnly DEF VerifierInv, VerifierLabels, Deciding, Accepted, Verified
<1>6. UserInv
  BY <1>1, VerifierOnly DEF UserInv, Verified, InsertsUser
<1>7. Counted
  BY <1>1, FailedFinite DEF Counted
<1>8. StoredWasMailed /\ UsedForAReason /\ ConsumedOnce
  BY <1>1, VerifierOnly DEF StoredWasMailed, UsedForAReason, ConsumedOnce, Verified
<1> QED BY <1>2, <1>3, <1>4, <1>5, <1>6, <1>7, <1>8 DEF IInv, Typed

LEMMA NextInvariant == IInv /\ [Next]_vars => IInv'
<1> SUFFICES ASSUME IInv, [Next]_vars PROVE IInv'
  OBVIOUS
<1>1. CASE UNCHANGED vars
  <2>1. clock' \in Instants
    BY <1>1 DEF vars, IInv, Typed, RestTyped, Instants
  <2> QED BY <1>1, <2>1, ClockStep DEF vars
<1>2. CASE Tick
  <2>1. clock' \in Instants
    BY <1>2, OtpSettingsAssumption DEF Tick, IInv, Typed, RestTyped, Instants
  <2> QED BY <1>2, <2>1, ClockStep DEF Tick
<1>3. ASSUME NEW q \in Senders, BeginRequest(q) \/ Send(q) PROVE IInv'
  BY <1>3, BeginRequestStep, CountRecentStep, ScanUnusedStep, MarkUsedStep, CreateCodeStep,
     MailFailsStep, MailSentStep DEF Send
<1>4. ASSUME NEW v \in Verifiers, BeginVerify(v) \/ Verify(v) PROVE IInv'
  BY <1>4, BeginVerifyStep, SelectActiveStep, LockCodeStep, NoActiveCodeStep,
     FailAttemptStep, RaiseStep, AcceptStep, FindUserStep, InsertUserStep, UserExistsStep,
     RespondVerifiedStep DEF Verify
<1>5. ASSUME NEW q \in Requests, End(q) \/ Lose(q) PROVE IInv'
  BY <1>5, CommitSender, CommitVerifier, DeadlockVictimStep, LoseStep DEF End, Requests
<1> QED BY <1>1, <1>2, <1>3, <1>4, <1>5 DEF Next

LEMMA Invariance == Spec => []IInv
BY InitInvariant, NextInvariant, PTL DEF Spec

-----------------------------------------------------------------------------
(* The theorems.                                                            *)

LEMMA FailuresBounded ==
    ASSUME IInv
    PROVE  failures \in [Codes -> 0 .. Cardinality(Verifiers)]
<1>1. ASSUME NEW r \in Codes PROVE failures[r] \in 0 .. Cardinality(Verifiers)
  <2>1. Failed(r) \in SUBSET Verifiers
    BY DEF Failed
  <2>2. Cardinality(Failed(r)) <= Cardinality(Verifiers) /\ Cardinality(Verifiers) \in Nat
    BY <2>1, OtpNamesAssumption, FS_Subset, FS_CardinalityType
  <2> QED BY <2>2, FailedFinite DEF IInv, Counted, Typed, RestTyped
<1> QED BY <1>1 DEF IInv, Typed, RestTyped

\* Every variable of the one-time codes keeps its type, a failed attempt is
\* counted once per verification, and no row is locked by two transactions.
THEOREM TypeCorrect == Spec => []TypeOK
<1>1. IInv => TypeOK
  <2> SUFFICES ASSUME IInv PROVE TypeOK
    OBVIOUS
  <2>1. failures \in [Codes -> 0 .. Cardinality(Verifiers)]
    BY FailuresBounded
  <2>2. pc \in [Requests -> {"idle", "count", "scan", "mark", "mail", "select", "lock",
                             "check", "raise", "user", "insert", "respond", "commit",
                             "done", "lost"}]
    BY DEF IInv, Typed, RestTyped, Labels, SenderLabels, VerifierLabels, Deciding
  <2>3. \A q \in Requests : /\ DOMAIN draft[q] \subseteq Codes
                            /\ \A r \in DOMAIN draft[q] : draft[q][r] \in Row
                            /\ \A p \in Requests \ {q} :
                                 DOMAIN draft[q] \cap DOMAIN draft[p] = {}
    BY DEF IInv, Typed, DraftTyped, Separate
  <2> QED BY <2>1, <2>2, <2>3 DEF IInv, Typed, DraftTyped, RestTyped, TypeOK, Answers
<1> QED BY <1>1, Invariance, PTL

\* verify_otp opens at most one session with a code, however many verifications
\* enter it at once and whatever is lost or rolled back on the way.
THEOREM ConsumedOnceAlways == Spec => []ConsumedOnce
<1>1. IInv => ConsumedOnce
  BY DEF IInv
<1> QED BY <1>1, Invariance, PTL

\* verify_otp never accepts a code that was used or had expired when it began.
THEOREM DeadCodeRefusedAlways == Spec => []DeadCodeRefused
<1>1. IInv => DeadCodeRefused
  BY DEF IInv, VerifierInv, DeadCodeRefused
<1> QED BY <1>1, Invariance, PTL

\* request_otp leaves a code in the table only if it was mailed.
THEOREM StoredWasMailedAlways == Spec => []StoredWasMailed
<1>1. IInv => StoredWasMailed
  BY DEF IInv
<1> QED BY <1>1, Invariance, PTL

\* A code is used up only because it was accepted, because a request has stored
\* and mailed another, or because it failed too often.
THEOREM UsedForAReasonAlways == Spec => []UsedForAReason
<1>1. IInv => UsedForAReason
  BY DEF IInv
<1> QED BY <1>1, Invariance, PTL

\* get_or_create_by_email gives all sessions of an address to one user.
THEOREM OneUserAlways == Spec => []OneUser
<1>1. IInv => OneUser
  BY DEF IInv, UserInv, OneUser
<1> QED BY <1>1, Invariance, PTL

-----------------------------------------------------------------------------
(* Waiting.                                                                 *)

\* Rows are locked by requests that have not ended.
LEMMA HolderInProgress ==
    ASSUME IInv, NEW q \in Requests, NEW r \in DOMAIN draft[q]
    PROVE  InProgress(q)
<1>1. CASE q \in Senders
  BY <1>1, UnlockedEmpty DEF IInv, SenderInv, SenderLabels, InProgress
<1>2. CASE q \in Verifiers
  BY <1>2, UnlockedEmpty DEF IInv, VerifierInv, VerifierLabels, Deciding, InProgress
<1>3. QED
  BY <1>1, <1>2 DEF Requests

LEMMA NewestExists ==
    ASSUME IInv, NEW q \in Requests, targets[q] # {}
    PROVE  Newest(q) # {}
<1> DEFINE times == {otp[r].created : r \in targets[q]}
<1>1. targets[q] \subseteq Codes /\ IsFiniteSet(targets[q])
  BY OtpNamesAssumption, FS_Subset DEF IInv, Typed, RestTyped
<1>2. times \subseteq 0 .. MaxClock /\ times # {}
  BY <1>1 DEF IInv, Typed, RestTyped, Row, Instants
<1>3. times \subseteq Int /\ IsFiniteSet(times)
  <2>1. IsFiniteSet(0 .. MaxClock) /\ 0 .. MaxClock \subseteq Int
    BY OtpSettingsAssumption, FS_Interval
  <2>2. QED
    BY <1>2, <2>1, FS_Subset
<1>4. PICK t \in times : \A u \in times : u <= t
  <2> HIDE DEF times
  <2>1. QED
    BY <1>2, <1>3, GreatestElement
<1>5. PICK r \in targets[q] : t = otp[r].created
  BY <1>4
<1>6. QED
  BY <1>4, <1>5 DEF Newest

\* A request that waits for the user waits for one that does not wait.  If all
\* wait, each therefore waits for a row that another one has locked.
LEMMA WaitForRows ==
    ASSUME IInv, \A q \in Requests : InProgress(q) => Waiting(q),
           NEW q \in Requests, InProgress(q)
    PROVE  \E p \in Requests \ {q} : InProgress(p) /\ Wanted[q] \cap DOMAIN draft[p] # {}
<1>1. CASE pc[q] = "insert"
  <2>1. PICK v \in Verifiers \ {q} : InsertsUser(v)
    BY <1>1 DEF Waiting
  <2>2. v \in Requests /\ InProgress(v) /\ ~Waiting(v)
    BY <2>1 DEF InsertsUser, InProgress, Waiting, Requests
  <2>3. QED
    BY <2>2
<1>2. CASE pc[q] = "mark"
  <2>1. PICK r \in targets[q] : LockedByOther(q, r)
    BY <1>2 DEF Waiting
  <2>2. Wanted[q] = targets[q]
    BY <1>2 DEF Wanted
  <2>3. QED
    BY <2>1, <2>2, HolderInProgress DEF LockedByOther
<1>3. CASE pc[q] = "lock"
  <2>1. targets[q] # {} /\ \A r \in Newest(q) : LockedByOther(q, r)
    BY <1>3 DEF Waiting
  <2>2. PICK r \in Newest(q) : LockedByOther(q, r)
    BY <2>1, NewestExists
  <2>3. Wanted[q] = Newest(q)
    BY <1>3 DEF Wanted
  <2>4. QED
    BY <2>2, <2>3, HolderInProgress DEF LockedByOther
<1>4. QED
  BY <1>1, <1>2, <1>3 DEF Waiting

\* request_otp and verify_otp lock codes in orders of their own.  They never all
\* wait without a circle that PostgreSQL detects; with TLC's NobodyStuck, a
\* request that does not wait can take its next step.
THEOREM WaitsAreCirclesAlways == Spec => []WaitsAreCircles
<1>1. IInv => WaitsAreCircles
  <2> SUFFICES ASSUME IInv, \A q \in Requests : InProgress(q) => Waiting(q),
                      NEW o \in Requests, InProgress(o)
               PROVE  \E q \in Requests : InCircle(q, Wanted)
    BY DEF WaitsAreCircles
  <2> DEFINE S == {q \in Requests : InProgress(q)}
             held == [q \in Requests |-> DOMAIN draft[q]]
  <2>1. Holdings(Codes, Requests, held, Wanted)
    <3>1. Wanted \in [Requests -> SUBSET Codes]
      BY DEF IInv, Typed, RestTyped, Wanted, Newest
    <3>2. QED
      BY <3>1, OtpNamesAssumption DEF IInv, Typed, DraftTyped, Separate, Holdings
  <2>2. WantWithin(S, held, Wanted)
    BY WaitForRows DEF WantWithin
  <2>3. S \in SUBSET Requests /\ S # {}
    OBVIOUS
  <2>4. \A y \in Requests : held[y] = DOMAIN draft[y]
    OBVIOUS
  <2> HIDE DEF S, held
  <2>5. PICK U \in SUBSET S :
           U # {} /\ WantWithin(U, held, Wanted) /\ WantedWithin(U, held, Wanted)
    BY <2>1, <2>2, <2>3, CircleOfHolders
  <2>6. PICK q \in U : TRUE
    BY <2>5
  <2>7. InCircle(q, Wanted)
    <3>1. U \in SUBSET Requests /\ \A y \in U : held[y] = DOMAIN draft[y]
      BY <2>3, <2>4
    <3>2. \A y \in U : /\ \E z \in U \ {y} : Wanted[y] \cap DOMAIN draft[z] # {}
                      /\ \E z \in U \ {y} : Wanted[z] \cap DOMAIN draft[y] # {}
      BY <2>5, <3>1 DEF WantWithin, WantedWithin
    <3>3. QED
      BY <3>1, <3>2 DEF InCircle
  <2>8. QED
    BY <2>3, <2>6, <2>7
<1> QED BY <1>1, Invariance, PTL

-----------------------------------------------------------------------------
(* The promise: every step is one of OneTimeCodes or changes nothing there.  *)

\* A sender ends the codes that were stored when it began: it has found them
\* all, and locks them before it adds its own.
Supersedes(q) ==
    /\ \A r \in dead[q] : otp[r].stored
    /\ pc[q] = "mark" =>
         \A r \in dead[q] : otp[r].used \/ r \in targets[q] \/ r \in DOMAIN draft[q]
    /\ pc[q] \in {"mail", "commit"} =>
         \A r \in dead[q] : otp[r].used \/ r \in DOMAIN draft[q]
AllSupersede == \A q \in Senders : Supersedes(q)

LEMMA OnlyCommitsStore ==
    ASSUME [Next]_vars, \A q \in Requests : ~CommitRequest(q)
    PROVE  otp' = otp /\ user' = user
BY DEF Next, vars, Tick, BeginRequest, Send, BeginVerify, Verify, End, Lose, CountRecent,
       ScanUnused, MarkUsed, CreateCode, MailFails, MailSent, SelectActive, LockCode,
       NoActiveCode, FailAttempt, Raise, Accept, FindUser, InsertUser, UserExists,
       RespondVerified, DeadlockVictim, Rollback

LEMMA StepGrows ==
    ASSUME IInv, [Next]_vars
    PROVE  Grows
<1>1. ASSUME NEW q \in Requests, CommitRequest(q) PROVE Grows
  <2>1. CASE q \in Senders
    BY <1>1, <2>1, SenderCommits DEF Grows
  <2>2. CASE q \in Verifiers
    BY <1>1, <2>2, VerifierCommits DEF Grows
  <2> QED BY <2>1, <2>2 DEF Requests
<1>2. CASE \A q \in Requests : ~CommitRequest(q)
  BY <1>2, OnlyCommitsStore DEF Grows
<1> QED BY <1>1, <1>2

LEMMA OthersSame ==
    ASSUME Typed, NEW q \in Requests, NEW p \in Requests \ {q},
           \/ BeginRequest(q) \/ Send(q) \/ BeginVerify(q) \/ Verify(q)
           \/ End(q) \/ Lose(q)
    PROVE  Same(p)
<1> USE DEF Typed, RestTyped, DraftTyped, Same
<1>1. CASE BeginRequest(q) \/ CountRecent(q) \/ ScanUnused(q) \/ MarkUsed(q)
  BY <1>1 DEF BeginRequest, CountRecent, ScanUnused, MarkUsed, Goto, Finish, Answer, Write
<1>2. CASE CreateCode(q) \/ MailFails(q) \/ MailSent(q)
  BY <1>2 DEF CreateCode, MailFails, MailSent, Goto, Finish, Answer, Write, Rollback
<1>3. CASE BeginVerify(q) \/ SelectActive(q) \/ LockCode(q) \/ NoActiveCode(q)
  BY <1>3 DEF BeginVerify, SelectActive, LockCode, NoActiveCode, Goto, Finish, Answer,
              Write, Rollback
<1>4. CASE FailAttempt(q) \/ Raise(q) \/ Accept(q)
  BY <1>4 DEF FailAttempt, Raise, Accept, Goto, Finish, Answer, Write, Rollback
<1>5. CASE FindUser(q) \/ InsertUser(q) \/ UserExists(q) \/ RespondVerified(q)
  BY <1>5 DEF FindUser, InsertUser, UserExists, RespondVerified, Goto, Finish, Answer,
              Rollback
<1>6. CASE CommitRequest(q) \/ DeadlockVictim(q) \/ Lose(q)
  BY <1>6 DEF CommitRequest, DeadlockVictim, Lose, Goto, Finish, Answer, Commit, Rollback
<1> QED BY <1>1, <1>2, <1>3, <1>4, <1>5, <1>6 DEF Send, Verify, End

LEMMA SupersedesOwn ==
    ASSUME IInv, NEW q \in Senders, Supersedes(q), Grows,
           BeginRequest(q) \/ Send(q) \/ End(q) \/ Lose(q)
    PROVE  Supersedes(q)'
<1>1. Typed /\ q \in Requests /\ dead[q] \subseteq Codes
  BY SenderOnly DEF IInv, Typed, RestTyped
<1> USE DEF Typed, RestTyped, DraftTyped
<1>2. CASE BeginRequest(q) \/ CountRecent(q)
  BY <1>1, <1>2 DEF BeginRequest, CountRecent, Goto, Finish, Answer, Supersedes
<1>3. CASE ScanUnused(q)
  BY <1>1, <1>3 DEF ScanUnused, Goto, Supersedes
<1>4. CASE MarkUsed(q)
  <2>1. /\ pc[q] = "mark" /\ pc' = pc /\ otp' = otp /\ dead' = dead
        /\ \A r \in targets[q] : r \in targets'[q] \/ r \in DOMAIN draft'[q]
        /\ DOMAIN draft[q] \subseteq DOMAIN draft'[q]
    BY <1>1, <1>4 DEF MarkUsed, Write
  <2> QED BY <2>1 DEF Supersedes
<1>5. CASE CreateCode(q)
  <2>1. /\ pc[q] = "mark" /\ targets[q] = {} /\ pc'[q] = "mail"
        /\ otp' = otp /\ dead' = dead /\ DOMAIN draft[q] \subseteq DOMAIN draft'[q]
    BY <1>1, <1>5 DEF CreateCode, Goto, Write
  <2> QED BY <2>1 DEF Supersedes
<1>6. CASE MailSent(q)
  BY <1>1, <1>6 DEF MailSent, Goto, Answer, Supersedes
<1>7. CASE MailFails(q) \/ End(q) \/ Lose(q)
  <2>1. pc'[q] \in {"done", "lost"} /\ dead' = dead
    BY <1>1, <1>7 DEF MailFails, End, CommitRequest, DeadlockVictim, Lose, Goto, Finish
  <2> QED BY <1>1, <2>1 DEF Supersedes, Grows
<1> QED BY <1>2, <1>3, <1>4, <1>5, <1>6, <1>7 DEF Send

LEMMA SupersedesKept ==
    ASSUME IInv, [Next]_vars, NEW q \in Senders, Supersedes(q)
    PROVE  Supersedes(q)'
<1>1. /\ Typed /\ Grows /\ q \in Requests /\ q \notin Verifiers
      /\ dead[q] \subseteq Codes
  BY StepGrows, SenderOnly DEF IInv, Typed, RestTyped
<1>2. CASE Same(q)
  BY <1>1, <1>2 DEF Same, Grows, Supersedes
<1>3. CASE Tick \/ UNCHANGED vars
  <2>1. Same(q)
    BY <1>3 DEF Tick, vars, Same
  <2> QED BY <1>2, <2>1
<1>4. CASE \E p \in Senders : BeginRequest(p) \/ Send(p)
  BY <1>1, <1>2, <1>4, SenderOnly, OthersSame, SupersedesOwn
<1>5. CASE \E p \in Verifiers : BeginVerify(p) \/ Verify(p)
  BY <1>1, <1>2, <1>5, VerifierOnly, OthersSame
<1>6. CASE \E p \in Requests : End(p) \/ Lose(p)
  BY <1>1, <1>2, <1>6, OthersSame, SupersedesOwn
<1> QED BY <1>3, <1>4, <1>5, <1>6 DEF Next

\* The commit of a request for a code.
LEMMA IssueSeen ==
    ASSUME IInv, NEW q \in Senders, Supersedes(q), CommitRequest(q)
    PROVE  Promise!Next
<1> PICK c : c = row[q]
  OBVIOUS
<1>1. /\ q \in Requests /\ Typed /\ Beside(q) /\ dead[q] \subseteq Codes
      /\ pc[q] = "commit" /\ pc'[q] = "done" /\ row' = row /\ answer' = answer
      /\ UNCHANGED <<clock, now, dead>>
      /\ \A r \in DOMAIN draft[q] : otp'[r] = draft[q][r]
  BY SenderOnly, Committed DEF CommitRequest, IInv, Typed, RestTyped
<1>2. /\ c \in Codes /\ answer[q] = "sent" /\ user' = user /\ otp'[c] = NewRow(now[q])
      /\ ~otp[c].stored
      /\ \A r \in DOMAIN draft[q] \ {c} :
            otp[r].stored /\ otp'[r] = [otp[r] EXCEPT !.used = TRUE] /\ otp[r] \in Row
      /\ \A r \in Codes :
           /\ otp[r].stored => /\ otp'[r].stored /\ otp'[r].created = otp[r].created
                               /\ otp[r].used => otp'[r].used
           /\ otp'[r].stored => otp[r].stored \/ r = c
           /\ otp'[r].used => otp[r].used \/ (r \in DOMAIN draft[q] /\ r # c)
  BY <1>1, SenderCommits DEF Creates, Typed, DraftTyped, RestTyped
<1>3. c \notin Issued /\ Issued' = Issued \cup {c}
  BY <1>2 DEF Issued, NewRow
<1>4. IssuedUntil' = [r \in DOMAIN IssuedUntil \cup {c} |->
                        IF r = c THEN now[q] + Ttl ELSE IssuedUntil[r]]
  <2>1. Expires(otp[c])' = now[q] + Ttl
    BY <1>2 DEF Expires, NewRow
  <2>2. \A r \in Issued : Expires(otp[r])' = Expires(otp[r])
    BY <1>2 DEF Issued, Expires
  <2>3. DOMAIN IssuedUntil = Issued /\ \A r \in Issued : IssuedUntil[r] = Expires(otp[r])
    BY DEF IssuedUntil
  <2>4. IssuedUntil' = [r \in Issued' |-> Expires(otp'[r])]
    BY DEF IssuedUntil, Expires
  <2> QED BY <1>3, <2>1, <2>2, <2>3, <2>4 DEF Expires
<1>5. EndedCodes \subseteq EndedCodes'
  BY <1>2, <1>3 DEF EndedCodes, Issued
<1>6. dead[q] \subseteq EndedCodes'
  <2> SUFFICES ASSUME NEW r \in dead[q] PROVE r \in EndedCodes'
    OBVIOUS
  <2>1. r \in Codes /\ otp[r].stored /\ (otp[r].used \/ r \in DOMAIN draft[q])
    BY <1>1 DEF Supersedes
  <2>2. r # c
    BY <1>2, <2>1
  <2>3. CASE otp[r].used
    BY <1>2, <2>1, <2>3 DEF EndedCodes, Issued
  <2>4. CASE r \in DOMAIN draft[q] \ {c}
    <3>1. otp[r] \in Row /\ otp'[r] = [otp[r] EXCEPT !.used = TRUE]
      BY <1>2, <2>4
    <3>2. otp'[r].used
      BY <3>1 DEF Row
    <3> QED BY <1>2, <2>1, <3>2 DEF EndedCodes, Issued
  <2> QED BY <2>1, <2>2, <2>3, <2>4
<1>7. EndedCodes' \subseteq Issued
  <2>1. ~otp'[c].used
    BY <1>2 DEF NewRow
  <2> QED BY <1>3, <2>1 DEF EndedCodes
<1>8. ~Taken(q) /\ Taken(q)' /\ \A p \in Requests \ {q} : Taken(p)' <=> Taken(p)
  BY <1>1, <1>2 DEF Taken, Beside, SameVerifier, Same, Requests
<1>9. TakenCodes[q] = WrongCode /\ TakenCodes' = [TakenCodes EXCEPT ![q] = c]
  BY <1>1, <1>8 DEF TakenCodes
<1>10. StoredBefore[q] = dead[q] /\ StoredBefore' = StoredBefore
  BY <1>1 DEF StoredBefore
<1>11. DOMAIN IssuedUntil = Issued
  BY DEF IssuedUntil
<1>12. Promise!Issue(q, c)
  BY <1>1, <1>2, <1>3, <1>4, <1>5, <1>6, <1>7, <1>9, <1>10, <1>11 DEF Promise!Issue
<1> QED BY <1>2, <1>12 DEF Promise!Next

\* The commit of a verification.
LEMMA RedeemSeen ==
    ASSUME IInv, NEW v \in Verifiers, CommitRequest(v)
    PROVE  Promise!Next
<1> PICK c : c = row[v]
  OBVIOUS
<1>1. /\ v \in Requests /\ Typed /\ Beside(v)
      /\ pc[v] = "commit" /\ pc'[v] = "done" /\ row' = row /\ answer' = answer
      /\ UNCHANGED <<clock, now, dead>>
  BY VerifierOnly, Committed DEF CommitRequest, IInv
<1>2. /\ c \in Codes /\ answer[v] = "verified" /\ Active(otp[c], now[v])
      /\ user' = owner[v]
      /\ \A r \in Codes \ {c} : otp'[r] = otp[r]
      /\ otp'[c].stored /\ otp'[c].used /\ otp'[c].created = otp[c].created
  BY VerifierCommits
<1>3. c \in Issued /\ Issued' = Issued
  BY <1>2 DEF Issued, Active
<1>4. IssuedUntil' = IssuedUntil /\ DOMAIN IssuedUntil = Issued /\ IssuedUntil[c] > now[v]
  <2>1. \A r \in Issued : Expires(otp[r])' = Expires(otp[r])
    BY <1>2 DEF Issued, Expires
  <2> QED BY <1>2, <1>3, <2>1 DEF IssuedUntil, Active
<1>5. c \notin EndedCodes /\ EndedCodes' = EndedCodes \cup {c}
  BY <1>2, <1>3 DEF EndedCodes, Active, Issued
<1>6. ~Taken(v) /\ Taken(v)' /\ \A p \in Requests \ {v} : Taken(p)' <=> Taken(p)
  BY <1>1, <1>2 DEF Taken, Beside, SameVerifier, Same, Requests
<1>7. TakenCodes[v] = WrongCode /\ TakenCodes' = [TakenCodes EXCEPT ![v] = c]
  BY <1>1, <1>6 DEF TakenCodes
<1>8. user' = IF user = NoUser THEN v ELSE user
  BY <1>1, <1>2 DEF IInv, UserInv
<1>9. StoredBefore' = StoredBefore
  BY <1>1 DEF StoredBefore
<1>10. Promise!Redeem(v, c)
  BY <1>1, <1>3, <1>4, <1>5, <1>7, <1>8, <1>9 DEF Promise!Redeem
<1> QED BY <1>2, <1>10 DEF Promise!Next

\* All other steps: an arrival, time, or nothing.
LEMMA UncommittedSeen ==
    ASSUME IInv, [Next]_vars, \A q \in Requests : ~CommitRequest(q)
    PROVE  Promise!Next \/ UNCHANGED Promise!codes
<1>1. Typed /\ otp' = otp /\ user' = user
  BY OnlyCommitsStore DEF IInv
<1>2. Issued' = Issued /\ IssuedUntil' = IssuedUntil /\ EndedCodes' = EndedCodes
  BY <1>1 DEF Issued, IssuedUntil, EndedCodes, Expires
<1>3. CASE Tick \/ UNCHANGED vars
  <2>1. TakenCodes' = TakenCodes /\ StoredBefore' = StoredBefore /\ now' = now
    BY <1>3 DEF Tick, vars, TakenCodes, Taken, StoredBefore
  <2>2. CASE Tick
    BY <1>1, <1>2, <2>1, <2>2 DEF Tick, Promise!Tick, Promise!Next
  <2>3. CASE UNCHANGED vars
    BY <1>1, <1>2, <2>1, <2>3 DEF vars, Promise!codes
  <2> QED BY <1>3, <2>2, <2>3
<1>4. ASSUME NEW q \in Requests,
             \/ q \in Senders /\ (BeginRequest(q) \/ Send(q))
             \/ q \in Verifiers /\ (BeginVerify(q) \/ Verify(q))
             \/ End(q) \/ Lose(q)
      PROVE  Promise!Next \/ UNCHANGED Promise!codes
  <2>1. ~Taken(q) /\ ~Taken(q)'
    <3>1. pc[q] # "done"
      BY <1>4, VictimWaits
         DEF BeginRequest, Send, BeginVerify, Verify, End, Lose, CountRecent, ScanUnused,
             MarkUsed, CreateCode, MailFails, MailSent, SelectActive, LockCode,
             NoActiveCode, FailAttempt, Raise, Accept, FindUser, InsertUser, UserExists,
             RespondVerified
    <3>2. pc'[q] = "done" => answer'[q] \in {"failed", "limited", "invalid", "error"}
      BY <1>1, <1>4, <3>1
         DEF BeginRequest, Send, BeginVerify, Verify, End, Lose, CountRecent, ScanUnused,
             MarkUsed, CreateCode, MailFails, MailSent, SelectActive, LockCode,
             NoActiveCode, FailAttempt, Raise, Accept, FindUser, InsertUser, UserExists,
             RespondVerified, DeadlockVictim, Goto, Finish, Answer, Typed, RestTyped
    <3> QED BY <3>1, <3>2 DEF Taken
  <2>2. \A p \in Requests \ {q} : Same(p)
    BY <1>1, <1>4, OthersSame
  <2>3. TakenCodes' = TakenCodes
    BY <2>1, <2>2 DEF TakenCodes, Taken, Same
  <2>4. CASE (q \in Senders /\ BeginRequest(q)) \/ (q \in Verifiers /\ BeginVerify(q))
    <3>1. now' = [now EXCEPT ![q] = clock] /\ clock' = clock
      BY <2>4 DEF BeginRequest, BeginVerify
    <3>2. StoredBefore' = [p \in Senders |-> IF p = q THEN Issued ELSE StoredBefore[p]]
      <4>1. CASE q \in Senders /\ BeginRequest(q)
        BY <1>1, <4>1, SenderOnly
           DEF BeginRequest, StoredBefore, Issued, Typed, RestTyped
      <4>2. CASE q \in Verifiers /\ BeginVerify(q)
        <5>1. q \notin Senders /\ \A p \in Senders : dead'[p] = dead[p]
          BY <1>1, <4>2, SenderOnly, VerifierOnly
             DEF BeginVerify, Typed, RestTyped
        <5> QED BY <5>1 DEF StoredBefore
      <4> QED BY <2>4, <4>1, <4>2
    <3>3. TakenCodes[q] = WrongCode
      BY <2>1 DEF TakenCodes
    <3>4. Promise!Arrive(q)
      BY <1>1, <1>2, <2>3, <3>1, <3>2, <3>3 DEF Promise!Arrive, IssuedUntil
    <3> QED BY <3>4 DEF Promise!Next, Promise!Requests, Requests
  <2>5. CASE Send(q) \/ Verify(q) \/ End(q) \/ Lose(q)
    <3>1. now' = now /\ dead' = dead /\ clock' = clock
      BY <1>4, <2>5
         DEF Send, Verify, End, Lose, CountRecent, ScanUnused, MarkUsed, CreateCode,
             MailFails, MailSent, SelectActive, LockCode, NoActiveCode, FailAttempt,
             Raise, Accept, FindUser, InsertUser, UserExists, RespondVerified,
             CommitRequest, DeadlockVictim
    <3> QED BY <1>1, <1>2, <2>3, <3>1 DEF Promise!codes, StoredBefore
  <2> QED BY <1>4, <2>4, <2>5
<1> QED BY <1>3, <1>4, SenderOnly, VerifierOnly DEF Next, Requests

\* Requests whose statements interleave in any way and fail anywhere behave as
\* OneTimeCodes: request_otp ends every code that was stored when it began and
\* issues its own in one step, verify_otp redeems a code that has not ended in one
\* step, and both do nothing when they fail.
THEOREM FollowsPromiseAlways == Spec => Promise!Init /\ FollowsPromise
<1>1. Init => Promise!Init /\ AllSupersede
  <2> SUFFICES ASSUME Init PROVE Promise!Init /\ AllSupersede
    OBVIOUS
  <2>1. /\ \A q \in Requests : pc[q] = "idle" /\ dead[q] = {}
        /\ Issued = {} /\ clock = 0 /\ now = [q \in Requests |-> 0] /\ user = NoUser
    BY DEF Init, Issued, NoRow
  <2>2. IssuedUntil = [r \in {} |-> 0] /\ EndedCodes = {}
    BY <2>1 DEF IssuedUntil, EndedCodes
  <2>3. TakenCodes = [q \in Requests |-> WrongCode] /\ StoredBefore = [q \in Senders |-> {}]
    BY <2>1, SenderOnly DEF TakenCodes, Taken, StoredBefore
  <2>4. AllSupersede
    BY <2>1, SenderOnly DEF Supersedes, AllSupersede
  <2> QED BY <2>1, <2>2, <2>3, <2>4 DEF Promise!Init, Promise!Requests, Requests
<1>2. IInv /\ AllSupersede /\ [Next]_vars =>
        [Promise!Next]_(Promise!codes) /\ AllSupersede'
  <2> SUFFICES ASSUME IInv, AllSupersede, [Next]_vars
               PROVE  [Promise!Next]_(Promise!codes) /\ AllSupersede'
    OBVIOUS
  <2>1. AllSupersede'
    BY SupersedesKept DEF AllSupersede
  <2>2. CASE \E q \in Requests : CommitRequest(q)
    <3>1. Promise!Next
      BY <2>2, IssueSeen, RedeemSeen DEF Requests, AllSupersede
    <3> QED BY <2>1, <3>1
  <2>3. CASE \A q \in Requests : ~CommitRequest(q)
    <3>1. Promise!Next \/ UNCHANGED Promise!codes
      BY <2>3, UncommittedSeen
    <3> QED BY <2>1, <3>1
  <2> QED BY <2>2, <2>3
<1> QED BY <1>1, <1>2, Invariance, PTL DEF Spec, FollowsPromise
=============================================================================
