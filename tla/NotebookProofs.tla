--------------------------- MODULE NotebookProofs ---------------------------
(***************************************************************************)
(* What is stored can be read again, deletions and clearings are undone    *)
(* for a reason only: for any notebooks, any requests on them and on their *)
(* contexts, and any interleaving of their statements.                     *)
(***************************************************************************)
EXTENDS AiContext, CountingLemmas, SequenceTheorems

-----------------------------------------------------------------------------
(* The merge.                                                               *)

\* Select takes the elements at the positions P, each once: it numbers them.
LEMMA SelectPositions ==
    ASSUME NEW S, NEW s \in Seq(S), NEW P, P \subseteq DOMAIN s
    PROVE  /\ Select(s, P) \in Seq(S)
           /\ Len(Select(s, P)) = Cardinality(P) /\ Cardinality(P) \in Nat
           /\ \E pos \in Bijection(1 .. Cardinality(P), P) :
                \A i \in 1 .. Cardinality(P) : Select(s, P)[i] = s[pos[i]]
<1> DEFINE UpTo(p) == {k \in P : k <= p}
<1> DEFINE rank == [p \in P |-> Cardinality(UpTo(p))]
<1> DEFINE size == Cardinality(P)
<1>1. DOMAIN s = 1 .. Len(s) /\ Len(s) \in Nat /\ P \subseteq Nat
  BY LenProperties
<1>2. IsFiniteSet(P) /\ size \in Nat
  <2>1. IsFiniteSet(1 .. Len(s)) /\ P \subseteq 1 .. Len(s)
    BY <1>1, FS_Interval
  <2>2. QED
    BY <2>1, FS_Subset, FS_CardinalityType
<1>3. ASSUME NEW p \in P
      PROVE  /\ IsFiniteSet(UpTo(p)) /\ Cardinality(UpTo(p)) \in 1 .. size
             /\ p \in UpTo(p)
  <2>1. UpTo(p) \subseteq P /\ p \in UpTo(p)
    BY <1>1
  <2>2. /\ IsFiniteSet(UpTo(p)) /\ Cardinality(UpTo(p)) <= size
        /\ Cardinality(UpTo(p)) \in Nat
    BY <1>2, <2>1, FS_Subset, FS_CardinalityType
  <2>3. Cardinality(UpTo(p)) # 0
    <3> HIDE DEF UpTo
    <3>1. QED
      BY <2>1, <2>2, FS_EmptySet
  <2>4. QED
    BY <1>2, <2>1, <2>2, <2>3
<1>4. ASSUME NEW p \in P, NEW r \in P, r > p
      PROVE  Cardinality(UpTo(p)) # Cardinality(UpTo(r))
  <2>0. p \in Nat /\ r \in Nat
    BY <1>1
  <2>1. UpTo(p) \subseteq UpTo(r) /\ r \notin UpTo(p)
    BY <1>1, <1>4, <2>0
  <2>2. UpTo(p) # UpTo(r)
    BY <1>3, <2>1
  <2>3. QED
    BY <1>3, <2>1, <2>2, FS_Subset
<1>5. rank \in Injection(P, 1 .. size)
  <2>1. ASSUME NEW p \in P, NEW r \in P, rank[p] = rank[r]
        PROVE  p = r
    <3>1. ~(r > p) /\ ~(p > r)
      BY <1>4, <2>1
    <3>2. QED
      BY <1>1, <3>1
  <2>2. rank \in [P -> 1 .. size]
    BY <1>3
  <2>3. QED
    BY <2>1, <2>2 DEF Injection, IsInjective
<1>6. rank \in Surjection(P, 1 .. size)
  <2>1. IsFiniteSet(1 .. size) /\ Cardinality(1 .. size) = size
    BY <1>2, FS_Interval
  <2>2. QED
    BY <1>5, <2>1, FS_Injection
<1> DEFINE pos == [i \in 1 .. size |-> CHOOSE p \in P : Cardinality(UpTo(p)) = i]
<1>7. \A i \in 1 .. size : pos[i] \in P /\ rank[pos[i]] = i
  <2>1. \A i \in 1 .. size : \E p \in P : Cardinality(UpTo(p)) = i
    BY <1>6 DEF Surjection
  <2>2. \A i \in 1 .. size : pos[i] \in P /\ Cardinality(UpTo(pos[i])) = i
    BY <2>1
  <2> HIDE DEF pos
  <2>3. QED
    BY <2>2
<1> HIDE DEF rank
<1>8. pos \in Bijection(1 .. size, P)
  <2>1. pos \in [1 .. size -> P]
    BY <1>7
  <2>2. \A p \in P : rank[p] \in 1 .. size /\ pos[rank[p]] = p
    BY <1>5, <1>7 DEF Injection, IsInjective
  <2>3. \A i, j \in 1 .. size : pos[i] = pos[j] => i = j
    BY <1>7
  <2> HIDE DEF pos
  <2>4. QED
    BY <2>1, <2>2, <2>3 DEF Bijection, Injection, Surjection, IsInjective
<1>9. Select(s, P) = [i \in 1 .. size |-> s[pos[i]]]
  <2>1. Select(s, P) = [i \in 1 .. size |->
                         s[CHOOSE p \in P : Cardinality(UpTo(p)) = i]]
    BY DEF Select
  <2>2. QED
    BY <2>1
<1> HIDE DEF pos
<1>10. \A i \in 1 .. size : s[pos[i]] \in S
  BY <1>1, <1>7, ElementOfSeq
<1>11. Select(s, P) \in Seq(S)
  <2>1. Select(s, P) \in [1 .. size -> S]
    BY <1>9, <1>10
  <2>2. QED
    BY <1>2, <2>1, SeqDef
<1>12. Len(Select(s, P)) = size
  <2>1. DOMAIN Select(s, P) = 1 .. Len(Select(s, P)) /\ Len(Select(s, P)) \in Nat
    BY <1>11
  <2>2. DOMAIN Select(s, P) = 1 .. size
    BY <1>9
  <2>3. QED
    BY <1>2, <2>1, <2>2
<1>13. QED
  BY <1>2, <1>8, <1>9, <1>11, <1>12

\* The elements of what Select takes.
LEMMA SelectElements ==
    ASSUME NEW S, NEW s \in Seq(S), NEW P, P \subseteq DOMAIN s
    PROVE  Elements(Select(s, P)) = {s[p] : p \in P}
<1> DEFINE taken == Select(s, P)
<1>1. taken \in Seq(S) /\ Len(taken) = Cardinality(P)
  BY SelectPositions
<1>2. PICK pos \in Bijection(1 .. Cardinality(P), P) :
        \A i \in 1 .. Cardinality(P) : taken[i] = s[pos[i]]
  BY SelectPositions
<1> HIDE DEF taken
<1>3. DOMAIN taken = 1 .. Cardinality(P)
  BY <1>1
<1>4. \A i \in DOMAIN taken : pos[i] \in P /\ taken[i] = s[pos[i]]
  BY <1>2, <1>3 DEF Bijection, Injection
<1>5. \A p \in P : \E i \in DOMAIN taken : taken[i] = s[p]
  BY <1>2, <1>3 DEF Bijection, Surjection
<1>6. Elements(taken) = {s[p] : p \in P}
  BY <1>4, <1>5 DEF Elements
<1>7. QED
  BY <1>6 DEF taken

\* A cell that survives has its version from one side or the other.
LEMMA WinnerFound ==
    ASSUME NEW server, NEW client, NEW graves, NEW i,
           Survives(server, client, graves, i)
    PROVE  /\ Winner(server, client, graves, i) \in Elements(server) \cup Elements(client)
           /\ Winner(server, client, graves, i).id = i
           /\ i \in Ids(server) \cup Ids(client)
<1>1. ASSUME NEW cells, i \in Ids(cells)
      PROVE  CellOf(cells, i) \in Elements(cells) /\ CellOf(cells, i).id = i
  BY <1>1 DEF CellOf, Ids
<1>2. i \in Ids(server) \cup Ids(client)
  BY DEF Survives
<1>3. CASE ClientWins(server, client, graves, i)
  BY <1>1, <1>2, <1>3 DEF Winner, ClientWins
<1>4. CASE ~ClientWins(server, client, graves, i)
  <2>1. i \in Ids(server)
    BY <1>4 DEF ClientWins, Survives
  <2>2. QED
    BY <1>1, <1>2, <1>4, <2>1 DEF Winner
<1>5. QED
  BY <1>3, <1>4

\* A merge has the winners of the cells that survive, and nothing else.
LEMMA MergeElements ==
    ASSUME NEW server, IsCells(server), NEW client, IsCells(client), NEW graves
    PROVE  LET merged == MergeCells(server, client, graves)
           IN  /\ IsCells(merged)
               /\ \A i : Survives(server, client, graves, i) =>
                    Winner(server, client, graves, i) \in Elements(merged)
               /\ \A c \in Elements(merged) :
                    /\ Survives(server, client, graves, c.id)
                    /\ c = Winner(server, client, graves, c.id)
<1> DEFINE Kept(c) == Survives(server, client, graves, c.id)
<1> DEFINE own == {n \in DOMAIN client : Kept(client[n])}
<1> DEFINE others == {n \in DOMAIN server :
                        Kept(server[n]) /\ server[n].id \notin Ids(client)}
<1> DEFINE left == Select(client, own)
<1> DEFINE right == Select(server, others)
<1> DEFINE ordered == left \o right
<1> DEFINE Win(i) == Winner(server, client, graves, i)
<1> DEFINE merged == MergeCells(server, client, graves)
<1> DEFINE All == Elements(server) \cup Elements(client)
<1>1. server \in Seq(All) /\ client \in Seq(All)
  BY SeqMonotonic DEF IsCells
<1>2. own \subseteq DOMAIN client /\ others \subseteq DOMAIN server
  OBVIOUS
<1> HIDE DEF own, others
<1>3. left \in Seq(All) /\ right \in Seq(All)
  BY <1>1, <1>2, SelectPositions
<1>4. /\ Elements(left) = {client[n] : n \in own}
      /\ Elements(right) = {server[n] : n \in others}
  BY <1>1, <1>2, SelectElements
<1> HIDE DEF left, right
<1>5. /\ ordered \in Seq(All) /\ Len(ordered) = Len(left) + Len(right)
      /\ \A n \in 1 .. Len(left) : ordered[n] = left[n]
      /\ \A n \in 1 .. Len(right) : ordered[Len(left) + n] = right[n]
      /\ Len(left) \in Nat /\ Len(right) \in Nat
  BY <1>3
<1>6. Elements(ordered) = Elements(left) \cup Elements(right)
  <2>1. ASSUME NEW n \in 1 .. Len(ordered)
        PROVE  ordered[n] \in Elements(left) \cup Elements(right)
    <3>1. CASE n \in 1 .. Len(left)
      BY <1>3, <1>5, <3>1 DEF Elements
    <3>2. CASE n \notin 1 .. Len(left)
      <4>1. n - Len(left) \in 1 .. Len(right)
        BY <1>5, <3>2
      <4>2. ordered[n] = right[n - Len(left)]
        BY <1>5, <4>1
      <4>3. QED
        BY <1>3, <4>1, <4>2 DEF Elements
    <3>3. QED
      BY <3>1, <3>2
  <2>2. ASSUME NEW n \in 1 .. Len(left)
        PROVE  left[n] \in Elements(ordered)
    BY <1>5 DEF Elements
  <2>3. ASSUME NEW n \in 1 .. Len(right)
        PROVE  right[n] \in Elements(ordered)
    <3>1. Len(left) + n \in DOMAIN ordered
      BY <1>5
    <3>2. right[n] = ordered[Len(left) + n]
      BY <1>5
    <3> HIDE DEF ordered
    <3>3. QED
      BY <3>1, <3>2 DEF Elements
  <2>4. /\ DOMAIN ordered = 1 .. Len(ordered) /\ DOMAIN left = 1 .. Len(left)
        /\ DOMAIN right = 1 .. Len(right)
    BY <1>3, <1>5
  <2> HIDE DEF ordered
  <2>5. QED
    BY <2>1, <2>2, <2>3, <2>4 DEF Elements
<1>7. merged = [n \in DOMAIN ordered |-> Win(ordered[n].id)]
  BY DEF MergeCells, left, right, own, others
<1> HIDE DEF ordered, merged
<1>8. \A c \in Elements(ordered) : Survives(server, client, graves, c.id)
  BY <1>4, <1>6 DEF own, others
<1>9. \A i : Survives(server, client, graves, i) =>
               \E c \in Elements(ordered) : c.id = i
  <2> SUFFICES ASSUME NEW i, Survives(server, client, graves, i)
               PROVE  \E c \in Elements(ordered) : c.id = i
    OBVIOUS
  <2>1. CASE i \in Ids(client)
    <3>1. PICK n \in DOMAIN client : client[n].id = i
      BY <2>1 DEF Ids, Elements
    <3>2. n \in own
      BY <3>1 DEF own
    <3>3. QED
      BY <1>4, <1>6, <3>1, <3>2
  <2>2. CASE i \notin Ids(client)
    <3>1. i \in Ids(server)
      BY <2>2, WinnerFound
    <3>2. PICK n \in DOMAIN server : server[n].id = i
      BY <3>1 DEF Ids, Elements
    <3>3. n \in others
      BY <2>2, <3>2 DEF others
    <3>4. QED
      BY <1>4, <1>6, <3>2, <3>3
  <2>3. QED
    BY <2>1, <2>2
<1>10. /\ \A c \in Elements(merged) : \E d \in Elements(ordered) : c = Win(d.id)
       /\ \A d \in Elements(ordered) : Win(d.id) \in Elements(merged)
  BY <1>7 DEF Elements
<1>11. \A c \in Elements(merged) :
         Survives(server, client, graves, c.id) /\ c = Win(c.id) /\ c \in All
  BY <1>8, <1>10, WinnerFound
<1>12. \A i : Survives(server, client, graves, i) => Win(i) \in Elements(merged)
  BY <1>9, <1>10
<1>13. IsCells(merged)
  <2>1. DOMAIN ordered = 1 .. Len(ordered) /\ Len(ordered) \in Nat
    BY <1>5
  <2>2. DOMAIN merged = 1 .. Len(ordered)
    BY <1>7, <2>1
  <2>3. merged \in [1 .. Len(ordered) -> Elements(merged)]
    BY <1>7, <2>2 DEF Elements
  <2>4. merged \in Seq(Elements(merged))
    BY <2>1, <2>3, SeqDef
  <2>5. \A c \in Elements(merged) : c.at \in Nat
    BY <1>11 DEF IsCells
  <2>6. QED
    BY <2>4, <2>5 DEF IsCells
<1>14. QED
  BY <1>11, <1>12, <1>13 DEF merged

\* Cells that are there have a latest date.
LEMMA LatestIsDate ==
    ASSUME NEW cells, IsCells(cells), cells # <<>>
    PROVE  Latest(cells) \in Nat
<1> DEFINE dates == {c.at : c \in Elements(cells)}
<1>1. DOMAIN cells = 1 .. Len(cells) /\ Len(cells) \in Nat \ {0}
  <2>1. cells \in Seq(Elements(cells))
    BY DEF IsCells
  <2> HIDE DEF IsCells
  <2>2. DOMAIN cells = 1 .. Len(cells) /\ Len(cells) \in Nat
    BY <2>1, LenProperties
  <2>3. Len(cells) # 0
    BY <2>1, EmptySeq
  <2>4. QED
    BY <2>2, <2>3
<1>2. dates \subseteq Int
  BY DEF IsCells
<1>3. dates # {}
  <2>1. 1 \in DOMAIN cells
    BY <1>1
  <2>2. cells[1].at \in dates
    BY <2>1 DEF Elements
  <2>3. QED
    BY <2>2
<1>4. IsFiniteSet(dates)
  <2>1. [n \in DOMAIN cells |-> cells[n].at] \in Surjection(DOMAIN cells, dates)
    BY DEF Surjection, Elements
  <2>2. IsFiniteSet(DOMAIN cells)
    BY <1>1, FS_Interval
  <2>3. QED
    BY <2>1, <2>2, FS_Surjection
<1>5. \E m \in dates : \A k \in dates : k <= m
  <2> HIDE DEF dates
  <2>1. QED
    BY <1>2, <1>3, <1>4, GreatestElement
<1>6. Latest(cells) \in dates
  BY <1>5 DEF Latest
<1>7. QED
  BY <1>6 DEF IsCells

\* The time a notebook is listed by is at most the skew ahead.
LEMMA UpdatedAtBound ==
    ASSUME NEW cells, IsCells(cells), NEW t \in Int
    PROVE  /\ ComputeUpdatedAt(cells, t) \in Int
           /\ ComputeUpdatedAt(cells, t) <= t + FutureSkew
BY LatestIsDate, MergeAssumption DEF ComputeUpdatedAt

-----------------------------------------------------------------------------
(* The inductive invariant.                                                 *)

RowTyped(row) ==
    /\ DOMAIN row = DOMAIN NoRow
    /\ row.owner \in Users \cup {NoUser}
    /\ row.format \in 1 .. CurrentFormat
    /\ row.deleted \in BOOLEAN
    /\ IsCells(row.cells) /\ Readable(row.cells)
    /\ row.updated \in Int

TypeInv ==
    /\ clock \in 0 .. MaxClock
    /\ op \in Workloads
    /\ DOMAIN pc = Requests /\ DOMAIN first = Requests /\ DOMAIN second = Requests
    /\ DOMAIN draft = Requests /\ DOMAIN contextDraft = Requests
    /\ DOMAIN loaded = Requests /\ DOMAIN answer = Requests /\ DOMAIN now = Requests
    /\ \A n \in Notebooks : RowTyped(notebook[n])
    /\ \A q \in Requests : RowTyped(first[q]) /\ RowTyped(second[q])
    /\ \A q \in Requests : now[q] \in 0 .. clock

\* A request that goes on to save has passed the checks of its kind.
Admissible(q) ==
    pc[q] \in {"reread", "flush", "commit"} =>
        /\ op[q].kind \in Saves
        /\ op[q].kind \in {"create", "patch"} => ~TooNew(q)

\* What a request would commit is its entity over the row that is stored, which
\* nobody else can change.
Pending(q) ==
    \/ draft[q] = Unlocked
    \/ /\ pc[q] = "commit"
       /\ DOMAIN draft[q] = {Target(q)}
       /\ \E anew \in SUBSET Retimed(q) :
            draft[q][Target(q)] =
              Flushed(second[q], Entity(q), notebook[Target(q)], anew)
       /\ ~Unreadable(q)

\* The same of the row of the context, which is absent or not as it was read.
PendingContext(q) ==
    /\ pc[q] = "context" => op[q].kind \in ContextKinds
    /\ pc[q] \in {"write", "context_commit"} => op[q].kind \in {"store", "clear"}
    /\ \/ contextDraft[q] = Unlocked
       \/ /\ pc[q] = "context_commit"
          /\ DOMAIN contextDraft[q] = {Target(q)}
          /\ op[q].kind = "store" => StillThere(q)
          /\ op[q].kind = "clear" => contextDraft[q][Target(q)] = NoContext

\* No row is locked twice.
Exclusive ==
    \A q, p \in Requests :
        q # p => /\ DOMAIN draft[q] \cap DOMAIN draft[p] = {}
                 /\ DOMAIN contextDraft[q] \cap DOMAIN contextDraft[p] = {}

RequestInv(q) == Admissible(q) /\ Pending(q) /\ PendingContext(q)

IInv == TypeInv /\ Exclusive /\ \A q \in Requests : RequestInv(q)

-----------------------------------------------------------------------------
(* Rows.                                                                    *)

LEMMA EmptyRow == RowTyped(NoRow)
<1>1. Elements(<<>>) = {} /\ Ids(<<>>) = {}
  BY DEF Elements, Ids
<1>2. Readable(<<>>)
  BY <1>1, FS_EmptySet, MergeAssumption DEF Readable
<1>3. IsCells(<<>>)
  BY <1>1, EmptySeq DEF IsCells
<1> QED BY <1>2, <1>3, NotebookAssumption DEF RowTyped, NoRow

LEMMA TargetStored == ASSUME TypeInv, NEW q \in Requests PROVE Target(q) \in Notebooks
BY InputsAssumption, NotebookAssumption DEF TypeInv, Target, User

\* What a request brings.
LEMMA BodyTyped ==
    ASSUME TypeInv, NEW q \in Requests, op[q].kind \in {"create", "patch"}
    PROVE  /\ IsCells(Body(q).cells) /\ Readable(Body(q).cells)
           /\ Body(q).format \in Nat \ {0}
BY InputsAssumption DEF TypeInv, Body

\* The version that is saved has cells: the body's, or what was merged.
LEMMA EntityVersion ==
    ASSUME TypeInv, NEW q \in Requests, op[q].kind \in {"create", "patch"}
    PROVE  \E cells : Entity(q) = SyncedVersion(q, cells) /\ IsCells(cells)
<1>1. IsCells(Body(q).cells) /\ IsCells(first[q].cells)
  BY BodyTyped DEF TypeInv, RowTyped
<1>2. CASE op[q].kind = "create"
  BY <1>1, <1>2 DEF Entity
<1>3. CASE op[q].kind = "patch"
  BY <1>1, <1>3, MergeElements DEF Entity
<1> QED BY <1>2, <1>3

\* An entity that may be saved and can be answered is a row.
LEMMA EntityTyped ==
    ASSUME TypeInv, NEW q \in Requests, op[q].kind \in Saves,
           op[q].kind \in {"create", "patch"} => ~TooNew(q),
           ~Unreadable(q)
    PROVE  RowTyped(Entity(q))
<1>1. RowTyped(first[q])
  BY DEF TypeInv
<1>2. CASE op[q].kind = "delete"
  BY <1>1, <1>2 DEF Entity, RowTyped, NoRow
<1>3. CASE op[q].kind = "restore"
  BY <1>1, <1>3 DEF Entity, RowTyped, NoRow
<1>4. CASE op[q].kind \in {"create", "patch"}
  <2>1. PICK cells : Entity(q) = SyncedVersion(q, cells) /\ IsCells(cells)
    BY <1>4, EntityVersion
  <2>2. /\ DOMAIN Entity(q) = DOMAIN first[q]
        /\ Entity(q).owner \in {User(q), first[q].owner}
        /\ Entity(q).format = Body(q).format
        /\ Entity(q).deleted = first[q].deleted
    BY <1>1, <2>1 DEF SyncedVersion, RowTyped, NoRow
  <2>3. User(q) \in Users /\ Body(q).format \in 1 .. CurrentFormat
    BY <1>4, InputsAssumption, NotebookAssumption DEF TypeInv, User, Body, TooNew
  <2>4. Readable(Entity(q).cells)
    BY <1>4 DEF Unreadable
  <2>5. Entity(q).cells = cells /\ Entity(q).updated \in Int
    BY <1>1, <2>1, UpdatedAtBound DEF SyncedVersion, RowTyped, NoRow, TypeInv
  <2> QED BY <1>1, <2>1, <2>2, <2>3, <2>4, <2>5 DEF RowTyped
<1> QED BY <1>2, <1>3, <1>4 DEF Saves

\* A row written column by column is a row.
LEMMA FlushedTyped ==
    ASSUME NEW x, NEW y, NEW z, NEW anew, RowTyped(y), RowTyped(z)
    PROVE  RowTyped(Flushed(x, y, z, anew))
BY DEF RowTyped, Flushed, NoRow

\* What a statement of a request does to the locks.
LEMMA WriteEffect ==
    ASSUME NEW d, NEW d2, NEW q \in Requests, NEW n, NEW row, DOMAIN d = Requests,
           d2 = [d EXCEPT ![q] =
                   [u \in DOMAIN @ \cup {n} |-> IF u = n THEN row ELSE @[u]]]
    PROVE  /\ DOMAIN d2 = Requests
           /\ DOMAIN d2[q] = DOMAIN d[q] \cup {n} /\ d2[q][n] = row
           /\ \A p \in Requests \ {q} : d2[p] = d[p]
OBVIOUS

LEMMA UnlockedEmpty == DOMAIN Unlocked = {}
BY DEF Unlocked

-----------------------------------------------------------------------------
LEMMA InitHolds == ContextInit => IInv
<1> SUFFICES ASSUME ContextInit PROVE IInv
  OBVIOUS
<1>1. TypeInv
  <2>1. \A n \in Notebooks : RowTyped(notebook[n])
    BY EmptyRow, InputsAssumption DEF ContextInit, Init, RowTyped
  <2> QED BY <2>1, EmptyRow, NotebookAssumption DEF ContextInit, Init, TypeInv
<1>2. Exclusive
  BY UnlockedEmpty DEF ContextInit, Init, Exclusive
<1>3. \A q \in Requests : RequestInv(q)
  BY DEF ContextInit, Init, RequestInv, Admissible, Pending, PendingContext
<1> QED BY <1>1, <1>2, <1>3 DEF IInv

-----------------------------------------------------------------------------
(* Steps.                                                                   *)

\* What a step of one request leaves of another.
Same(p) ==
    /\ pc'[p] = pc[p] /\ first'[p] = first[p] /\ second'[p] = second[p]
    /\ now'[p] = now[p] /\ loaded'[p] = loaded[p]
    /\ draft'[p] = draft[p] /\ contextDraft'[p] = contextDraft[p]

LEMMA EntityKept ==
    ASSUME NEW p \in Requests, op' = op, first'[p] = first[p], now'[p] = now[p]
    PROVE  /\ Target(p)' = Target(p) /\ User(p)' = User(p) /\ Body(p)' = Body(p)
           /\ Entity(p)' = Entity(p)
           /\ Unreadable(p)' = Unreadable(p) /\ TooNew(p)' = TooNew(p)
           /\ Retimed(p)' = Retimed(p)
<1>1. /\ Target(p)' = Target(p) /\ User(p)' = User(p) /\ Body(p)' = Body(p)
      /\ Retimed(p)' = Retimed(p)
  BY DEF Target, User, Body, Retimed
<1>2. \A cells : SyncedVersion(p, cells)' = SyncedVersion(p, cells)
  BY <1>1 DEF SyncedVersion
<1>3. Entity(p)' = Entity(p)
  BY <1>1 DEF Entity, SyncedVersion
<1> QED BY <1>1, <1>3 DEF Unreadable, TooNew

\* A request keeps its invariant if the rows it holds are not written by others.
LEMMA OtherKept ==
    ASSUME NEW p \in Requests, RequestInv(p), op' = op, Same(p),
           draft[p] # Unlocked => notebook'[Target(p)] = notebook[Target(p)],
           contextDraft[p] # Unlocked => context'[Target(p)] = context[Target(p)]
    PROVE  RequestInv(p)'
<1>0. USE EntityKept DEF Same
<1>1. Admissible(p)'
  BY DEF RequestInv, Admissible
<1>2. Pending(p)'
  <2>1. CASE draft[p] = Unlocked
    BY <2>1 DEF Pending, Unlocked
  <2>2. CASE draft[p] # Unlocked
    BY <2>2 DEF RequestInv, Pending
  <2> QED BY <2>1, <2>2
<1>3. PendingContext(p)'
  <2>1. CASE contextDraft[p] = Unlocked
    BY <2>1 DEF RequestInv, PendingContext, Unlocked
  <2>2. CASE contextDraft[p] # Unlocked
    BY <2>2 DEF RequestInv, PendingContext, StillThere
  <2> QED BY <2>1, <2>2
<1> QED BY <1>1, <1>2, <1>3 DEF RequestInv

\* A step that commits nothing and locks nothing.
LEMMA QuietStep ==
    ASSUME IInv, NEW q \in Requests, op' = op, notebook' = notebook,
           context' = context, TypeInv', RequestInv(q)',
           draft'[q] \in {draft[q], Unlocked},
           contextDraft'[q] \in {contextDraft[q], Unlocked},
           \A p \in Requests \ {q} : Same(p)
    PROVE  IInv'
<1>1. \A p \in Requests \ {q} : RequestInv(p)'
  BY OtherKept DEF IInv
<1>2. Exclusive'
  BY UnlockedEmpty DEF IInv, Exclusive, Same
<1> QED BY <1>1, <1>2 DEF IInv

LEMMA TickKeeps == ASSUME IInv, Tick, UNCHANGED contextVars PROVE IInv'
<1>1. /\ op' = op /\ UNCHANGED <<notebook, draft, pc, first, second, now, answer>>
      /\ UNCHANGED <<context, contextDraft, loaded>>
      /\ clock' \in 0 .. MaxClock
  BY NotebookAssumption DEF Tick, rowVars, contextVars, IInv, TypeInv
<1>2. TypeInv'
  <2>1. \A q \in Requests : now[q] \in 0 .. clock'
    BY NotebookAssumption DEF Tick, IInv, TypeInv
  <2> QED BY <1>1, <2>1 DEF IInv, TypeInv
<1>3. Exclusive'
  BY <1>1 DEF IInv, Exclusive
<1>4. ASSUME NEW p \in Requests PROVE RequestInv(p)'
  BY <1>1, OtherKept DEF IInv, Same
<1> QED BY <1>2, <1>3, <1>4 DEF IInv

LEMMA DecideKeeps ==
    ASSUME IInv, NEW q \in Requests, Decide(q), UNCHANGED contextVars PROVE IInv'
<1>0. /\ UNCHANGED <<clock, notebook, draft, op, second>>
      /\ UNCHANGED <<context, contextDraft, loaded>>
      /\ first' = [first EXCEPT ![q] = notebook[Target(q)]]
      /\ now' = [now EXCEPT ![q] = clock]
      /\ pc[q] = "idle" /\ op[q].kind \in Saves
  BY DEF Decide, rowVars, contextVars
<1>1. \/ pc' = [pc EXCEPT ![q] = "done"] /\ \E a : Answer(q, a)
      \/ /\ pc' = [pc EXCEPT ![q] = "reread"] /\ UNCHANGED answer
         /\ Verdict(q, notebook[Target(q)]) = "save"
  BY DEF Decide, Goto, Finish
<1>2. TypeInv'
  <2>1. \A p \in Requests : RowTyped(first'[p])
    BY <1>0, TargetStored DEF IInv, TypeInv
  <2>2. DOMAIN pc' = Requests /\ DOMAIN answer' = Requests
    BY <1>1 DEF IInv, TypeInv, Answer
  <2> QED BY <1>0, <2>1, <2>2 DEF IInv, TypeInv
<1>3. draft[q] = Unlocked /\ contextDraft[q] = Unlocked
  BY <1>0 DEF IInv, RequestInv, Pending, PendingContext
<1>4. pc'[q] = "reread" => (op[q].kind \in {"create", "patch"} => ~TooNew(q))
  <2>1. SUFFICES ASSUME pc'[q] = "reread", op[q].kind \in {"create", "patch"}
                 PROVE  ~TooNew(q)
    OBVIOUS
  <2>2. Verdict(q, notebook[Target(q)]) = "save"
    BY <1>1, <2>1 DEF IInv, TypeInv
  <2> QED BY <2>1, <2>2 DEF Verdict
<1>5. pc'[q] \in {"done", "reread"}
  BY <1>1 DEF IInv, TypeInv
<1>6. RequestInv(q)'
  <2>1. TooNew(q)' = TooNew(q)
    BY <1>0 DEF TooNew, Body
  <2> QED BY <1>0, <1>3, <1>4, <1>5, <2>1
          DEF RequestInv, Admissible, Pending, PendingContext, Unlocked
<1>7. \A p \in Requests \ {q} : Same(p)
  BY <1>0, <1>1 DEF Same, IInv, TypeInv
<1> QED BY <1>0, <1>2, <1>6, <1>7, QuietStep

LEMMA RereadKeeps ==
    ASSUME IInv, NEW q \in Requests, Reread(q), UNCHANGED contextVars PROVE IInv'
<1>1. /\ UNCHANGED <<clock, notebook, draft, op, first, now, answer>>
      /\ UNCHANGED <<context, contextDraft, loaded>>
      /\ second' = [second EXCEPT ![q] = notebook[Target(q)]]
      /\ pc' = [pc EXCEPT ![q] = "flush"] /\ pc[q] = "reread"
  BY DEF Reread, Goto, rowVars, contextVars
<1>2. TypeInv'
  BY <1>1, TargetStored DEF IInv, TypeInv
<1>3. draft[q] = Unlocked /\ contextDraft[q] = Unlocked /\ Admissible(q)
  BY <1>1 DEF IInv, RequestInv, Pending, PendingContext
<1>4. RequestInv(q)'
  <2>1. TooNew(q)' = TooNew(q) /\ pc'[q] = "flush"
    BY <1>1 DEF TooNew, Body, IInv, TypeInv
  <2> QED BY <1>1, <1>3, <2>1
          DEF RequestInv, Admissible, Pending, PendingContext, Unlocked
<1>5. \A p \in Requests \ {q} : Same(p)
  BY <1>1 DEF Same, IInv, TypeInv
<1> QED BY <1>1, <1>2, <1>4, <1>5, QuietStep

\* The end of a request that rolls its transaction back.
LEMMA EndKeeps ==
    ASSUME IInv, NEW q \in Requests, NEW label, label \in {"done", "lost"},
           UNCHANGED <<clock, notebook, op, first, second, now, context, loaded>>,
           pc' = [pc EXCEPT ![q] = label], DOMAIN answer' = Requests,
           \/ draft' = [draft EXCEPT ![q] = Unlocked]
           \/ draft' = draft /\ draft[q] = Unlocked,
           \/ contextDraft' = [contextDraft EXCEPT ![q] = Unlocked]
           \/ contextDraft' = contextDraft /\ contextDraft[q] = Unlocked
    PROVE  IInv'
<1>1. TypeInv'
  BY DEF IInv, TypeInv
<1>2. draft'[q] = Unlocked /\ contextDraft'[q] = Unlocked /\ pc'[q] = label
  BY DEF IInv, TypeInv
<1>3. RequestInv(q)'
  BY <1>2 DEF RequestInv, Admissible, Pending, PendingContext, Unlocked
<1>4. \A p \in Requests \ {q} : Same(p)
  BY DEF Same, IInv, TypeInv
<1> QED BY <1>1, <1>2, <1>3, <1>4, QuietStep

LEMMA FlushFailsKeeps ==
    ASSUME IInv, NEW q \in Requests, FlushFails(q), UNCHANGED contextVars PROVE IInv'
<1>1. /\ UNCHANGED <<clock, notebook, op, first, second, now>>
      /\ UNCHANGED <<context, contextDraft, loaded>>
      /\ pc' = [pc EXCEPT ![q] = "done"] /\ pc[q] = "flush"
      /\ answer' = [answer EXCEPT ![q] = "error"]
      /\ draft' = [draft EXCEPT ![q] = Unlocked]
  BY DEF FlushFails, Fail, Finish, Answer, Rollback, contextVars
<1>2. contextDraft[q] = Unlocked /\ DOMAIN answer' = Requests
  BY <1>1 DEF IInv, TypeInv, RequestInv, PendingContext
<1>3. UNCHANGED <<clock, notebook, op, first, second, now, context, loaded>>
  BY <1>1
<1>4. contextDraft' = contextDraft /\ contextDraft[q] = Unlocked
  BY <1>1, <1>2
<1> QED BY <1>1, <1>2, <1>3, <1>4, EndKeeps

LEMMA LoseKeeps ==
    ASSUME IInv, NEW q \in Requests, Lose(q), UNCHANGED contextVars PROVE IInv'
<1>1. /\ UNCHANGED <<clock, notebook, op, first, second, now, answer>>
      /\ UNCHANGED <<context, contextDraft, loaded>>
      /\ pc' = [pc EXCEPT ![q] = "lost"] /\ pc[q] \in {"reread", "flush", "commit"}
      /\ draft' = [draft EXCEPT ![q] = Unlocked]
  BY DEF Lose, Goto, Rollback, contextVars
<1>2. contextDraft[q] = Unlocked /\ DOMAIN answer' = Requests
  BY <1>1 DEF IInv, TypeInv, RequestInv, PendingContext
<1>3. UNCHANGED <<clock, notebook, op, first, second, now, context, loaded>>
  BY <1>1
<1>4. contextDraft' = contextDraft /\ contextDraft[q] = Unlocked
  BY <1>1, <1>2
<1> QED BY <1>1, <1>2, <1>3, <1>4, EndKeeps

LEMMA FlushKeeps ==
    ASSUME IInv, NEW q \in Requests, Flush(q), UNCHANGED contextVars PROVE IInv'
<1>1. /\ UNCHANGED <<clock, notebook, op, first, second, now>>
      /\ UNCHANGED <<context, contextDraft, loaded>>
      /\ pc' = [pc EXCEPT ![q] = "commit"] /\ pc[q] = "flush" /\ ~Unreadable(q)
      /\ \E a : answer' = [answer EXCEPT ![q] = a]
  BY DEF Flush, Answer, contextVars
<1>2. TypeInv'
  <2>1. DOMAIN pc' = Requests /\ DOMAIN answer' = Requests
    BY <1>1 DEF IInv, TypeInv
  <2>2. DOMAIN draft' = Requests
    BY WriteEffect DEF Flush, Write, IInv, TypeInv
  <2> QED BY <1>1, <2>1, <2>2 DEF IInv, TypeInv
<1>3. draft[q] = Unlocked /\ contextDraft[q] = Unlocked /\ Admissible(q)
  BY <1>1 DEF IInv, RequestInv, Pending, PendingContext
<1>4. /\ Target(q)' = Target(q) /\ Entity(q)' = Entity(q)
      /\ Unreadable(q)' = Unreadable(q) /\ TooNew(q)' = TooNew(q)
  BY <1>1, EntityKept
<1>5. pc'[q] = "commit"
  BY <1>1 DEF IInv, TypeInv
<1>6. Admissible(q)' /\ PendingContext(q)'
  BY <1>1, <1>3, <1>4, <1>5 DEF Admissible, PendingContext, Unlocked
<1>7. \A p \in Requests \ {q} : pc'[p] = pc[p]
  BY <1>1 DEF IInv, TypeInv
<1>8. CASE draft' = draft
  <2>1. RequestInv(q)'
    BY <1>3, <1>6, <1>8 DEF RequestInv, Pending, Unlocked
  <2>2. \A p \in Requests \ {q} : Same(p)
    BY <1>1, <1>7, <1>8 DEF Same
  <2> QED BY <1>1, <1>2, <1>8, <2>1, <2>2, QuietStep
<1>9. ASSUME NEW anew \in SUBSET Retimed(q), Writable(q),
             Write(q, Target(q),
                   Flushed(second[q], Entity(q), notebook[Target(q)], anew))
      PROVE  IInv'
  <2>1. /\ DOMAIN draft'[q] = {Target(q)}
        /\ draft'[q][Target(q)] =
             Flushed(second[q], Entity(q), notebook[Target(q)], anew)
        /\ \A p \in Requests \ {q} : draft'[p] = draft[p]
    <3>1. DOMAIN draft = Requests /\ DOMAIN draft[q] = {}
      BY <1>3, UnlockedEmpty DEF IInv, TypeInv
    <3> QED BY <1>9, <3>1, WriteEffect DEF Write
  <2>2. RequestInv(q)'
    <3>1. Retimed(q)' = Retimed(q)
      BY <1>1 DEF Retimed
    <3>2. draft'[q][Target(q)] =
            Flushed(second'[q], Entity(q)', notebook'[Target(q)'], anew)
      BY <1>1, <1>4, <2>1
    <3>3. Pending(q)'
      BY <1>1, <1>4, <1>5, <2>1, <3>1, <3>2 DEF Pending
    <3> QED BY <1>6, <3>3 DEF RequestInv
  <2>3. \A p \in Requests \ {q} : Same(p)
    BY <1>1, <1>7, <2>1 DEF Same
  <2>4. \A p \in Requests \ {q} : RequestInv(p)'
    BY <1>1, <2>3, OtherKept DEF IInv
  <2>5. \A p \in Requests \ {q} : Target(q) \notin DOMAIN draft[p]
    BY <1>9 DEF Writable, LockedByOther
  <2>6. Exclusive'
    BY <1>1, <2>1, <2>5 DEF IInv, Exclusive
  <2> QED BY <1>2, <2>2, <2>4, <2>6 DEF IInv
<1>10. \/ draft' = draft
       \/ \E anew \in SUBSET Retimed(q) :
            /\ Writable(q)
            /\ Write(q, Target(q),
                     Flushed(second[q], Entity(q), notebook[Target(q)], anew))
  BY DEF Flush
<1> QED BY <1>8, <1>9, <1>10

\* What a commit makes of the notebooks.
LEMMA CommitEffect ==
    ASSUME IInv, NEW q \in Requests, CommitRequest(q)
    PROVE  /\ DOMAIN notebook' = Notebooks
           /\ \A n \in Notebooks : n # Target(q) => notebook'[n] = notebook[n]
           /\ \/ notebook'[Target(q)] = notebook[Target(q)]
              \/ /\ DOMAIN draft[q] = {Target(q)} /\ ~Unreadable(q)
                 /\ \E anew \in SUBSET Retimed(q) :
                      notebook'[Target(q)] =
                        Flushed(second[q], Entity(q), notebook[Target(q)], anew)
           /\ draft[q] = Unlocked => \A n \in Notebooks : notebook'[n] = notebook[n]
<1>1. notebook' = [n \in Notebooks |-> Seen(q, n)]
  BY DEF CommitRequest, Commit
<1>2. Pending(q) /\ Target(q) \in Notebooks
  BY TargetStored DEF IInv, RequestInv
<1>3. CASE draft[q] = Unlocked
  BY <1>1, <1>2, <1>3, UnlockedEmpty DEF Seen
<1>4. CASE draft[q] # Unlocked
  BY <1>1, <1>2, <1>4 DEF Seen, Pending
<1> QED BY <1>3, <1>4

\* A row that was locked is written.
LEMMA FlushedCommitted ==
    ASSUME IInv, NEW q \in Requests, CommitRequest(q), draft[q] # Unlocked
    PROVE  \E anew \in SUBSET Retimed(q) :
             notebook'[Target(q)] =
               Flushed(second[q], Entity(q), notebook[Target(q)], anew)
<1>1. notebook' = [n \in Notebooks |-> Seen(q, n)]
  BY DEF CommitRequest, Commit
<1>2. Pending(q) /\ Target(q) \in Notebooks
  BY TargetStored DEF IInv, RequestInv
<1> QED BY <1>1, <1>2 DEF Seen, Pending

LEMMA CommitKeeps ==
    ASSUME IInv, NEW q \in Requests, CommitRequest(q), UNCHANGED contextVars PROVE IInv'
<1>1. /\ UNCHANGED <<clock, op, first, second, now, answer>>
      /\ UNCHANGED <<context, contextDraft, loaded>>
      /\ pc' = [pc EXCEPT ![q] = "done"] /\ pc[q] = "commit"
      /\ draft' = [draft EXCEPT ![q] = Unlocked]
  BY DEF CommitRequest, Commit, contextVars
<1>2. RowTyped(notebook'[Target(q)])
  <2>1. Target(q) \in Notebooks /\ Admissible(q)
    BY TargetStored DEF IInv, RequestInv
  <2>2. RowTyped(notebook[Target(q)])
    BY <2>1 DEF IInv, TypeInv
  <2>3. ~Unreadable(q) => RowTyped(Entity(q))
    BY <1>1, <2>1, EntityTyped DEF IInv, Admissible
  <2> QED BY <2>2, <2>3, CommitEffect, FlushedTyped
<1>3. TypeInv'
  BY <1>1, <1>2, CommitEffect DEF IInv, TypeInv
<1>4. draft'[q] = Unlocked /\ pc'[q] = "done" /\ contextDraft'[q] = Unlocked
  BY <1>1 DEF IInv, TypeInv, RequestInv, PendingContext
<1>5. RequestInv(q)'
  BY <1>4 DEF RequestInv, Admissible, Pending, PendingContext, Unlocked
<1>6. \A p \in Requests \ {q} : Same(p)
  BY <1>1 DEF Same, IInv, TypeInv
<1>7. ASSUME NEW p \in Requests \ {q} PROVE RequestInv(p)'
  <2>1. draft[p] # Unlocked => notebook'[Target(p)] = notebook[Target(p)]
    <3>1. SUFFICES ASSUME draft[p] # Unlocked
                   PROVE  notebook'[Target(p)] = notebook[Target(p)]
      OBVIOUS
    <3>2. DOMAIN draft[p] = {Target(p)} /\ Target(p) \in Notebooks
      BY <3>1, TargetStored DEF IInv, RequestInv, Pending
    <3>3. Target(p) \notin DOMAIN draft[q]
      BY <3>2 DEF IInv, Exclusive
    <3> QED BY <3>2, <3>3, CommitEffect
  <2> QED BY <1>1, <1>6, <2>1, OtherKept DEF IInv
<1>8. Exclusive'
  BY <1>4, <1>6, UnlockedEmpty DEF IInv, Exclusive, Same
<1> QED BY <1>3, <1>5, <1>7, <1>8 DEF IInv

-----------------------------------------------------------------------------
(* Steps on a context.                                                      *)

LEMMA CheckNotebookKeeps ==
    ASSUME IInv, NEW q \in Requests, CheckNotebook(q) PROVE IInv'
<1>1. /\ UNCHANGED <<clock, notebook, draft, op, second, now>>
      /\ UNCHANGED <<context, contextDraft, loaded>>
      /\ first' = [first EXCEPT ![q] = notebook[Target(q)]]
      /\ pc[q] = "idle"
  BY DEF CheckNotebook, rowVars, contextVars
<1>2. \/ pc' = [pc EXCEPT ![q] = "done"] /\ \E a : Answer(q, a)
      \/ pc' = [pc EXCEPT ![q] = "context"] /\ UNCHANGED answer
  <2>1. PICK row : \/ Finish(q, "unprocessable") \/ Finish(q, "not_found")
                   \/ Finish(q, "forbidden") \/ Goto(q, "context")
    BY DEF CheckNotebook
  <2> QED BY <2>1 DEF Finish, Goto
<1>3. TypeInv'
  <2>1. \A p \in Requests : RowTyped(first'[p])
    BY <1>1, TargetStored DEF IInv, TypeInv
  <2>2. DOMAIN pc' = Requests /\ DOMAIN answer' = Requests
    BY <1>2 DEF IInv, TypeInv, Answer
  <2> QED BY <1>1, <2>1, <2>2 DEF IInv, TypeInv
<1>4. /\ draft[q] = Unlocked /\ contextDraft[q] = Unlocked
      /\ pc'[q] \in {"done", "context"} /\ op[q].kind \in ContextKinds
  BY <1>1, <1>2 DEF CheckNotebook, IInv, TypeInv, RequestInv, Pending, PendingContext
<1>5. RequestInv(q)'
  BY <1>1, <1>4 DEF RequestInv, Admissible, Pending, PendingContext, Unlocked
<1>6. \A p \in Requests \ {q} : Same(p)
  BY <1>1, <1>2 DEF Same, IInv, TypeInv
<1> QED BY <1>1, <1>3, <1>5, <1>6, QuietStep

LEMMA ReadContextKeeps ==
    ASSUME IInv, NEW q \in Requests, ReadContext(q) PROVE IInv'
<1>1. /\ UNCHANGED <<clock, notebook, draft, op, first, second, now>>
      /\ UNCHANGED <<context, contextDraft>>
      /\ loaded' = [loaded EXCEPT ![q] = context[Target(q)]]
      /\ pc[q] = "context"
  BY DEF ReadContext, rowVars
<1>2. \/ pc' = [pc EXCEPT ![q] = "done"] /\ \E a : Answer(q, a)
      \/ pc' = [pc EXCEPT ![q] = "write"] /\ UNCHANGED answer
  BY DEF ReadContext, Finish, Goto
<1>3. TypeInv'
  BY <1>1, <1>2 DEF IInv, TypeInv, Answer
<1>4. draft[q] = Unlocked /\ contextDraft[q] = Unlocked /\ pc'[q] \in {"done", "write"}
  BY <1>1, <1>2 DEF IInv, TypeInv, RequestInv, Pending, PendingContext
<1>5. pc'[q] = "write" => op[q].kind \in {"store", "clear"}
  <2>1. op[q].kind \in ContextKinds
    BY <1>1 DEF IInv, RequestInv, PendingContext
  <2>2. op[q].kind = "load" => pc' = [pc EXCEPT ![q] = "done"]
    BY DEF ReadContext, Finish
  <2> QED BY <2>1, <2>2 DEF ContextKinds, IInv, TypeInv
<1>6. RequestInv(q)'
  BY <1>1, <1>4, <1>5 DEF RequestInv, Admissible, Pending, PendingContext, Unlocked
<1>7. \A p \in Requests \ {q} : Same(p)
  BY <1>1, <1>2 DEF Same, IInv, TypeInv
<1> QED BY <1>1, <1>3, <1>6, <1>7, QuietStep

\* A row of contexts is locked and written.
LEMMA ContextWrittenKeeps ==
    ASSUME IInv, NEW q \in Requests, NEW row, ContextUnlocked(q),
           ContextWritten(q, row), op[q].kind \in {"store", "clear"},
           op[q].kind = "store" => StillThere(q),
           op[q].kind = "clear" => row = NoContext
    PROVE  IInv'
<1>1. /\ UNCHANGED <<clock, notebook, draft, op, first, second, now>>
      /\ UNCHANGED <<context, loaded>>
      /\ pc' = [pc EXCEPT ![q] = "context_commit"] /\ pc[q] = "write"
      /\ answer' = [answer EXCEPT ![q] = "ok"]
  BY DEF ContextUnlocked, ContextWritten, Answer, rowVars
<1>2. draft[q] = Unlocked /\ contextDraft[q] = Unlocked
  BY <1>1 DEF IInv, RequestInv, Pending, PendingContext
<1>3. /\ DOMAIN contextDraft' = Requests
      /\ DOMAIN contextDraft'[q] = {Target(q)} /\ contextDraft'[q][Target(q)] = row
      /\ \A p \in Requests \ {q} : contextDraft'[p] = contextDraft[p]
  <2>1. DOMAIN contextDraft = Requests /\ DOMAIN contextDraft[q] = {}
    BY <1>2, UnlockedEmpty DEF IInv, TypeInv
  <2> QED BY <2>1, WriteEffect DEF ContextWritten, ContextLock!Write
<1>4. TypeInv'
  BY <1>1, <1>3 DEF IInv, TypeInv
<1>5. pc'[q] = "context_commit" /\ Target(q)' = Target(q)
  BY <1>1 DEF IInv, TypeInv, Target, User
<1>6. RequestInv(q)'
  BY <1>1, <1>2, <1>3, <1>5
     DEF RequestInv, Admissible, Pending, PendingContext, Unlocked, StillThere
<1>7. \A p \in Requests \ {q} : Same(p)
  BY <1>1, <1>3 DEF Same, IInv, TypeInv
<1>8. \A p \in Requests \ {q} : RequestInv(p)'
  BY <1>1, <1>7, OtherKept DEF IInv
<1>9. \A p \in Requests \ {q} : Target(q) \notin DOMAIN contextDraft[p]
  BY DEF ContextUnlocked, ContextLock!LockedByOther
<1>10. Exclusive'
  BY <1>1, <1>3, <1>9 DEF IInv, Exclusive
<1> QED BY <1>4, <1>6, <1>8, <1>10 DEF IInv

LEMMA StoreContextKeeps ==
    ASSUME IInv, NEW q \in Requests, StoreContext(q) PROVE IInv'
BY ContextWrittenKeeps DEF StoreContext

LEMMA ClearContextKeeps ==
    ASSUME IInv, NEW q \in Requests, ClearContext(q) PROVE IInv'
BY ContextWrittenKeeps DEF ClearContext

LEMMA StoreFailsKeeps ==
    ASSUME IInv, NEW q \in Requests, StoreFails(q) PROVE IInv'
<1>1. /\ UNCHANGED <<clock, notebook, op, first, second, now, context, loaded>>
      /\ draft' = draft /\ contextDraft' = contextDraft
      /\ pc' = [pc EXCEPT ![q] = "done"] /\ pc[q] = "write"
      /\ answer' = [answer EXCEPT ![q] = "error"]
  BY DEF StoreFails, ContextUnlocked, Finish, Answer, rowVars, contextVars
<1>2. /\ draft[q] = Unlocked /\ contextDraft[q] = Unlocked
      /\ DOMAIN answer' = Requests
  BY <1>1 DEF IInv, TypeInv, RequestInv, Pending, PendingContext
<1> QED BY <1>1, <1>2, EndKeeps

LEMMA LoseContextKeeps ==
    ASSUME IInv, NEW q \in Requests, LoseContext(q) PROVE IInv'
<1>1. /\ UNCHANGED <<clock, notebook, op, first, second, now, context, loaded>>
      /\ draft' = draft /\ contextDraft' = [contextDraft EXCEPT ![q] = Unlocked]
      /\ pc' = [pc EXCEPT ![q] = "lost"]
      /\ pc[q] \in {"context", "write", "context_commit"} /\ answer' = answer
  BY DEF LoseContext, Goto, ContextLock!Rollback, ContextLock!Unlocked, Unlocked, rowVars
<1>2. draft[q] = Unlocked /\ DOMAIN answer' = Requests
  BY <1>1 DEF IInv, TypeInv, RequestInv, Pending
<1> QED BY <1>1, <1>2, EndKeeps

\* What a commit makes of the contexts.
LEMMA CommitContextEffect ==
    ASSUME IInv, NEW q \in Requests, CommitContext(q)
    PROVE  /\ DOMAIN context' = Notebooks
           /\ \A n \in Notebooks : n \notin DOMAIN contextDraft[q] =>
                  context'[n] = context[n]
           /\ \A n \in Notebooks : n \in DOMAIN contextDraft[q] =>
                  n = Target(q) /\ context'[n] = contextDraft[q][Target(q)]
<1>1. context' = [n \in Notebooks |-> ContextLock!Seen(q, n)]
  BY DEF CommitContext, ContextLock!Commit
<1>2. PendingContext(q)
  BY DEF IInv, RequestInv
<1> QED BY <1>1, <1>2, UnlockedEmpty DEF ContextLock!Seen, PendingContext

LEMMA CommitContextKeeps ==
    ASSUME IInv, NEW q \in Requests, CommitContext(q) PROVE IInv'
<1>1. /\ UNCHANGED <<clock, notebook, draft, op, first, second, now, answer, loaded>>
      /\ pc' = [pc EXCEPT ![q] = "done"] /\ pc[q] = "context_commit"
      /\ contextDraft' = [contextDraft EXCEPT ![q] = Unlocked]
  BY DEF CommitContext, ContextLock!Commit, ContextLock!Unlocked, Unlocked, rowVars
<1>2. TypeInv'
  BY <1>1 DEF IInv, TypeInv
<1>3. draft'[q] = Unlocked /\ pc'[q] = "done" /\ contextDraft'[q] = Unlocked
  BY <1>1 DEF IInv, TypeInv, RequestInv, Pending
<1>4. RequestInv(q)'
  BY <1>3 DEF RequestInv, Admissible, Pending, PendingContext, Unlocked
<1>5. \A p \in Requests \ {q} : Same(p)
  BY <1>1 DEF Same, IInv, TypeInv
<1>6. ASSUME NEW p \in Requests \ {q} PROVE RequestInv(p)'
  <2>1. contextDraft[p] # Unlocked => context'[Target(p)] = context[Target(p)]
    <3>1. SUFFICES ASSUME contextDraft[p] # Unlocked
                   PROVE  context'[Target(p)] = context[Target(p)]
      OBVIOUS
    <3>2. DOMAIN contextDraft[p] = {Target(p)} /\ Target(p) \in Notebooks
      BY <3>1, TargetStored DEF IInv, RequestInv, PendingContext
    <3>3. Target(p) \notin DOMAIN contextDraft[q]
      BY <3>2 DEF IInv, Exclusive
    <3> QED BY <3>2, <3>3, CommitContextEffect
  <2> QED BY <1>1, <1>5, <2>1, OtherKept DEF IInv
<1>7. Exclusive'
  BY <1>3, <1>5, UnlockedEmpty DEF IInv, Exclusive, Same
<1> QED BY <1>2, <1>4, <1>6, <1>7 DEF IInv

-----------------------------------------------------------------------------
LEMMA StepHolds == IInv /\ [ContextNext]_<<vars, contextVars>> => IInv'
<1> SUFFICES ASSUME IInv, [ContextNext]_<<vars, contextVars>> PROVE IInv'
  OBVIOUS
<1>1. CASE UNCHANGED <<vars, contextVars>>
  <2>1. /\ UNCHANGED <<clock, op, notebook, draft, pc, first, second, now, answer>>
        /\ UNCHANGED <<context, contextDraft, loaded>>
    BY <1>1 DEF vars, contextVars
  <2>2. TypeInv' /\ Exclusive'
    BY <2>1 DEF IInv, TypeInv, Exclusive
  <2>3. ASSUME NEW p \in Requests PROVE RequestInv(p)'
    BY <2>1, OtherKept DEF IInv, Same
  <2> QED BY <2>2, <2>3 DEF IInv
<1>2. CASE Tick /\ UNCHANGED contextVars
  BY <1>2, TickKeeps
<1>3. ASSUME NEW q \in Requests, UNCHANGED contextVars, Decide(q) \/ Save(q) \/ Lose(q)
      PROVE  IInv'
  BY <1>3, DecideKeeps, RereadKeeps, FlushKeeps, FlushFailsKeeps, CommitKeeps, LoseKeeps
     DEF Save
<1>4. ASSUME NEW q \in Requests, ContextStep(q) PROVE IInv'
  BY <1>4, CheckNotebookKeeps, ReadContextKeeps, StoreContextKeeps, StoreFailsKeeps,
     ClearContextKeeps, CommitContextKeeps, LoseContextKeeps DEF ContextStep
<1> QED BY <1>1, <1>2, <1>3, <1>4 DEF ContextNext, Next

\* The invariant holds of any notebooks, requests and interleaving of them
\* (NotebookRepository.save, AiContextRepository, get_db).
THEOREM Invariance == ContextSpec => []IInv
<1> QED BY InitHolds, StepHolds, PTL DEF ContextSpec

\* Rows keep the columns' types, and a request locks its own notebook only,
\* which no other has locked, between its flush and its commit.
THEOREM TypeCorrect == ContextSpec => []TypeOK
<1>1. IInv => TypeOK
  <2> SUFFICES ASSUME IInv PROVE TypeOK
    OBVIOUS
  <2>1. \A n \in Notebooks :
          /\ DOMAIN notebook[n] = DOMAIN NoRow
          /\ notebook[n].owner \in Users \cup {NoUser}
          /\ notebook[n].format \in 1 .. CurrentFormat
    BY DEF IInv, TypeInv, RowTyped
  <2>2. ASSUME NEW n \in Notebooks, NEW q \in Requests, n \in DOMAIN draft[q]
        PROVE  ~LockedByOther(q, n) /\ n = Target(q)
    <3>1. n = Target(q)
      BY <2>2, UnlockedEmpty DEF IInv, RequestInv, Pending
    <3>2. ~LockedByOther(q, n)
      BY <2>2 DEF IInv, Exclusive, LockedByOther
    <3> QED BY <3>1, <3>2
  <2>3. \A q \in Requests : draft[q] # Unlocked => pc[q] = "commit"
    BY DEF IInv, RequestInv, Pending
  <2> QED BY <2>1, <2>2, <2>3 DEF TypeOK, IInv, TypeInv
<1> QED BY <1>1, Invariance, PTL

\* Whatever was merged and however requests overlapped, a stored notebook can
\* be read again: to_response fails before the commit.
THEOREM StoredIsReadableAlways == ContextSpec => []StoredIsReadable
<1>1. IInv => StoredIsReadable
  BY DEF IInv, TypeInv, RowTyped, StoredIsReadable
<1> QED BY <1>1, Invariance, PTL

\* Rows, as they are stored or were read, have a time that is near.
Near(row) == row.updated <= clock + FutureSkew
NearInv ==
    /\ \A n \in Notebooks : Near(notebook[n])
    /\ \A q \in Requests : Near(first[q]) /\ Near(second[q])

\* A request's own version of its row is no further ahead.
LEMMA EntityNear ==
    ASSUME IInv, NearInv, NEW q \in Requests, op[q].kind \in Saves
    PROVE  Near(Entity(q))
<1>1. RowTyped(first[q]) /\ Near(first[q])
  BY DEF IInv, TypeInv, NearInv
<1>2. CASE op[q].kind \in {"delete", "restore"}
  BY <1>1, <1>2 DEF Entity, Near, RowTyped, NoRow
<1>3. CASE op[q].kind \in {"create", "patch"}
  <2>1. PICK cells : Entity(q) = SyncedVersion(q, cells) /\ IsCells(cells)
    BY <1>3, EntityVersion DEF IInv
  <2>2. Entity(q).updated = ComputeUpdatedAt(cells, now[q])
    BY <1>1, <2>1 DEF SyncedVersion, RowTyped, NoRow
  <2>3. now[q] \in Int /\ clock \in Int /\ now[q] <= clock
    BY DEF IInv, TypeInv
  <2>4. /\ ComputeUpdatedAt(cells, now[q]) \in Int
        /\ ComputeUpdatedAt(cells, now[q]) <= now[q] + FutureSkew
    BY <2>1, <2>3, UpdatedAtBound
  <2> QED BY <2>2, <2>3, <2>4, MergeAssumption DEF Near
<1> QED BY <1>2, <1>3 DEF Saves

\* What a step may write to the notebooks and to what requests have read.
LEMMA RowsMove ==
    ASSUME IInv, [ContextNext]_<<vars, contextVars>>
    PROVE  \/ UNCHANGED <<notebook, first, second>>
           \/ \E q \in Requests :
                /\ UNCHANGED <<notebook, second, clock>> /\ pc[q] = "idle"
                /\ first' = [first EXCEPT ![q] = notebook[Target(q)]]
           \/ \E q \in Requests :
                /\ UNCHANGED <<notebook, first, clock>> /\ pc[q] = "reread"
                /\ second' = [second EXCEPT ![q] = notebook[Target(q)]]
           \/ \E q \in Requests :
                CommitRequest(q) /\ UNCHANGED <<first, second, clock>>
<1>1. CASE \E q \in Requests : Decide(q) \/ CheckNotebook(q)
  BY <1>1 DEF Decide, CheckNotebook, rowVars
<1>2. CASE \E q \in Requests : Reread(q)
  BY <1>2 DEF Reread, rowVars
<1>3. CASE \E q \in Requests : CommitRequest(q)
  BY <1>3 DEF CommitRequest
<1>4. CASE UNCHANGED <<notebook, first, second>>
  BY <1>4
<1>5. \/ \E q \in Requests : Decide(q) \/ CheckNotebook(q)
      \/ \E q \in Requests : Reread(q)
      \/ \E q \in Requests : CommitRequest(q)
      \/ UNCHANGED <<notebook, first, second>>
  BY DEF ContextNext, Next, Save, ContextStep, vars, rowVars, Tick, Flush, FlushFails,
         Fail, Rollback, Lose, ReadContext, StoreContext, StoreFails, ClearContext,
         ContextWritten, CommitContext, LoseContext
<1> QED BY <1>1, <1>2, <1>3, <1>4, <1>5

LEMMA NearStep ==
    ASSUME IInv, NearInv, [ContextNext]_<<vars, contextVars>>
    PROVE  NearInv'
<1>1. clock \in Int /\ clock' \in Int /\ clock <= clock'
  <2>1. UNCHANGED clock \/ Tick
    BY DEF ContextNext, Next, Save, ContextStep, vars, Decide, Reread, Flush,
           FlushFails, Fail, Lose, CommitRequest, CheckNotebook, ReadContext,
           StoreContext, StoreFails, ClearContext, ContextWritten, CommitContext,
           LoseContext
  <2> QED BY <2>1 DEF Tick, IInv, TypeInv
<1>2. ASSUME NEW row, RowTyped(row), Near(row) PROVE Near(row)'
  BY <1>1, <1>2, MergeAssumption DEF RowTyped, Near
<1>3. /\ \A n \in Notebooks : RowTyped(notebook[n]) /\ Near(notebook[n])
      /\ \A q \in Requests : /\ RowTyped(first[q]) /\ Near(first[q])
                             /\ RowTyped(second[q]) /\ Near(second[q])
      /\ DOMAIN first = Requests /\ DOMAIN second = Requests
      /\ \A q \in Requests : Target(q) \in Notebooks
  BY TargetStored DEF IInv, TypeInv, NearInv
<1>4. CASE UNCHANGED <<notebook, first, second>>
  BY <1>2, <1>3, <1>4 DEF NearInv, Near
<1>5. ASSUME NEW q \in Requests, UNCHANGED <<notebook, second, clock>>,
             first' = [first EXCEPT ![q] = notebook[Target(q)]]
      PROVE  NearInv'
  BY <1>3, <1>5 DEF NearInv, Near
<1>6. ASSUME NEW q \in Requests, UNCHANGED <<notebook, first, clock>>,
             second' = [second EXCEPT ![q] = notebook[Target(q)]]
      PROVE  NearInv'
  BY <1>3, <1>6 DEF NearInv, Near
<1>7. ASSUME NEW q \in Requests, CommitRequest(q), UNCHANGED <<first, second, clock>>
      PROVE  NearInv'
  <2>1. pc[q] = "commit" /\ Admissible(q)
    BY <1>7 DEF CommitRequest, IInv, RequestInv
  <2>2. Near(Entity(q)) /\ Near(notebook[Target(q)])
    BY <1>3, <2>1, EntityNear DEF Admissible
  <2>3. \A anew : Near(Flushed(second[q], Entity(q), notebook[Target(q)], anew))
    <3>1. RowTyped(notebook[Target(q)])
      BY <1>3
    <3> QED BY <2>2, <3>1 DEF Flushed, Near, RowTyped, NoRow
  <2>4. \A n \in Notebooks : Near(notebook'[n])
    BY <1>3, <1>7, <2>2, <2>3, CommitEffect
  <2> QED BY <1>3, <1>7, <2>4 DEF NearInv, Near
<1> QED BY <1>4, <1>5, <1>6, <1>7, RowsMove

\* No client's clock puts a notebook further ahead than the allowed skew,
\* whatever was merged (_compute_updated_at).
THEOREM UpdatedIsNearAlways == ContextSpec => []UpdatedIsNear
<1>1. ContextInit => NearInv
  <2> SUFFICES ASSUME ContextInit PROVE NearInv
    OBVIOUS
  <2>1. clock = 0 /\ \A n \in Notebooks : notebook[n] \in Seeds \cup {NoRow}
    BY DEF ContextInit, Init
  <2>2. \A q \in Requests : first[q] = NoRow /\ second[q] = NoRow
    BY DEF ContextInit, Init
  <2>3. \A row \in Seeds \cup {NoRow} : Near(row)
    <3>1. \A row \in Seeds : row.updated \in Int /\ row.updated <= FutureSkew
      BY InputsAssumption
    <3>2. NoRow.updated = 0
      BY DEF NoRow
    <3> QED BY <2>1, <3>1, <3>2, MergeAssumption DEF Near
  <2> QED BY <2>1, <2>2, <2>3 DEF NearInv
<1>2. NearInv => UpdatedIsNear
  BY DEF NearInv, Near, UpdatedIsNear
<1> QED BY <1>1, <1>2, NearStep, Invariance, PTL DEF ContextSpec

\* A deletion is undone by a restoration, or by a save that overlapped it: one
\* that had found the notebook alive and writes deleted_at back when it reads it
\* again as deleted.  Every other answer of DELETE is kept (notebooks_controller).
THEOREM RevivedByRestoreOrOverlapAlways == ContextSpec => RevivedByRestoreOrOverlap
<1> DEFINE Revived ==
      \A n \in Notebooks :
         notebook[n].deleted /\ ~notebook'[n].deleted =>
            \E q \in Requests :
                /\ Target(q) = n /\ pc[q] = "commit" /\ pc'[q] = "done"
                /\ second[q].deleted
                /\ op[q].kind = "restore" \/ ~first[q].deleted
<1>1. ASSUME IInv, [ContextNext]_<<vars, contextVars>> PROVE [Revived]_vars
  <2>1. CASE notebook' = notebook
    BY <2>1
  <2>2. ASSUME NEW q \in Requests, CommitRequest(q) PROVE Revived
    <3> SUFFICES ASSUME NEW n \in Notebooks, notebook[n].deleted, ~notebook'[n].deleted
                 PROVE  /\ Target(q) = n /\ pc[q] = "commit" /\ pc'[q] = "done"
                        /\ second[q].deleted
                        /\ op[q].kind = "restore" \/ ~first[q].deleted
      OBVIOUS
    <3>1. /\ Target(q) = n /\ ~Unreadable(q)
          /\ \E anew \in SUBSET Retimed(q) :
               notebook'[n] = Flushed(second[q], Entity(q), notebook[n], anew)
      BY <1>1, <2>2, CommitEffect
    <3>2. pc[q] = "commit" /\ pc'[q] = "done"
      BY <1>1, <2>2 DEF CommitRequest, IInv, TypeInv
    <3>3. op[q].kind \in Saves /\ RowTyped(Entity(q)) /\ RowTyped(second[q])
      BY <1>1, <3>1, <3>2, EntityTyped DEF IInv, RequestInv, Admissible, TypeInv
    <3>4. RowTyped(notebook[n]) /\ RowTyped(first[q])
      BY <1>1 DEF IInv, TypeInv
    <3>5. op[q].kind = "delete" => Entity(q).deleted
      BY <3>4 DEF Entity, RowTyped, NoRow
    <3>6. second[q].deleted /\ ~Entity(q).deleted
      <4>1. PICK anew \in SUBSET Retimed(q) :
              notebook'[n] = Flushed(second[q], Entity(q), notebook[n], anew)
        BY <3>1
      <4>2. "deleted" \in anew => op[q].kind = "delete"
        BY DEF Retimed
      <4> QED BY <3>3, <3>4, <3>5, <4>1, <4>2 DEF Flushed, RowTyped, NoRow
    <3>7. op[q].kind \in {"create", "patch"} => Entity(q).deleted = first[q].deleted
      BY <3>4 DEF Entity, SyncedVersion, RowTyped, NoRow
    <3> QED BY <3>1, <3>2, <3>3, <3>5, <3>6, <3>7 DEF Saves
  <2>3. \/ notebook' = notebook
        \/ \E q \in Requests : CommitRequest(q)
    BY <1>1 DEF ContextNext, Next, Save, ContextStep, vars, rowVars, Tick, Decide,
                Reread, Flush, FlushFails, Fail, Rollback, Lose, CheckNotebook,
                ReadContext, StoreContext, StoreFails, ClearContext, ContextWritten,
                CommitContext, LoseContext
  <2> QED BY <2>1, <2>2, <2>3
<1> QED BY <1>1, Invariance, PTL DEF ContextSpec, RevivedByRestoreOrOverlap

\* What was cleared comes back only by a store that found nothing: an UPDATE of
\* the row that was cleared finds no row and fails.
THEOREM ClearedStaysClearedAlways == ContextSpec => ClearedStaysCleared
<1> DEFINE Stays ==
      \A n \in Notebooks :
         context[n] = NoContext /\ context'[n] # NoContext =>
            \E q \in Requests :
                /\ Target(q) = n /\ op[q].kind = "store"
                /\ pc[q] = "context_commit" /\ pc'[q] = "done"
                /\ loaded[q] = NoContext
<1>1. ASSUME IInv, [ContextNext]_<<vars, contextVars>>
      PROVE  [Stays]_<<vars, contextVars>>
  <2>1. CASE context' = context
    BY <2>1
  <2>2. ASSUME NEW q \in Requests, CommitContext(q) PROVE Stays
    <3> SUFFICES ASSUME NEW n \in Notebooks, context[n] = NoContext,
                        context'[n] # NoContext
                 PROVE  /\ Target(q) = n /\ op[q].kind = "store"
                        /\ pc[q] = "context_commit" /\ pc'[q] = "done"
                        /\ loaded[q] = NoContext
      OBVIOUS
    <3>1. /\ n \in DOMAIN contextDraft[q] /\ n = Target(q)
          /\ context'[n] = contextDraft[q][Target(q)]
      BY <1>1, <2>2, CommitContextEffect
    <3>2. pc[q] = "context_commit" /\ pc'[q] = "done"
      BY <1>1, <2>2 DEF CommitContext, IInv, TypeInv
    <3>3. PendingContext(q) /\ contextDraft[q] # Unlocked
      BY <1>1, <3>1, UnlockedEmpty DEF IInv, RequestInv
    <3>4. op[q].kind = "store" /\ StillThere(q)
      BY <3>1, <3>2, <3>3 DEF PendingContext
    <3> QED BY <3>1, <3>2, <3>4 DEF StillThere
  <2>3. \/ context' = context
        \/ \E q \in Requests : CommitContext(q)
    BY <1>1 DEF ContextNext, Next, ContextStep, contextVars, CheckNotebook,
                ReadContext, StoreContext, StoreFails, ClearContext, ContextWritten,
                CommitContext, LoseContext, ContextLock!Rollback
  <2> QED BY <2>1, <2>2, <2>3
<1> QED BY <1>1, Invariance, PTL DEF ContextSpec, ClearedStaysCleared
-----------------------------------------------------------------------------
(* The roll-up.                                                             *)

IsItems(items) ==
    items \in Seq(Elements(items)) /\ \A item \in Elements(items) : item.bytes \in Nat

\* An item put before others adds its own bytes.
LEMMA BytesPrepended ==
    ASSUME NEW items, IsItems(items), NEW item, item.bytes \in Nat
    PROVE  /\ Bytes(items) \in Nat
           /\ Bytes(<<item>> \o items) = item.bytes + Bytes(items)
<1> DEFINE all == <<item>> \o items
<1> DEFINE n == Len(items)
<1> DEFINE bytes == [i \in DOMAIN items |-> items[i].bytes]
<1> DEFINE allBytes == [i \in DOMAIN all |-> all[i].bytes]
<1> DEFINE next == [i \in 1 .. n |-> i + 1]
<1>1. n \in Nat /\ DOMAIN items = 1 .. n /\ items \in Seq(Elements(items))
  BY LenProperties DEF IsItems
<1>2. /\ DOMAIN all = 1 .. n + 1 /\ all[1] = item
      /\ \A i \in 1 .. n : all[i + 1] = items[i]
  <2>1. <<item>> \in Seq({item} \cup Elements(items))
    OBVIOUS
  <2>2. items \in Seq({item} \cup Elements(items))
    BY <1>1, SeqMonotonic
  <2>3. QED
    BY <1>1, <2>1, <2>2
<1>3. \A i \in 1 .. n : bytes[i] = items[i].bytes /\ bytes[i] \in Nat
  BY <1>1 DEF IsItems, Elements
<1> HIDE DEF all, n
<1>4. \A i \in 1 .. n + 1 : allBytes[i] = all[i].bytes
  BY <1>2
<1>5. allBytes[1] = item.bytes /\ \A i \in 1 .. n : allBytes[i + 1] = bytes[i]
  BY <1>1, <1>2, <1>3, <1>4
<1>6. next \in Bijection(1 .. n, 2 .. n + 1)
  <2>1. next \in [1 .. n -> 2 .. n + 1]
    BY <1>1
  <2>2. \A j \in 2 .. n + 1 : j - 1 \in 1 .. n /\ next[j - 1] = j
    BY <1>1
  <2>3. \A i, j \in 1 .. n : next[i] = next[j] => i = j
    BY <1>1
  <2> HIDE DEF next
  <2>4. QED
    BY <2>1, <2>2, <2>3 DEF Bijection, Injection, Surjection, IsInjective
<1>7. \A i \in 1 .. n : bytes[i] \in Nat /\ allBytes[next[i]] = bytes[i]
  BY <1>3, <1>5
<1>8. IsFiniteSet(1 .. n) /\ IsFiniteSet(2 .. n + 1)
  BY <1>1, FS_Interval
<1>9. \A i \in 1 .. n + 1 : allBytes[i] \in Nat
  <2>1. SUFFICES ASSUME NEW i \in 1 .. n + 1 PROVE allBytes[i] \in Nat
    OBVIOUS
  <2>2. CASE i = 1
    BY <1>5, <2>2
  <2>3. CASE i # 1
    <3>1. i - 1 \in 1 .. n /\ i = (i - 1) + 1
      BY <1>1, <2>3
    <3> HIDE DEF allBytes, bytes
    <3>2. QED
      BY <1>3, <1>5, <3>1
  <2>4. QED
    BY <2>2, <2>3
<1> HIDE DEF bytes, allBytes, next
<1>10. Total(2 .. n + 1, allBytes) = Total(1 .. n, bytes)
  <2> DEFINE S == 1 .. n
  <2> DEFINE T == 2 .. n + 1
  <2>1. IsFiniteSet(S) /\ next \in Bijection(S, T)
    BY <1>6, <1>8
  <2>2. \A i \in S : bytes[i] \in Nat /\ allBytes[next[i]] = bytes[i]
    BY <1>7
  <2> HIDE DEF S, T
  <2>3. Total(T, allBytes) = Total(S, bytes)
    BY <2>1, <2>2, TotalRenamed
  <2>4. QED
    BY <2>3 DEF S, T
<1>11. 1 \notin 2 .. n + 1 /\ (2 .. n + 1) \cup {1} = 1 .. n + 1
  BY <1>1
<1>12. Total((2 .. n + 1) \cup {1}, allBytes)
         = Total(2 .. n + 1, allBytes) + allBytes[1]
  BY <1>8, <1>9, <1>11, TotalAdd
<1>13. Total(1 .. n, bytes) \in Nat
  BY <1>3, <1>8, TotalType
<1>14. Bytes(items) = Total(1 .. n, bytes) /\ Bytes(all) = Total(1 .. n + 1, allBytes)
  BY <1>1, <1>2 DEF Bytes, bytes, allBytes
<1>15. Bytes(items) \in Nat /\ Bytes(all) = item.bytes + Bytes(items)
  <2>1. Total(1 .. n + 1, allBytes) = Total(1 .. n, bytes) + item.bytes
    BY <1>5, <1>10, <1>11, <1>12
  <2>2. QED
    BY <1>13, <1>14, <2>1
<1>16. QED
  BY <1>15 DEF all

\* Whatever is kept and summarised fits (_roll_up, SummaryResult).
LEMMA RollUpFits ==
    ASSUME NEW items, IsItems(items), NEW built \in RollUp(items)
    PROVE  Fits(built.items)
<1> DEFINE OneOf(k) == /\ Keeps(items, k)
                       /\ \A j \in 0 .. Len(items) : Keeps(items, j) => j <= k
<1> DEFINE k == CHOOSE k \in 0 .. Len(items) : OneOf(k)
<1> DEFINE folded == SubSeq(items, 1, Len(items) - k)
<1> DEFINE about == UNION {folded[n].about : n \in DOMAIN folded}
<1> DEFINE kept == Suffix(items, k)
<1>1. CASE Fits(items)
  BY <1>1 DEF RollUp
<1>2. CASE ~Fits(items)
  <2>1. Len(items) \in Nat /\ items \in Seq(Elements(items))
    BY LenProperties DEF IsItems
  <2>2. \E j \in 0 .. Len(items) : OneOf(j)
    <3> DEFINE able == {j \in 0 .. Len(items) : Keeps(items, j)}
    <3>1. 0 \in able
      BY <2>1, ContextAssumption DEF Keeps
    <3>2. able \subseteq Int /\ IsFiniteSet(able)
      <4>1. IsFiniteSet(0 .. Len(items)) /\ able \subseteq 0 .. Len(items)
        BY <2>1, FS_Interval
      <4>2. QED
        BY <2>1, <4>1, FS_Subset
    <3>3. PICK m \in able : \A j \in able : j <= m
      <4> HIDE DEF able
      <4>1. QED
        BY <3>1, <3>2, GreatestElement
    <3>4. QED
      BY <3>3
  <2>3. k \in 0 .. Len(items) /\ Keeps(items, k)
    BY <2>2
  <2>4. PICK b \in 1 .. SummaryBudget(kept) :
          built.items = <<Item(about, b)>> \o kept
    <3>1. built \in {[items |-> <<Item(about, b)>> \o kept, summary |-> about] :
                        b \in 1 .. SummaryBudget(kept)}
      BY <1>2 DEF RollUp
    <3> HIDE DEF k, about, kept
    <3>2. QED
      BY <3>1
  <2> HIDE DEF k, about
  <2>5. /\ kept \in Seq(Elements(items)) /\ Len(kept) = k
        /\ \A n \in 1 .. Len(kept) : kept[n] \in Elements(items)
    BY <2>1, <2>3, SubSeqProperties DEF Suffix
  <2> HIDE DEF kept
  <2>6. IsItems(kept)
    <3>1. DOMAIN kept = 1 .. Len(kept) /\ Len(kept) \in Nat
      BY <2>5, LenProperties
    <3>2. kept \in [1 .. Len(kept) -> Elements(kept)]
      BY <2>5, <3>1 DEF Elements
    <3>3. kept \in Seq(Elements(kept))
      BY <3>1, <3>2, SeqDef
    <3>4. Elements(kept) \subseteq Elements(items)
      BY <2>5, <3>1 DEF Elements
    <3>5. QED
      BY <3>3, <3>4 DEF IsItems
  <2>7. ByteCap \in Nat /\ MaxItems \in Nat /\ MaxSource \in Nat
    BY ContextAssumption
  <2>8. b \in Nat /\ b <= ByteCap - Bytes(kept) /\ Bytes(kept) \in Nat
    <3>1. Bytes(kept) \in Nat
      <4>1. PICK item : item.bytes \in Nat
        <5>1. Item({}, 0).bytes = 0
          BY DEF Item
        <5>2. QED
          BY <5>1
      <4>2. QED
        BY <2>6, <4>1, BytesPrepended
    <3>2. SummaryBudget(kept) \in Int /\ SummaryBudget(kept) <= ByteCap - Bytes(kept)
      BY <2>7, <3>1 DEF SummaryBudget
    <3>3. QED
      BY <2>7, <3>1, <3>2
  <2>9. Bytes(built.items) = b + Bytes(kept)
    BY <2>4, <2>6, <2>8, BytesPrepended DEF Item
  <2>10. Len(built.items) = k + 1
    <3>1. <<Item(about, b)>> \in Seq({Item(about, b)} \cup Elements(items))
      OBVIOUS
    <3>2. kept \in Seq({Item(about, b)} \cup Elements(items))
      BY <2>5, SeqMonotonic
    <3>3. QED
      BY <2>4, <2>5, <3>1, <3>2
  <2>11. QED
    BY <2>3, <2>7, <2>8, <2>9, <2>10 DEF Fits, Keeps
<1>3. QED
  BY <1>1, <1>2

\* What is stored, and what a request is about to store, fits.
FitsRow(row) == DOMAIN row = DOMAIN NoContext /\ Fits(row.items)
FitsInv ==
    /\ \A n \in Notebooks : FitsRow(context[n])
    /\ \A q \in Requests :
         contextDraft[q] # Unlocked => FitsRow(contextDraft[q][Target(q)])

LEMMA NoContextFits == FitsRow(NoContext)
<1>1. DOMAIN <<>> = {} /\ Len(<<>>) = 0
  OBVIOUS
<1>2. Bytes(<<>>) = 0
  BY <1>1, FS_EmptySet DEF Bytes, Total, Units
<1>3. QED
  BY <1>1, <1>2, ContextAssumption DEF FitsRow, Fits, NoContext

\* The columns of a row may come from two requests: the items from one.
LEMMA StoreFits ==
    ASSUME IInv, FitsInv, NEW q \in Requests, op[q].kind = "store",
           NEW built \in RollUp(Body(q))
    PROVE  FitsRow(Flushed(loaded[q], ContextEntity(q, built), context[Target(q)], {}))
<1>1. FitsRow(context[Target(q)])
  BY TargetStored DEF IInv, FitsInv
<1>2. IsItems(Body(q))
  BY ContextAssumption DEF IInv, TypeInv, Body, IsItems
<1>3. Fits(built.items)
  BY <1>2, RollUpFits
<1>4. ContextEntity(q, built).items = built.items
  BY DEF ContextEntity
<1> DEFINE row == Flushed(loaded[q], ContextEntity(q, built), context[Target(q)], {})
<1>5. /\ DOMAIN row = DOMAIN NoContext
      /\ row.items \in {context[Target(q)].items, built.items}
  BY <1>1, <1>4 DEF Flushed, FitsRow, NoContext
<1>6. QED
  BY <1>1, <1>3, <1>5 DEF FitsRow

\* What a step may write to the contexts.
LEMMA ContextsMove ==
    ASSUME IInv, [ContextNext]_<<vars, contextVars>>
    PROVE  /\ op' = op
           /\ \/ UNCHANGED <<context, contextDraft>>
              \/ \E q \in Requests : StoreContext(q) \/ ClearContext(q)
              \/ \E q \in Requests : CommitContext(q)
              \/ \E q \in Requests :
                   /\ context' = context
                   /\ contextDraft' = [contextDraft EXCEPT ![q] = Unlocked]
<1>1. \A q \in Requests : LoseContext(q) =>
         /\ context' = context
         /\ contextDraft' = [contextDraft EXCEPT ![q] = Unlocked]
  BY DEF LoseContext, ContextLock!Rollback, ContextLock!Unlocked, Unlocked
<1>2. op' = op
  BY DEF ContextNext, Next, Save, ContextStep, vars, Tick, Decide, Reread, Flush,
         FlushFails, Fail, Lose, CommitRequest, CheckNotebook, ReadContext,
         StoreContext, StoreFails, ClearContext, ContextWritten, CommitContext,
         LoseContext
<1>3. \/ UNCHANGED <<context, contextDraft>>
      \/ \E q \in Requests : StoreContext(q) \/ ClearContext(q)
      \/ \E q \in Requests : CommitContext(q)
      \/ \E q \in Requests : LoseContext(q)
  BY DEF ContextNext, ContextStep, contextVars, CheckNotebook, ReadContext, StoreFails
<1>4. QED
  BY <1>1, <1>2, <1>3

LEMMA FitsStep ==
    ASSUME IInv, FitsInv, [ContextNext]_<<vars, contextVars>>
    PROVE  FitsInv'
<1>1. op' = op /\ \A q \in Requests : Target(q)' = Target(q)
  BY ContextsMove DEF Target, User
<1>2. DOMAIN contextDraft = Requests /\ \A q \in Requests : Target(q) \in Notebooks
  BY TargetStored DEF IInv, TypeInv
<1>3. CASE UNCHANGED <<context, contextDraft>>
  BY <1>1, <1>3 DEF FitsInv
<1>4. ASSUME NEW q \in Requests, NEW row, ContextWritten(q, row), FitsRow(row),
             pc[q] = "write"
      PROVE  FitsInv'
  <2>1. DOMAIN contextDraft[q] = {}
    BY <1>4, UnlockedEmpty DEF IInv, RequestInv, PendingContext
  <2>2. /\ contextDraft'[q][Target(q)] = row
        /\ \A p \in Requests \ {q} : contextDraft'[p] = contextDraft[p]
    BY <1>2, <1>4, <2>1, WriteEffect DEF ContextWritten, ContextLock!Write
  <2>3. context' = context
    BY <1>4 DEF ContextWritten
  <2>4. QED
    BY <1>1, <1>4, <2>2, <2>3 DEF FitsInv
<1>5. ASSUME NEW q \in Requests, StoreContext(q) PROVE FitsInv'
  BY <1>4, <1>5, StoreFits DEF StoreContext, ContextUnlocked
<1>6. ASSUME NEW q \in Requests, ClearContext(q) PROVE FitsInv'
  BY <1>4, <1>6, NoContextFits DEF ClearContext, ContextUnlocked
<1>7. ASSUME NEW q \in Requests, CommitContext(q) PROVE FitsInv'
  <2>1. contextDraft' = [contextDraft EXCEPT ![q] = Unlocked]
    BY <1>7 DEF CommitContext, ContextLock!Commit, ContextLock!Unlocked, Unlocked
  <2>2. \A n \in Notebooks : FitsRow(context'[n])
    <3>1. SUFFICES ASSUME NEW n \in Notebooks PROVE FitsRow(context'[n])
      OBVIOUS
    <3>2. CASE n \in DOMAIN contextDraft[q]
      <4>1. context'[n] = contextDraft[q][Target(q)] /\ contextDraft[q] # Unlocked
        BY <1>7, <3>2, CommitContextEffect, UnlockedEmpty
      <4>2. QED
        BY <4>1 DEF FitsInv
    <3>3. CASE n \notin DOMAIN contextDraft[q]
      BY <1>7, <3>3, CommitContextEffect DEF FitsInv
    <3>4. QED
      BY <3>2, <3>3
  <2>3. QED
    BY <1>1, <1>2, <2>1, <2>2 DEF FitsInv, Unlocked
<1>8. ASSUME NEW q \in Requests, context' = context,
             contextDraft' = [contextDraft EXCEPT ![q] = Unlocked]
      PROVE  FitsInv'
  BY <1>1, <1>2, <1>8 DEF FitsInv, Unlocked
<1>9. QED
  BY <1>3, <1>5, <1>6, <1>7, <1>8, ContextsMove

\* A stored context fits the limits of a generation request, with its summary,
\* also when the columns of one row come from several requests (SummaryResult).
THEOREM ContextFitsAlways == ContextSpec => []ContextFits
<1>1. ContextInit => FitsInv
  BY NoContextFits DEF ContextInit, FitsInv
<1>2. FitsInv => ContextFits
  BY DEF FitsInv, FitsRow, ContextFits
<1> QED BY <1>1, <1>2, FitsStep, Invariance, PTL DEF ContextSpec

-----------------------------------------------------------------------------
(* The edits of a merge.                                                    *)

\* A list has as many ids as cells exactly if no two positions share one.
LEMMA IdsApart ==
    ASSUME NEW cells, IsCells(cells)
    PROVE  (Cardinality(Ids(cells)) = Len(cells)) <=>
              \A n, m \in 1 .. Len(cells) : cells[n].id = cells[m].id => n = m
<1> DEFINE id == [n \in 1 .. Len(cells) |-> cells[n].id]
<1>1. DOMAIN cells = 1 .. Len(cells) /\ Len(cells) \in Nat
  BY LenProperties DEF IsCells
<1>2. id \in Surjection(1 .. Len(cells), Ids(cells))
  BY <1>1 DEF Surjection, Ids, Elements
<1>3. IsFiniteSet(1 .. Len(cells)) /\ Cardinality(1 .. Len(cells)) = Len(cells)
  <2>1. \A n \in Nat : IsFiniteSet(1 .. n) /\ Cardinality(1 .. n) = n
    BY FS_Interval
  <2>2. QED
    BY <1>1, <2>1
<1>4. (Cardinality(Ids(cells)) = Len(cells)) <=>
         id \in Injection(1 .. Len(cells), Ids(cells))
  <2> HIDE DEF id
  <2>1. QED
    BY <1>2, <1>3, FS_Surjection
<1>5. id \in [1 .. Len(cells) -> Ids(cells)]
  BY <1>2 DEF Surjection
<1>6. id \in Injection(1 .. Len(cells), Ids(cells)) <=>
         \A n, m \in 1 .. Len(cells) : id[n] = id[m] => n = m
  <2> HIDE DEF id
  <2>1. QED
    BY <1>5 DEF Injection, IsInjective
<1>7. \A n \in 1 .. Len(cells) : id[n] = cells[n].id
  OBVIOUS
<1> HIDE DEF id
<1>8. QED
  BY <1>4, <1>6, <1>7

\* A list that can be read has one cell for an id.
LEMMA OneCellPerId ==
    ASSUME NEW cells, IsCells(cells), Readable(cells),
           NEW c \in Elements(cells), NEW d \in Elements(cells), c.id = d.id
    PROVE  c = d
<1>1. DOMAIN cells = 1 .. Len(cells)
  BY LenProperties DEF IsCells
<1>2. PICK n \in 1 .. Len(cells), m \in 1 .. Len(cells) : c = cells[n] /\ d = cells[m]
  BY <1>1 DEF Elements
<1>3. n = m
  BY <1>2, IdsApart DEF Readable
<1>4. QED
  BY <1>2, <1>3

\* So it is the cell that is found by its id.
LEMMA CellFound ==
    ASSUME NEW cells, IsCells(cells), Readable(cells), NEW c \in Elements(cells)
    PROVE  c.id \in Ids(cells) /\ CellOf(cells, c.id) = c
<1>1. c.id \in Ids(cells)
  BY DEF Ids
<1>2. CellOf(cells, c.id) \in Elements(cells) /\ CellOf(cells, c.id).id = c.id
  BY DEF CellOf
<1>3. QED
  BY <1>1, <1>2, OneCellPerId

\* The cell is there, in this version or a newer one.
HasEdit(cells, c) ==
    \E s \in Elements(cells) : s.id = c.id /\ (s = c \/ s.at > c.at)

\* No merge loses an edit that neither side has a later deletion or version
\* of: a server's cell goes only to a newer version or to a tombstone that is at
\* least as late, a client's only to a newer version, to the server's of the
\* same time or to a tombstone of the same request (merge_cells).
THEOREM MergeKeepsEdits ==
    ASSUME NEW server, IsCells(server), Readable(server),
           NEW client, IsCells(client), Readable(client),
           NEW graves, \A i \in DOMAIN graves : graves[i] \in Nat
    PROVE  LET merged == MergeCells(server, client, graves)
           IN  /\ \A s \in Elements(server) :
                    \/ HasEdit(merged, s)
                    \/ s.id \in DOMAIN graves /\ graves[s.id] >= s.at
               /\ \A c \in Elements(client) :
                    \/ c.id \in DOMAIN graves \/ HasEdit(merged, c)
                    \/ \E s \in Elements(server) :
                          /\ s.id = c.id /\ s.at = c.at
                          /\ s \in Elements(merged)
<1> DEFINE merged == MergeCells(server, client, graves)
<1> DEFINE Lives(i) == Survives(server, client, graves, i)
<1> DEFINE Win(i) == Winner(server, client, graves, i)
<1>1. \A i : Lives(i) => Win(i) \in Elements(merged) /\ Win(i).id = i
  BY MergeElements, WinnerFound
<1>2. \A s \in Elements(server) :
         s.at \in Nat /\ s.id \in Ids(server) /\ CellOf(server, s.id) = s
  BY CellFound DEF IsCells
<1>3. \A c \in Elements(client) :
         c.at \in Nat /\ c.id \in Ids(client) /\ CellOf(client, c.id) = c
  BY CellFound DEF IsCells
<1>4. \A i \in Ids(server) : CellOf(server, i) \in Elements(server)
  BY <1>2 DEF Ids
<1>5. \A i \in Ids(client) : CellOf(client, i) \in Elements(client)
  BY <1>3 DEF Ids
<1> HIDE DEF merged
<1>6. ASSUME NEW s \in Elements(server)
      PROVE  \/ HasEdit(merged, s)
             \/ s.id \in DOMAIN graves /\ graves[s.id] >= s.at
  <2>1. CASE Lives(s.id)
    <3>1. Win(s.id) = s \/ Win(s.id).at > s.at
      <4>1. CASE ClientWins(server, client, graves, s.id)
        <5>1. Win(s.id) = CellOf(client, s.id) /\ s.id \in Ids(client)
          BY <4>1 DEF Winner, ClientWins
        <5>2. CellOf(client, s.id).at > s.at
          BY <1>2, <4>1 DEF ClientWins
        <5>3. CellOf(client, s.id).at \in Nat /\ s.at \in Nat
          BY <1>2, <1>3, <1>5, <5>1
        <5>4. QED
          BY <5>1, <5>2, <5>3
      <4>2. CASE ~ClientWins(server, client, graves, s.id)
        <5>1. Win(s.id) = s
          BY <1>2, <4>2 DEF Winner
        <5>2. QED
          BY <5>1
      <4>3. QED
        BY <4>1, <4>2
    <3>2. QED
      BY <1>1, <2>1, <3>1 DEF HasEdit
  <2>2. CASE ~Lives(s.id)
    <3>1. s.id \in DOMAIN graves /\ ~(s.at > graves[s.id])
      BY <1>2, <2>2 DEF Survives
    <3>2. graves[s.id] \in Nat /\ s.at \in Nat
      BY <1>2, <3>1
    <3>3. QED
      BY <3>1, <3>2
  <2>3. QED
    BY <2>1, <2>2
<1>7. ASSUME NEW c \in Elements(client), c.id \notin DOMAIN graves
      PROVE  \/ HasEdit(merged, c)
             \/ \E s \in Elements(server) :
                   s.id = c.id /\ s.at = c.at /\ s \in Elements(merged)
  <2>1. Lives(c.id)
    BY <1>3, <1>7 DEF Survives
  <2>2. \/ Win(c.id) = c \/ Win(c.id).at > c.at
        \/ Win(c.id) \in Elements(server) /\ Win(c.id).at = c.at
    <3>1. CASE ClientWins(server, client, graves, c.id)
      <4>1. Win(c.id) = c
        BY <1>3, <3>1 DEF Winner
      <4>2. QED
        BY <4>1
    <3>2. CASE ~ClientWins(server, client, graves, c.id)
      <4>1. /\ c.id \in Ids(server) /\ Win(c.id) = CellOf(server, c.id)
            /\ ~(c.at > CellOf(server, c.id).at)
        BY <1>3, <1>7, <3>2 DEF Winner, ClientWins
      <4>2. /\ CellOf(server, c.id) \in Elements(server)
            /\ CellOf(server, c.id).at \in Nat /\ c.at \in Nat
        BY <1>2, <1>3, <1>4, <4>1
      <4>3. QED
        BY <4>1, <4>2
    <3>3. QED
      BY <3>1, <3>2
  <2>3. QED
    BY <1>1, <2>1, <2>2 DEF HasEdit
<1>8. QED
  BY <1>6, <1>7 DEF merged

\* What Select takes from a list without a double id has none either.
LEMMA SelectApart ==
    ASSUME NEW S, NEW s \in Seq(S), NEW P, P \subseteq DOMAIN s,
           \A n, m \in DOMAIN s : s[n].id = s[m].id => n = m
    PROVE  \A i, j \in 1 .. Len(Select(s, P)) :
              Select(s, P)[i].id = Select(s, P)[j].id => i = j
<1> DEFINE taken == Select(s, P)
<1>1. Len(taken) = Cardinality(P)
  BY SelectPositions
<1>2. PICK pos \in Bijection(1 .. Cardinality(P), P) :
        \A i \in 1 .. Cardinality(P) : taken[i] = s[pos[i]]
  BY SelectPositions
<1>3. /\ \A i \in 1 .. Cardinality(P) : pos[i] \in P
      /\ \A i, j \in 1 .. Cardinality(P) : pos[i] = pos[j] => i = j
  BY <1>2 DEF Bijection, Injection, IsInjective
<1> HIDE DEF taken
<1>4. ASSUME NEW i \in 1 .. Len(taken), NEW j \in 1 .. Len(taken),
             taken[i].id = taken[j].id
      PROVE  i = j
  <2>1. taken[i] = s[pos[i]] /\ taken[j] = s[pos[j]]
    BY <1>1, <1>2
  <2>2. pos[i] \in DOMAIN s /\ pos[j] \in DOMAIN s
    BY <1>1, <1>3
  <2>3. pos[i] = pos[j]
    BY <1>4, <2>1, <2>2
  <2>4. QED
    BY <1>1, <1>3, <2>3
<1>5. QED
  BY <1>4 DEF taken

\* A merge of lists that can be read has no double id: only the number of its
\* cells can make the stored notebook unreadable (merge_cells, seen).
THEOREM MergeKeepsIdsApart ==
    ASSUME NEW server, IsCells(server), Readable(server),
           NEW client, IsCells(client), Readable(client), NEW graves
    PROVE  LET merged == MergeCells(server, client, graves)
           IN  Cardinality(Ids(merged)) = Len(merged)
<1> DEFINE Kept(c) == Survives(server, client, graves, c.id)
<1> DEFINE own == {n \in DOMAIN client : Kept(client[n])}
<1> DEFINE others == {n \in DOMAIN server :
                        Kept(server[n]) /\ server[n].id \notin Ids(client)}
<1> DEFINE left == Select(client, own)
<1> DEFINE right == Select(server, others)
<1> DEFINE ordered == left \o right
<1> DEFINE Win(i) == Winner(server, client, graves, i)
<1> DEFINE merged == MergeCells(server, client, graves)
<1> DEFINE All == Elements(server) \cup Elements(client)
<1>1. server \in Seq(All) /\ client \in Seq(All)
  BY SeqMonotonic DEF IsCells
<1>2. /\ DOMAIN server = 1 .. Len(server) /\ DOMAIN client = 1 .. Len(client)
      /\ \A n, m \in DOMAIN server : server[n].id = server[m].id => n = m
      /\ \A n, m \in DOMAIN client : client[n].id = client[m].id => n = m
  BY <1>1, IdsApart, LenProperties DEF Readable
<1>3. own \subseteq DOMAIN client /\ others \subseteq DOMAIN server
  OBVIOUS
<1>4. /\ \A n \in own : client[n].id \in Ids(client)
      /\ \A n \in others : server[n].id \notin Ids(client)
      /\ \A n \in own : Survives(server, client, graves, client[n].id)
      /\ \A n \in others : Survives(server, client, graves, server[n].id)
  BY DEF Ids, Elements
<1> HIDE DEF own, others
<1>5. left \in Seq(All) /\ right \in Seq(All)
  BY <1>1, <1>3, SelectPositions
<1>6. /\ \A i, j \in 1 .. Len(left) : left[i].id = left[j].id => i = j
      /\ \A i, j \in 1 .. Len(right) : right[i].id = right[j].id => i = j
  BY <1>1, <1>2, <1>3, SelectApart
<1>7. /\ Elements(left) = {client[n] : n \in own}
      /\ Elements(right) = {server[n] : n \in others}
  BY <1>1, <1>3, SelectElements
<1> HIDE DEF left, right
<1>8. /\ \A i \in 1 .. Len(left) :
           /\ left[i].id \in Ids(client)
           /\ Survives(server, client, graves, left[i].id)
      /\ \A i \in 1 .. Len(right) :
           /\ right[i].id \notin Ids(client)
           /\ Survives(server, client, graves, right[i].id)
  <2>1. /\ \A i \in 1 .. Len(left) : left[i] \in Elements(left)
        /\ \A i \in 1 .. Len(right) : right[i] \in Elements(right)
    BY <1>5 DEF Elements
  <2>2. QED
    BY <1>4, <1>7, <2>1
<1>9. /\ ordered \in Seq(All) /\ Len(ordered) = Len(left) + Len(right)
      /\ \A n \in 1 .. Len(left) : ordered[n] = left[n]
      /\ \A n \in 1 .. Len(right) : ordered[Len(left) + n] = right[n]
      /\ Len(left) \in Nat /\ Len(right) \in Nat
  BY <1>5
<1>10. merged = [n \in DOMAIN ordered |-> Win(ordered[n].id)]
  BY DEF MergeCells, left, right, own, others
<1> HIDE DEF ordered, merged
<1>11. ASSUME NEW n \in 1 .. Len(ordered), n \notin 1 .. Len(left)
       PROVE  /\ n - Len(left) \in 1 .. Len(right)
              /\ ordered[n] = right[n - Len(left)]
  <2>1. n - Len(left) \in 1 .. Len(right)
    BY <1>9, <1>11
  <2>2. Len(left) + (n - Len(left)) = n
    BY <1>9
  <2>3. QED
    BY <1>9, <2>1, <2>2
<1>12. \A n \in 1 .. Len(ordered) : Survives(server, client, graves, ordered[n].id)
  BY <1>8, <1>9, <1>11
<1>13. ASSUME NEW n \in 1 .. Len(ordered), NEW m \in 1 .. Len(ordered),
              ordered[n].id = ordered[m].id
       PROVE  n = m
  <2>1. CASE n \in 1 .. Len(left) /\ m \in 1 .. Len(left)
    BY <1>6, <1>9, <1>13, <2>1
  <2>2. CASE n \notin 1 .. Len(left) /\ m \notin 1 .. Len(left)
    <3>1. n - Len(left) = m - Len(left)
      BY <1>6, <1>11, <1>13, <2>2
    <3>2. QED
      BY <1>9, <3>1
  <2>3. CASE n \in 1 .. Len(left) /\ m \notin 1 .. Len(left)
    BY <1>8, <1>9, <1>11, <1>13, <2>3
  <2>4. CASE n \notin 1 .. Len(left) /\ m \in 1 .. Len(left)
    BY <1>8, <1>9, <1>11, <1>13, <2>4
  <2>5. QED
    BY <2>1, <2>2, <2>3, <2>4
<1>14. DOMAIN ordered = 1 .. Len(ordered)
  BY <1>9
<1>15. /\ IsCells(merged) /\ DOMAIN merged = 1 .. Len(merged)
       /\ Len(merged) = Len(ordered)
  <2>1. IsCells(merged)
    BY MergeElements DEF merged
  <2>2. DOMAIN merged = 1 .. Len(merged) /\ Len(merged) \in Nat
    BY <2>1, LenProperties DEF IsCells
  <2>3. DOMAIN merged = 1 .. Len(ordered) /\ Len(ordered) \in Nat
    BY <1>9, <1>10, <1>14
  <2>4. QED
    BY <2>1, <2>2, <2>3
<1>16. \A n \in 1 .. Len(merged) : merged[n].id = ordered[n].id
  BY <1>10, <1>12, <1>14, <1>15, WinnerFound
<1>17. \A n, m \in 1 .. Len(merged) : merged[n].id = merged[m].id => n = m
  BY <1>13, <1>15, <1>16
<1>18. Cardinality(Ids(merged)) = Len(merged)
  BY <1>15, <1>17, IdsApart
<1>19. QED
  BY <1>18 DEF merged

\* What a merge holds of each cell, and that nothing else is in it.
LEMMA MergedCell ==
    ASSUME NEW server, IsCells(server), NEW client, IsCells(client), NEW graves
    PROVE  LET merged == MergeCells(server, client, graves)
           IN  /\ IsCells(merged)
               /\ \A i : i \in Ids(merged) <=> Survives(server, client, graves, i)
               /\ \A i \in Ids(merged) :
                    /\ CellOf(merged, i) = Winner(server, client, graves, i)
                    /\ CellOf(merged, i) \in Elements(merged)
               /\ \A c \in Elements(merged) : c.id \in Ids(merged) /\ c = CellOf(merged, c.id)
<1> DEFINE merged == MergeCells(server, client, graves)
           Lives(i) == Survives(server, client, graves, i)
           Win(i) == Winner(server, client, graves, i)
<1>1. /\ IsCells(merged)
      /\ \A i : Lives(i) => Win(i) \in Elements(merged) /\ Win(i).id = i
      /\ \A c \in Elements(merged) : Lives(c.id) /\ c = Win(c.id)
  BY MergeElements, WinnerFound
<1> HIDE DEF merged
<1>2. \A i : i \in Ids(merged) <=> Lives(i)
  BY <1>1 DEF Ids
<1>3. \A i : Lives(i) => CellOf(merged, i) = Win(i)
  <2> SUFFICES ASSUME NEW i, Lives(i)
               PROVE  CellOf(merged, i) = Win(i)
    OBVIOUS
  <2>1. \E c \in Elements(merged) : c.id = i
    BY <1>1
  <2>2. CellOf(merged, i) \in Elements(merged) /\ CellOf(merged, i).id = i
    BY <2>1 DEF CellOf
  <2>3. QED
    BY <1>1, <2>2
<1>4. \A i \in Ids(merged) : CellOf(merged, i) = Win(i) /\ CellOf(merged, i) \in Elements(merged)
  BY <1>1, <1>2, <1>3
<1>5. \A c \in Elements(merged) : c.id \in Ids(merged) /\ c = CellOf(merged, c.id)
  BY <1>1, <1>2, <1>3
<1>6. QED
  BY <1>1, <1>2, <1>4, <1>5 DEF merged

\* A request that is sent again changes no cell: what it won, it has won, and
\* what it lost, it loses to the same version, because a tie is the server's
\* (merge_cells; a client repeats a patch whose answer it did not get).
THEOREM MergeIsIdempotent ==
    ASSUME NEW server, IsCells(server), NEW client, IsCells(client), NEW graves
    PROVE  LET merged == MergeCells(server, client, graves)
           IN  Elements(MergeCells(merged, client, graves)) = Elements(merged)
<1> DEFINE merged == MergeCells(server, client, graves)
           again == MergeCells(merged, client, graves)
           Lives(i) == Survives(server, client, graves, i)
           Win(i) == Winner(server, client, graves, i)
<1>1. /\ IsCells(merged)
      /\ \A i : i \in Ids(merged) <=> Lives(i)
      /\ \A i \in Ids(merged) : CellOf(merged, i) = Win(i) /\ CellOf(merged, i) \in Elements(merged)
      /\ \A c \in Elements(merged) : c.id \in Ids(merged) /\ c = CellOf(merged, c.id)
  BY MergedCell
<1> HIDE DEF merged
<1>2. \A i : i \in Ids(merged) <=> Lives(i)
  BY <1>1
<1>3. \A i : Lives(i) => CellOf(merged, i) = Win(i)
  BY <1>1
<1>4. ASSUME NEW i
      PROVE  Survives(merged, client, graves, i) <=> Lives(i)
  <2>1. CASE i \in DOMAIN graves
    <3>1. Lives(i) => Win(i) = CellOf(server, i) /\ CellOf(server, i).at > graves[i]
      BY <2>1 DEF Survives, Winner, ClientWins
    <3>2. QED
      BY <1>2, <1>3, <2>1, <3>1 DEF Survives
  <2>2. CASE i \notin DOMAIN graves
    BY <1>2, <2>2 DEF Survives
  <2>3. QED
    BY <2>1, <2>2
<1>5. ASSUME NEW i, Lives(i)
      PROVE  Winner(merged, client, graves, i) = Win(i)
  <2>1. ~ClientWins(merged, client, graves, i) \/ CellOf(client, i) = Win(i)
    <3>1. CASE ClientWins(server, client, graves, i)
      BY <3>1 DEF Winner
    <3>2. CASE ~ClientWins(server, client, graves, i)
      <4>1. Win(i) = CellOf(server, i)
        BY <3>2 DEF Winner
      <4>2. QED
        BY <1>2, <1>3, <1>5, <3>2, <4>1 DEF ClientWins
    <3>3. QED
      BY <3>1, <3>2
  <2>2. QED
    BY <1>3, <1>5, <2>1 DEF Winner
<1>6. /\ \A i : i \in Ids(again) <=> Lives(i)
      /\ \A i \in Ids(again) : CellOf(again, i) = Win(i) /\ CellOf(again, i) \in Elements(again)
      /\ \A c \in Elements(again) : c.id \in Ids(again) /\ c = CellOf(again, c.id)
  <2>1. /\ \A i : i \in Ids(again) <=> Survives(merged, client, graves, i)
        /\ \A i \in Ids(again) : /\ CellOf(again, i) = Winner(merged, client, graves, i)
                                 /\ CellOf(again, i) \in Elements(again)
        /\ \A c \in Elements(again) : c.id \in Ids(again) /\ c = CellOf(again, c.id)
    BY <1>1, MergedCell
  <2> HIDE DEF again
  <2>2. QED
    BY <1>4, <1>5, <2>1
<1> HIDE DEF again
<1>7. Elements(again) = Elements(merged)
  <2>1. \A c \in Elements(again) : c \in Elements(merged)
    BY <1>1, <1>6
  <2>2. \A c \in Elements(merged) : c \in Elements(again)
    BY <1>1, <1>6
  <2>3. QED
    BY <2>1, <2>2
<1>8. QED
  BY <1>7 DEF merged, again

\* Two requests that edit different cells, or one cell at different times, leave
\* the same cells whichever comes first, as the header of notebook_merge.py says.
\* It takes both conditions: of their versions with one time the first to come is
\* kept, and a deletion is forgotten, so that an edit that comes after it adds the
\* cell again, where one that came before it was deleted.
THEOREM MergeIsOrderFree ==
    ASSUME NEW server, IsCells(server),
           NEW one, IsCells(one), NEW oneGraves,
           NEW other, IsCells(other), NEW otherGraves,
           \A c \in Elements(one), d \in Elements(other) :
              c.id = d.id /\ c.at = d.at => c = d,
           Ids(one) \cap DOMAIN otherGraves \subseteq DOMAIN oneGraves,
           Ids(other) \cap DOMAIN oneGraves \subseteq DOMAIN otherGraves
    PROVE  Elements(MergeCells(MergeCells(server, one, oneGraves), other, otherGraves))
         = Elements(MergeCells(MergeCells(server, other, otherGraves), one, oneGraves))
<1> DEFINE afterOne == MergeCells(server, one, oneGraves)
           afterOther == MergeCells(server, other, otherGraves)
           oneOther == MergeCells(afterOne, other, otherGraves)
           otherOne == MergeCells(afterOther, one, oneGraves)
<1>1. /\ IsCells(afterOne)
      /\ \A i : i \in Ids(afterOne) <=> Survives(server, one, oneGraves, i)
      /\ \A i \in Ids(afterOne) : CellOf(afterOne, i) = Winner(server, one, oneGraves, i)
  BY MergedCell
<1>2. /\ IsCells(afterOther)
      /\ \A i : i \in Ids(afterOther) <=> Survives(server, other, otherGraves, i)
      /\ \A i \in Ids(afterOther) : CellOf(afterOther, i) = Winner(server, other, otherGraves, i)
  BY MergedCell
<1> HIDE DEF afterOne, afterOther
<1>3. /\ \A i : i \in Ids(oneOther) <=> Survives(afterOne, other, otherGraves, i)
      /\ \A i \in Ids(oneOther) : /\ CellOf(oneOther, i) = Winner(afterOne, other, otherGraves, i)
                              /\ CellOf(oneOther, i) \in Elements(oneOther)
      /\ \A c \in Elements(oneOther) : c.id \in Ids(oneOther) /\ c = CellOf(oneOther, c.id)
  BY <1>1, MergedCell
<1>4. /\ \A i : i \in Ids(otherOne) <=> Survives(afterOther, one, oneGraves, i)
      /\ \A i \in Ids(otherOne) : /\ CellOf(otherOne, i) = Winner(afterOther, one, oneGraves, i)
                               /\ CellOf(otherOne, i) \in Elements(otherOne)
      /\ \A c \in Elements(otherOne) : c.id \in Ids(otherOne) /\ c = CellOf(otherOne, c.id)
  BY <1>2, MergedCell
<1> HIDE DEF oneOther, otherOne
<1>5. ASSUME NEW i
      PROVE  /\ Survives(afterOne, other, otherGraves, i) <=> Survives(afterOther, one, oneGraves, i)
             /\ Survives(afterOne, other, otherGraves, i) =>
                  Winner(afterOne, other, otherGraves, i) = Winner(afterOther, one, oneGraves, i)
  <2>1. CASE i \in DOMAIN oneGraves \cap DOMAIN otherGraves
    <3>1. /\ i \in Ids(afterOne) <=>
               i \in Ids(server) /\ CellOf(server, i).at > oneGraves[i]
          /\ i \in Ids(afterOne) => CellOf(afterOne, i) = CellOf(server, i)
      BY <1>1, <2>1 DEF Survives, Winner, ClientWins
    <3>2. /\ i \in Ids(afterOther) <=>
               i \in Ids(server) /\ CellOf(server, i).at > otherGraves[i]
          /\ i \in Ids(afterOther) => CellOf(afterOther, i) = CellOf(server, i)
      BY <1>2, <2>1 DEF Survives, Winner, ClientWins
    <3>3. QED
      BY <2>1, <3>1, <3>2 DEF Survives, Winner, ClientWins
  <2>2. CASE i \in DOMAIN oneGraves \ DOMAIN otherGraves
    <3>1. /\ i \in Ids(afterOne) <=>
               i \in Ids(server) /\ CellOf(server, i).at > oneGraves[i]
          /\ i \in Ids(afterOne) => CellOf(afterOne, i) = CellOf(server, i)
      BY <1>1, <2>2 DEF Survives, Winner, ClientWins
    <3>2. /\ i \notin Ids(other)
          /\ i \in Ids(afterOther) <=> i \in Ids(server)
          /\ i \in Ids(afterOther) => CellOf(afterOther, i) = CellOf(server, i)
      BY <1>2, <2>2 DEF Survives, Winner, ClientWins
    <3>3. QED
      BY <2>2, <3>1, <3>2 DEF Survives, Winner, ClientWins
  <2>3. CASE i \in DOMAIN otherGraves \ DOMAIN oneGraves
    <3>1. /\ i \in Ids(afterOther) <=>
               i \in Ids(server) /\ CellOf(server, i).at > otherGraves[i]
          /\ i \in Ids(afterOther) => CellOf(afterOther, i) = CellOf(server, i)
      BY <1>2, <2>3 DEF Survives, Winner, ClientWins
    <3>2. /\ i \notin Ids(one)
          /\ i \in Ids(afterOne) <=> i \in Ids(server)
          /\ i \in Ids(afterOne) => CellOf(afterOne, i) = CellOf(server, i)
      BY <1>1, <2>3 DEF Survives, Winner, ClientWins
    <3>3. QED
      BY <2>3, <3>1, <3>2 DEF Survives, Winner, ClientWins
  <2>4. CASE i \notin DOMAIN oneGraves \cup DOMAIN otherGraves
    <3>1. ASSUME NEW cells, IsCells(cells), i \in Ids(cells)
          PROVE  CellOf(cells, i) \in Elements(cells) /\ CellOf(cells, i).id = i
                 /\ CellOf(cells, i).at \in Nat
      BY <3>1 DEF CellOf, Ids, IsCells
    <3>2. i \in Ids(one) /\ i \in Ids(other) /\ CellOf(one, i).at = CellOf(other, i).at
          => CellOf(one, i) = CellOf(other, i)
      BY <3>1
    <3>3. /\ i \in Ids(afterOne) <=> i \in Ids(server) \cup Ids(one)
          /\ i \in Ids(afterOther) <=> i \in Ids(server) \cup Ids(other)
      BY <1>1, <1>2, <2>4 DEF Survives
    <3>4. i \in Ids(afterOne) =>
             CellOf(afterOne, i) =
                IF i \in Ids(one) /\ (i \in Ids(server) => CellOf(one, i).at > CellOf(server, i).at)
                THEN CellOf(one, i) ELSE CellOf(server, i)
      BY <1>1, <2>4 DEF Winner, ClientWins
    <3>5. i \in Ids(afterOther) =>
             CellOf(afterOther, i) =
                IF i \in Ids(other) /\ (i \in Ids(server) => CellOf(other, i).at > CellOf(server, i).at)
                THEN CellOf(other, i) ELSE CellOf(server, i)
      BY <1>2, <2>4 DEF Winner, ClientWins
    <3>6. Survives(afterOne, other, otherGraves, i) <=> Survives(afterOther, one, oneGraves, i)
      BY <2>4, <3>3 DEF Survives
    <3>7. ASSUME Survives(afterOne, other, otherGraves, i)
          PROVE  Winner(afterOne, other, otherGraves, i) = Winner(afterOther, one, oneGraves, i)
      <4>1. i \in Ids(server) \cup Ids(one) \cup Ids(other)
        BY <2>4, <3>3, <3>7 DEF Survives
      <4>2. /\ i \in Ids(server) => CellOf(server, i).at \in Nat
            /\ i \in Ids(one) => CellOf(one, i).at \in Nat
            /\ i \in Ids(other) => CellOf(other, i).at \in Nat
        BY <3>1
      <4>3. QED
        BY <2>4, <3>2, <3>3, <3>4, <3>5, <4>1, <4>2 DEF Winner, ClientWins
    <3>8. QED
      BY <3>6, <3>7
  <2>5. QED
    BY <2>1, <2>2, <2>3, <2>4
<1>6. Ids(oneOther) = Ids(otherOne) /\ \A i \in Ids(oneOther) : CellOf(oneOther, i) = CellOf(otherOne, i)
  BY <1>3, <1>4, <1>5
<1>7. Elements(oneOther) = Elements(otherOne)
  <2>1. \A c \in Elements(oneOther) : c \in Elements(otherOne)
    BY <1>3, <1>4, <1>6
  <2>2. \A c \in Elements(otherOne) : c \in Elements(oneOther)
    BY <1>3, <1>4, <1>6
  <2>3. QED
    BY <2>1, <2>2
<1>8. QED
  BY <1>7 DEF oneOther, otherOne, afterOne, afterOther

-----------------------------------------------------------------------------
(* Committed edits.                                                         *)

\* A saved deletion of the cell is at least as late.
Buried(n, c) ==
    \E r \in Requests :
        /\ SavedPatch(r) /\ Target(r) = n
        /\ c.id \in DOMAIN Body(r).graves /\ Body(r).graves[c.id] >= c.at
Stands(n, c) == HasEdit(notebook[n].cells, c) \/ Buried(n, c)

\* What a save knows: a creation found no row, a flush that locked nothing had
\* nothing to change.
Saving(q) ==
    /\ pc[q] \in {"reread", "flush", "commit"} =>
         (op[q].kind = "create" => first[q] = NoRow)
    /\ pc[q] = "commit" => /\ draft[q] = Unlocked => Entity(q) = second[q]
                           /\ op[q].kind = "patch" => answer[q] = "ok"

\* What save has read stands too, because what it does not change it leaves to
\* the version that is stored by then.
SecondStands(q) ==
    pc[q] \in {"flush", "commit"} =>
        \A c \in Elements(second[q].cells) : Stands(Target(q), c)
\* The cell stands, or the one of the same time that the request had found does.
StandsFor(q, c) ==
    \/ Stands(Target(q), c)
    \/ \E s \in Elements(first[q].cells) :
          s.id = c.id /\ s.at = c.at /\ Stands(Target(q), s)
SavedStands(q) ==
    SavedPatch(q) =>
        \A c \in Elements(Body(q).cells) :
            c.id \in DOMAIN Body(q).graves \/ StandsFor(q, c)

EditsOf(q) ==
    /\ Saving(q)
    /\ overlapped = {} => SecondStands(q) /\ SavedStands(q)
EditsInv == \A q \in Requests : EditsOf(q)

\* What a step of one request leaves of another.
Still(p) ==
    /\ pc'[p] = pc[p] /\ first'[p] = first[p] /\ second'[p] = second[p]
    /\ now'[p] = now[p] /\ draft'[p] = draft[p] /\ answer'[p] = answer[p]

\* Edits that stand go on standing; what was overlapped is remembered.
EditsKept ==
    /\ op' = op
    /\ overlapped' = {} =>
         /\ overlapped = {}
         /\ \A n \in Notebooks : \A c : c.at \in Nat /\ Stands(n, c) => Stands(n, c)'

LEMMA SavedPatchKept ==
    ASSUME op' = op, NEW r \in Requests, SavedPatch(r),
           pc'[r] = pc[r] /\ answer'[r] = answer[r]
    PROVE  SavedPatch(r)' /\ Target(r)' = Target(r) /\ Body(r)' = Body(r)
BY DEF SavedPatch, Target, Body, User

LEMMA BodyCells ==
    ASSUME TypeInv, NEW q \in Requests, op[q].kind = "patch"
    PROVE  /\ IsCells(Body(q).cells) /\ Readable(Body(q).cells)
           /\ \A c \in Elements(Body(q).cells) : c.at \in Nat
           /\ \A i \in DOMAIN Body(q).graves : Body(q).graves[i] \in Nat
<1>1. IsCells(Body(q).cells) /\ Readable(Body(q).cells)
  BY BodyTyped
<1>2. \A i \in DOMAIN Body(q).graves : Body(q).graves[i] \in Nat
  BY InputsAssumption DEF TypeInv, Body
<1>3. QED
  BY <1>1, <1>2 DEF IsCells

\* A request that does not move keeps its part.
LEMMA StillKeeps ==
    ASSUME IInv, NEW p \in Requests, EditsOf(p), Still(p), EditsKept
    PROVE  EditsOf(p)'
<1>1. /\ op' = op /\ Target(p)' = Target(p) /\ Body(p)' = Body(p)
      /\ Entity(p)' = Entity(p) /\ Target(p) \in Notebooks
  BY EntityKept, TargetStored DEF EditsKept, Still, IInv
<1>2. Saving(p)'
  BY <1>1 DEF EditsOf, Saving, Still, Unlocked
<1>3. ASSUME overlapped' = {}, NEW c, c.at \in Nat, Stands(Target(p), c)
      PROVE  Stands(Target(p), c)'
  BY <1>1, <1>3 DEF EditsKept, Stands, Buried
<1>4. ASSUME overlapped' = {} PROVE SecondStands(p)'
  <2>1. \A c \in Elements(second[p].cells) : c.at \in Nat
    BY DEF IInv, TypeInv, RowTyped, IsCells
  <2>2. SecondStands(p)
    BY <1>4 DEF EditsOf, EditsKept
  <2>3. QED
    BY <1>1, <1>3, <1>4, <2>1, <2>2 DEF SecondStands, Still
<1>5. ASSUME overlapped' = {} PROVE SavedStands(p)'
  <2>1. SavedPatch(p)' <=> SavedPatch(p)
    BY <1>1 DEF SavedPatch, Still
  <2>2. SavedPatch(p) => \A c \in Elements(Body(p).cells) : c.at \in Nat
    BY BodyCells DEF SavedPatch, IInv
  <2>3. SavedStands(p)
    BY <1>5 DEF EditsOf, EditsKept
  <2>4. \A s \in Elements(first[p].cells) : s.at \in Nat
    BY DEF IInv, TypeInv, RowTyped, IsCells
  <2>5. ASSUME NEW c, c.at \in Nat, StandsFor(p, c) PROVE StandsFor(p, c)'
    <3>1. first'[p] = first[p]
      BY DEF Still
    <3>2. CASE Stands(Target(p), c)
      BY <1>1, <1>3, <1>5, <2>5, <3>2 DEF StandsFor, Stands, HasEdit, Buried
    <3>3. CASE \E s \in Elements(first[p].cells) :
                 s.id = c.id /\ s.at = c.at /\ Stands(Target(p), s)
      <4>1. PICK s \in Elements(first[p].cells) :
              s.id = c.id /\ s.at = c.at /\ Stands(Target(p), s)
        BY <3>3
      <4>2. Stands(Target(p), s)'
        BY <1>3, <1>5, <2>4, <4>1
      <4>3. Elements(first[p].cells)' = Elements(first[p].cells)
        BY <3>1 DEF Elements
      <4>4. QED
        BY <4>1, <4>2, <4>3 DEF StandsFor
    <3>4. QED
      BY <2>5, <3>2, <3>3 DEF StandsFor
  <2>6. QED
    BY <1>1, <2>1, <2>2, <2>3, <2>5 DEF SavedStands
<1>6. QED
  BY <1>2, <1>4, <1>5 DEF EditsOf

\* A step that commits nothing keeps every edit.
LEMMA QuietEdits ==
    ASSUME IInv, EditsInv, NEW q \in Requests, UNCHANGED <<notebook, op, overlapped>>,
           ~SavedPatch(q), EditsOf(q)', \A p \in Requests \ {q} : Still(p)
    PROVE  EditsInv'
<1>1. ASSUME NEW n, NEW c, Buried(n, c) PROVE Buried(n, c)'
  <2>1. PICK r \in Requests :
          /\ SavedPatch(r) /\ Target(r) = n
          /\ c.id \in DOMAIN Body(r).graves /\ Body(r).graves[c.id] >= c.at
    BY <1>1 DEF Buried
  <2>2. SavedPatch(r)' /\ Target(r)' = n /\ Body(r)' = Body(r)
    BY <2>1, SavedPatchKept DEF Still
  <2>3. QED
    BY <2>1, <2>2 DEF Buried
<1>2. ASSUME NEW n, NEW c, Stands(n, c) PROVE Stands(n, c)'
  BY <1>1, <1>2 DEF Stands, HasEdit
<1>3. EditsKept
  BY <1>2 DEF EditsKept
<1>4. QED
  BY <1>3, StillKeeps DEF EditsInv

LEMMA DecideEdits ==
    ASSUME IInv, EditsInv, NEW q \in Requests, Decide(q) PROVE EditsInv'
<1>1. /\ UNCHANGED <<notebook, op, overlapped, second, draft>>
      /\ first' = [first EXCEPT ![q] = notebook[Target(q)]]
      /\ now' = [now EXCEPT ![q] = clock] /\ pc[q] = "idle" /\ op[q].kind \in Saves
  BY DEF Decide, rowVars
<1>2. \/ /\ pc' = [pc EXCEPT ![q] = "done"]
         /\ answer' = [answer EXCEPT ![q] = Verdict(q, notebook[Target(q)])]
      \/ /\ pc' = [pc EXCEPT ![q] = "reread"] /\ answer' = answer
         /\ Verdict(q, notebook[Target(q)]) = "save"
  BY DEF Decide, Goto, Finish, Answer
<1>3. DOMAIN pc = Requests /\ DOMAIN first = Requests /\ DOMAIN answer = Requests
  BY DEF IInv, TypeInv
<1>4. op[q].kind = "patch" => Verdict(q, notebook[Target(q)]) # "ok"
  BY DEF Verdict
<1>5. ~SavedPatch(q) /\ ~SavedPatch(q)'
  BY <1>1, <1>2, <1>3, <1>4 DEF SavedPatch
<1>6. Saving(q)'
  <2>1. op[q].kind = "create" /\ Verdict(q, notebook[Target(q)]) = "save" =>
          notebook[Target(q)] = NoRow
    BY DEF Verdict, Missing
  <2>2. QED
    BY <1>1, <1>2, <1>3, <2>1 DEF Saving
<1>7. pc'[q] \in {"done", "reread"}
  BY <1>2, <1>3
<1>8. EditsOf(q)'
  BY <1>5, <1>6, <1>7 DEF EditsOf, SecondStands, SavedStands
<1>9. \A p \in Requests \ {q} : Still(p)
  BY <1>1, <1>2 DEF Still, IInv, TypeInv
<1>10. QED
  BY <1>1, <1>5, <1>8, <1>9, QuietEdits

LEMMA RereadEdits ==
    ASSUME IInv, EditsInv, NEW q \in Requests, Reread(q) PROVE EditsInv'
<1>1. /\ UNCHANGED <<notebook, op, overlapped, first, now, draft, answer>>
      /\ second' = [second EXCEPT ![q] = notebook[Target(q)]]
      /\ pc' = [pc EXCEPT ![q] = "flush"] /\ pc[q] = "reread"
  BY DEF Reread, Goto, rowVars
<1>2. /\ pc'[q] = "flush" /\ second'[q] = notebook[Target(q)]
      /\ Target(q)' = Target(q) /\ Target(q) \in Notebooks
  BY <1>1, TargetStored DEF IInv, TypeInv, Target, User
<1>3. ~SavedPatch(q) /\ ~SavedPatch(q)'
  BY <1>1, <1>2 DEF SavedPatch
<1>4. Saving(q)'
  BY <1>1, <1>2 DEF EditsInv, EditsOf, Saving
<1>5. SecondStands(q)'
  <2>1. \A c \in Elements(second'[q].cells) : HasEdit(notebook'[Target(q)'].cells, c)
    BY <1>1, <1>2 DEF HasEdit
  <2>2. QED
    BY <2>1 DEF SecondStands, Stands
<1>6. EditsOf(q)'
  BY <1>3, <1>4, <1>5 DEF EditsOf, SavedStands
<1>7. \A p \in Requests \ {q} : Still(p)
  BY <1>1 DEF Still
<1>8. QED
  BY <1>1, <1>3, <1>6, <1>7, QuietEdits

LEMMA FlushEdits ==
    ASSUME IInv, EditsInv, NEW q \in Requests, Flush(q) PROVE EditsInv'
<1>1. /\ UNCHANGED <<notebook, op, overlapped, first, second, now>>
      /\ pc' = [pc EXCEPT ![q] = "commit"] /\ pc[q] = "flush"
      /\ answer' = [answer EXCEPT ![q] =
                       IF op[q].kind = "create" THEN "created" ELSE "ok"]
  BY DEF Flush, Answer
<1>2. /\ pc'[q] = "commit" /\ Target(q)' = Target(q) /\ Entity(q)' = Entity(q)
      /\ op[q].kind = "patch" => answer'[q] = "ok"
  BY <1>1, EntityKept DEF IInv, TypeInv
<1>3. draft[q] = Unlocked /\ DOMAIN draft = Requests
  BY <1>1 DEF IInv, TypeInv, RequestInv, Pending
<1>4. \/ draft' = draft /\ Entity(q) = second[q]
      \/ /\ Target(q) \in DOMAIN draft'[q]
         /\ \A p \in Requests \ {q} : draft'[p] = draft[p]
  BY <1>3, WriteEffect DEF Flush, Write
<1>5. Saving(q)'
  <2>1. draft'[q] = Unlocked => Entity(q) = second[q]
    BY <1>4, UnlockedEmpty
  <2>2. op[q].kind = "create" => first[q] = NoRow
    BY <1>1 DEF EditsInv, EditsOf, Saving
  <2>3. QED
    BY <1>1, <1>2, <2>1, <2>2 DEF Saving, Unlocked
<1>6. ~SavedPatch(q) /\ ~SavedPatch(q)'
  BY <1>1, <1>2 DEF SavedPatch
<1>7. overlapped' = {} => SecondStands(q)'
  <2>1. SUFFICES ASSUME overlapped = {}, NEW c \in Elements(second[q].cells)
                 PROVE  Stands(Target(q), c)'
    BY <1>1, <1>2 DEF SecondStands, Stands, Buried
  <2>2. Stands(Target(q), c)
    BY <1>1, <2>1 DEF EditsInv, EditsOf, SecondStands
  <2>3. CASE HasEdit(notebook[Target(q)].cells, c)
    BY <1>1, <1>2, <2>3 DEF Stands, HasEdit
  <2>4. CASE Buried(Target(q), c)
    <3>1. PICK r \in Requests :
            /\ SavedPatch(r) /\ Target(r) = Target(q)
            /\ c.id \in DOMAIN Body(r).graves /\ Body(r).graves[c.id] >= c.at
      BY <2>4 DEF Buried
    <3>2. pc'[r] = pc[r] /\ answer'[r] = answer[r]
      BY <1>1, <1>6, <3>1 DEF IInv, TypeInv
    <3>3. SavedPatch(r)' /\ Target(r)' = Target(q)' /\ Body(r)' = Body(r)
      BY <1>1, <1>2, <3>1, <3>2, SavedPatchKept
    <3>4. QED
      BY <1>2, <3>1, <3>3 DEF Stands, Buried
  <2>5. QED
    BY <2>2, <2>3, <2>4 DEF Stands
<1>8. EditsOf(q)'
  BY <1>5, <1>6, <1>7 DEF EditsOf, SavedStands
<1>9. \A p \in Requests \ {q} : Still(p)
  BY <1>1, <1>4 DEF Still
<1>10. QED
  BY <1>1, <1>6, <1>8, <1>9, QuietEdits

\* A request that ends without a commit, or does not save notebooks.
LEMMA AsideEdits ==
    ASSUME IInv, EditsInv, NEW q \in Requests, UNCHANGED <<notebook, op, overlapped>>,
           ~SavedPatch(q), ~SavedPatch(q)', \A p \in Requests \ {q} : Still(p),
           pc'[q] \notin {"reread", "flush", "commit"}
    PROVE  EditsInv'
<1>1. EditsOf(q)'
  BY DEF EditsOf, Saving, SecondStands, SavedStands
<1>2. QED
  BY <1>1, QuietEdits

LEMMA FailEdits ==
    ASSUME IInv, EditsInv, NEW q \in Requests, FlushFails(q) \/ Lose(q)
    PROVE  EditsInv'
<1>1. /\ UNCHANGED <<notebook, op, overlapped, first, second, now>>
      /\ draft' = [draft EXCEPT ![q] = Unlocked]
      /\ pc[q] \in {"reread", "flush", "commit"}
  BY DEF FlushFails, Fail, Lose, Rollback
<1>2. \/ /\ pc' = [pc EXCEPT ![q] = "done"]
         /\ answer' = [answer EXCEPT ![q] = "error"]
      \/ pc' = [pc EXCEPT ![q] = "lost"] /\ answer' = answer
  BY DEF FlushFails, Fail, Finish, Answer, Lose, Goto
<1>3. DOMAIN pc = Requests /\ DOMAIN answer = Requests
  BY DEF IInv, TypeInv
<1>4. ~SavedPatch(q) /\ ~SavedPatch(q)' /\ pc'[q] \in {"done", "lost"}
  BY <1>1, <1>2, <1>3 DEF SavedPatch
<1>5. \A p \in Requests \ {q} : Still(p)
  BY <1>1, <1>2 DEF Still, IInv, TypeInv
<1>6. QED
  BY <1>1, <1>4, <1>5, AsideEdits

LEMMA ContextEdits ==
    ASSUME IInv, EditsInv, NEW q \in Requests, ContextStep(q) PROVE EditsInv'
<1>1. op[q].kind \in ContextKinds
  <2>1. pc[q] \in {"context", "write", "context_commit"} \/ CheckNotebook(q)
    BY DEF ContextStep, ReadContext, StoreContext, StoreFails, ClearContext,
           ContextUnlocked, CommitContext, LoseContext
  <2>2. CASE CheckNotebook(q)
    BY <2>2 DEF CheckNotebook
  <2>3. CASE pc[q] \in {"context", "write", "context_commit"}
    BY <2>3 DEF IInv, RequestInv, PendingContext, ContextKinds
  <2>4. QED
    BY <2>1, <2>2, <2>3
<1>2. /\ UNCHANGED <<notebook, draft, op, overlapped, second, now>>
      /\ \A p \in Requests \ {q} : first'[p] = first[p]
  <2>1. UNCHANGED <<notebook, draft, op, overlapped, second, now>>
    BY DEF ContextStep, CheckNotebook, ReadContext, StoreContext, StoreFails,
           ClearContext, ContextWritten, CommitContext, LoseContext, rowVars
  <2>2. \/ \E row : first' = [first EXCEPT ![q] = row]
        \/ first' = first
    BY DEF ContextStep, CheckNotebook, ReadContext, StoreContext, StoreFails,
           ClearContext, ContextWritten, CommitContext, LoseContext
  <2>3. QED
    BY <2>1, <2>2 DEF IInv, TypeInv
<1>3. \E label \in {"done", "context", "write", "context_commit", "lost"} :
         pc' = [pc EXCEPT ![q] = label]
  <2>1. CheckNotebook(q) => \/ pc' = [pc EXCEPT ![q] = "done"]
                            \/ pc' = [pc EXCEPT ![q] = "context"]
    <3>1. SUFFICES ASSUME CheckNotebook(q)
                   PROVE  \/ pc' = [pc EXCEPT ![q] = "done"]
                          \/ pc' = [pc EXCEPT ![q] = "context"]
      OBVIOUS
    <3>2. \/ Finish(q, "unprocessable") \/ Finish(q, "not_found")
          \/ Finish(q, "forbidden") \/ Goto(q, "context")
      BY <3>1 DEF CheckNotebook
    <3>3. QED
      BY <3>2 DEF Finish, Goto
  <2>2. ReadContext(q) => \/ pc' = [pc EXCEPT ![q] = "done"]
                          \/ pc' = [pc EXCEPT ![q] = "write"]
    BY DEF ReadContext, Finish, Goto
  <2>3. StoreContext(q) \/ ClearContext(q) => pc' = [pc EXCEPT ![q] = "context_commit"]
    BY DEF StoreContext, ClearContext, ContextWritten
  <2>4. StoreFails(q) \/ CommitContext(q) => pc' = [pc EXCEPT ![q] = "done"]
    BY DEF StoreFails, CommitContext, Finish
  <2>5. LoseContext(q) => pc' = [pc EXCEPT ![q] = "lost"]
    BY DEF LoseContext, Goto
  <2>6. QED
    BY <2>1, <2>2, <2>3, <2>4, <2>5 DEF ContextStep
<1>4. \A p \in Requests \ {q} : answer'[p] = answer[p]
  <2>1. answer' = answer \/ \E a : answer' = [answer EXCEPT ![q] = a]
    <3>1. CASE CheckNotebook(q)
      <4>1. \/ Finish(q, "unprocessable") \/ Finish(q, "not_found")
            \/ Finish(q, "forbidden") \/ Goto(q, "context")
        BY <3>1 DEF CheckNotebook
      <4>2. QED
        BY <4>1 DEF Finish, Goto, Answer
    <3>2. CASE ~CheckNotebook(q)
      BY <3>2 DEF ContextStep, ReadContext, StoreContext, StoreFails, ClearContext,
                  ContextWritten, CommitContext, LoseContext, Finish, Goto, Answer
    <3>3. QED
      BY <3>1, <3>2
  <2>2. QED
    BY <2>1 DEF IInv, TypeInv
<1>5. pc'[q] \notin {"reread", "flush", "commit"} /\ \A p \in Requests \ {q} : pc'[p] = pc[p]
  BY <1>3 DEF IInv, TypeInv
<1>6. ~SavedPatch(q) /\ ~SavedPatch(q)'
  BY <1>1, <1>2 DEF SavedPatch, ContextKinds
<1>7. \A p \in Requests \ {q} : Still(p)
  BY <1>2, <1>4, <1>5 DEF Still
<1>8. QED
  BY <1>2, <1>5, <1>6, <1>7, AsideEdits

\* What is stored keeps its edits, unless the patch that is committed deletes
\* them at least as late.
LEMMA CommitKeepsEdits ==
    ASSUME IInv, EditsInv, NEW q \in Requests, CommitRequest(q),
           notebook[Target(q)] = first[q], SavedPatch(q)' <=> op[q].kind = "patch"
    PROVE  /\ \A c : c.at \in Nat /\ HasEdit(notebook[Target(q)].cells, c) =>
                \/ HasEdit(notebook'[Target(q)].cells, c)
                \/ /\ op[q].kind = "patch" /\ c.id \in DOMAIN Body(q).graves
                   /\ Body(q).graves[c.id] >= c.at
           /\ op[q].kind = "patch" =>
                \A c \in Elements(Body(q).cells) :
                    \/ c.id \in DOMAIN Body(q).graves
                    \/ HasEdit(notebook'[Target(q)].cells, c)
                    \/ \E s \in Elements(first[q].cells) :
                          /\ s.id = c.id /\ s.at = c.at
                          /\ HasEdit(notebook'[Target(q)].cells, s)
                    \/ \E s \in Elements(second[q].cells) :
                          /\ s.id = c.id /\ (s = c \/ s.at > c.at)
                          /\ notebook'[Target(q)].cells = notebook[Target(q)].cells
<1> DEFINE old == notebook[Target(q)].cells
<1> DEFINE new == notebook'[Target(q)].cells
<1> DEFINE merged == MergeCells(first[q].cells, Body(q).cells, Body(q).graves)
<1>1. /\ Target(q) \in Notebooks /\ pc[q] = "commit" /\ op[q].kind \in Saves
      /\ RowTyped(first[q]) /\ RowTyped(second[q]) /\ Saving(q)
      /\ RowTyped(notebook[Target(q)])
  BY TargetStored DEF IInv, TypeInv, CommitRequest, RequestInv, Admissible, EditsInv,
     EditsOf
<1>2. new \in {old, Entity(q).cells} /\ (Entity(q).cells # second[q].cells => new = Entity(q).cells)
  <2>1. CASE draft[q] = Unlocked
    BY <1>1, <2>1, CommitEffect DEF Saving
  <2>2. CASE draft[q] # Unlocked
    <3>1. \E anew \in SUBSET Retimed(q) :
            notebook'[Target(q)] =
              Flushed(second[q], Entity(q), notebook[Target(q)], anew)
      BY <1>1, <2>2, FlushedCommitted
    <3>2. QED
      BY <1>1, <3>1 DEF Flushed, RowTyped, NoRow
  <2>3. QED
    BY <2>1, <2>2
<1>3. \A c : c.at \in Nat /\ HasEdit(old, c) => \A s \in Elements(old) : s.at \in Nat
  BY <1>1 DEF RowTyped, IsCells
<1> HIDE DEF old, new
<1>4. CASE op[q].kind = "patch"
  <2>1. Entity(q).cells = merged
    BY <1>1, <1>4 DEF Entity, SyncedVersion, RowTyped, NoRow
  <2>2. /\ \A s \in Elements(old) :
             \/ HasEdit(merged, s)
             \/ s.id \in DOMAIN Body(q).graves /\ Body(q).graves[s.id] >= s.at
        /\ \A c \in Elements(Body(q).cells) :
             \/ c.id \in DOMAIN Body(q).graves \/ HasEdit(merged, c)
             \/ \E s \in Elements(old) :
                   s.id = c.id /\ s.at = c.at /\ s \in Elements(merged)
    <3>1. IsCells(old) /\ Readable(old) /\ old = first[q].cells
      BY <1>1 DEF RowTyped, old
    <3>2. QED
      BY <1>4, <3>1, BodyCells, MergeKeepsEdits DEF IInv
  <2>3. IsCells(merged) /\ IsCells(old)
    <3>1. IsCells(first[q].cells) /\ IsCells(Body(q).cells)
      BY <1>1, <1>4, BodyCells DEF RowTyped, IInv
    <3>2. QED
      BY <1>1, <3>1, MergeElements DEF RowTyped, old
  <2>4. \A i \in DOMAIN Body(q).graves : Body(q).graves[i] \in Nat
    BY <1>4, BodyCells DEF IInv
  <2> HIDE DEF merged
  <2>5. ASSUME NEW c, c.at \in Nat, HasEdit(old, c)
        PROVE  \/ HasEdit(new, c)
               \/ c.id \in DOMAIN Body(q).graves /\ Body(q).graves[c.id] >= c.at
    <3>1. CASE new = old
      BY <2>5, <3>1
    <3>2. CASE new = merged
      <4>1. PICK s \in Elements(old) : s.id = c.id /\ (s = c \/ s.at > c.at)
        BY <2>5 DEF HasEdit
      <4>2. s.at \in Nat
        BY <2>3 DEF IsCells
      <4>3. CASE HasEdit(merged, s)
        <5>1. PICK t \in Elements(merged) : t.id = s.id /\ (t = s \/ t.at > s.at)
          BY <4>3 DEF HasEdit
        <5>2. t.at \in Nat
          BY <2>3 DEF IsCells
        <5>3. t.id = c.id /\ (t = c \/ t.at > c.at)
          BY <2>5, <4>1, <4>2, <5>1, <5>2
        <5>4. QED
          BY <3>2, <5>3 DEF HasEdit
      <4>4. CASE s.id \in DOMAIN Body(q).graves /\ Body(q).graves[s.id] >= s.at
        BY <2>4, <2>5, <4>1, <4>2, <4>4
      <4>5. QED
        BY <2>2, <4>3, <4>4
    <3>3. QED
      BY <1>2, <2>1, <3>1, <3>2
  <2>6. ASSUME NEW c \in Elements(Body(q).cells), c.id \notin DOMAIN Body(q).graves
        PROVE  \/ HasEdit(new, c)
               \/ \E s \in Elements(old) :
                     s.id = c.id /\ s.at = c.at /\ HasEdit(new, s)
               \/ \E s \in Elements(second[q].cells) :
                     s.id = c.id /\ (s = c \/ s.at > c.at) /\ new = old
    <3>1. \/ HasEdit(merged, c)
          \/ \E s \in Elements(old) :
                s.id = c.id /\ s.at = c.at /\ s \in Elements(merged)
      BY <2>2, <2>6
    <3>2. CASE new = merged
      BY <3>1, <3>2 DEF HasEdit
    <3>3. CASE new # merged
      <4>1. new = old /\ second[q].cells = merged
        BY <1>2, <2>1, <3>3
      <4>2. QED
        BY <3>1, <4>1 DEF HasEdit
    <3>4. QED
      BY <3>2, <3>3
  <2>7. QED
    BY <1>4, <2>5, <2>6 DEF old, new
<1>5. CASE op[q].kind = "create"
  <2>1. old = <<>>
    <3>1. notebook[Target(q)] = NoRow
      BY <1>1, <1>5 DEF Saving
    <3>2. NoRow.cells = <<>>
      BY DEF NoRow
    <3>3. QED
      BY <3>1, <3>2 DEF old
  <2>2. Elements(<<>>) = {}
    BY DEF Elements
  <2>3. \A c : ~HasEdit(old, c)
    BY <2>1, <2>2 DEF HasEdit
  <2>4. QED
    BY <1>5, <2>3 DEF old
<1>6. CASE op[q].kind \in {"delete", "restore"}
  <2>1. Entity(q).cells = first[q].cells
    BY <1>1, <1>6 DEF Entity, RowTyped, NoRow
  <2>2. new = old
    BY <1>2, <2>1 DEF old
  <2>3. QED
    BY <1>6, <2>2 DEF old, new
<1>7. QED
  BY <1>1, <1>4, <1>5, <1>6 DEF Saves

LEMMA CommitEdits ==
    ASSUME IInv, EditsInv, NEW q \in Requests, CommitRequest(q) PROVE EditsInv'
<1>1. /\ UNCHANGED <<op, first, second, now, answer>>
      /\ pc' = [pc EXCEPT ![q] = "done"] /\ pc[q] = "commit"
      /\ draft' = [draft EXCEPT ![q] = Unlocked]
      /\ overlapped' = IF notebook[Target(q)] = first[q] THEN overlapped
                       ELSE overlapped \cup {q}
  BY DEF CommitRequest, Commit
<1>2. pc'[q] = "done" /\ \A p \in Requests \ {q} : Still(p)
  BY <1>1 DEF Still, IInv, TypeInv
<1>3. \A r \in Requests : Target(r)' = Target(r) /\ Body(r)' = Body(r)
  BY <1>1 DEF Target, User, Body
<1>4. SavedPatch(q)' <=> op[q].kind = "patch"
  BY <1>1, <1>2 DEF SavedPatch, EditsInv, EditsOf, Saving
<1>5. \A r \in Requests : SavedPatch(r) => SavedPatch(r)'
  BY <1>1, <1>2 DEF SavedPatch, Still
<1>6. ASSUME NEW n, NEW c, Buried(n, c) PROVE Buried(n, c)'
  BY <1>3, <1>5, <1>6 DEF Buried
<1>7. overlapped' = {} => notebook[Target(q)] = first[q] /\ overlapped = {}
  BY <1>1
<1>8. ASSUME overlapped' = {}, NEW n \in Notebooks, NEW c, c.at \in Nat, Stands(n, c)
      PROVE  Stands(n, c)'
  <2>1. CASE Buried(n, c)
    BY <1>6, <2>1 DEF Stands
  <2>2. CASE HasEdit(notebook[n].cells, c) /\ n # Target(q)
    <3>1. notebook'[n] = notebook[n]
      BY <2>2, CommitEffect
    <3>2. QED
      BY <2>2, <3>1 DEF Stands, HasEdit
  <2>3. CASE HasEdit(notebook[n].cells, c) /\ n = Target(q)
    <3>1. CASE HasEdit(notebook'[Target(q)].cells, c)
      BY <2>3, <3>1 DEF Stands, HasEdit
    <3>2. CASE /\ op[q].kind = "patch" /\ c.id \in DOMAIN Body(q).graves
               /\ Body(q).graves[c.id] >= c.at
      BY <1>3, <1>4, <2>3, <3>2 DEF Stands, Buried
    <3>3. QED
      BY <1>4, <1>7, <1>8, <2>3, <3>1, <3>2, CommitKeepsEdits
  <2>4. QED
    BY <1>8, <2>1, <2>2, <2>3 DEF Stands
<1>9. EditsKept
  BY <1>1, <1>7, <1>8 DEF EditsKept
<1>10. ASSUME overlapped' = {}, op[q].kind = "patch",
              NEW c \in Elements(Body(q).cells), c.id \notin DOMAIN Body(q).graves
       PROVE  StandsFor(q, c)'
  <2>0. first'[q] = first[q]
    BY <1>1
  <2>1. c.at \in Nat /\ Target(q) \in Notebooks
    BY <1>10, BodyCells, TargetStored DEF IInv
  <2>2. CASE HasEdit(notebook'[Target(q)].cells, c)
    BY <1>3, <2>2 DEF StandsFor, Stands, HasEdit
  <2>5. CASE \E s \in Elements(first[q].cells) :
               s.id = c.id /\ s.at = c.at /\ HasEdit(notebook'[Target(q)].cells, s)
    <3>1. PICK s \in Elements(first[q].cells) :
            s.id = c.id /\ s.at = c.at /\ HasEdit(notebook'[Target(q)].cells, s)
      BY <2>5
    <3>2. Stands(Target(q), s)' /\ s \in Elements(first[q].cells)'
      BY <1>3, <2>0, <3>1 DEF Stands, HasEdit, Elements
    <3>3. QED
      BY <3>1, <3>2 DEF StandsFor
  <2>3. CASE \E s \in Elements(second[q].cells) : s.id = c.id /\ (s = c \/ s.at > c.at)
    <3>1. PICK s \in Elements(second[q].cells) : s.id = c.id /\ (s = c \/ s.at > c.at)
      BY <2>3
    <3>2. s.at \in Nat
      BY DEF IInv, TypeInv, RowTyped, IsCells
    <3>3. Stands(Target(q), s)
      BY <1>1, <1>7, <1>10 DEF EditsInv, EditsOf, SecondStands
    <3>4. Stands(Target(q), c)
      <4>1. CASE HasEdit(notebook[Target(q)].cells, s)
        <5>1. PICK t \in Elements(notebook[Target(q)].cells) :
                t.id = s.id /\ (t = s \/ t.at > s.at)
          BY <4>1 DEF HasEdit
        <5>2. t.at \in Nat
          BY <2>1 DEF IInv, TypeInv, RowTyped, IsCells
        <5>3. t.id = c.id /\ (t = c \/ t.at > c.at)
          BY <2>1, <3>1, <3>2, <5>1, <5>2
        <5>4. QED
          BY <5>1, <5>3 DEF Stands, HasEdit
      <4>2. CASE Buried(Target(q), s)
        <5>1. PICK r \in Requests :
                /\ SavedPatch(r) /\ Target(r) = Target(q)
                /\ s.id \in DOMAIN Body(r).graves /\ Body(r).graves[s.id] >= s.at
          BY <4>2 DEF Buried
        <5>2. Body(r).graves[s.id] \in Nat
          BY <5>1, BodyCells DEF IInv, SavedPatch
        <5>3. c.id \in DOMAIN Body(r).graves /\ Body(r).graves[c.id] >= c.at
          BY <2>1, <3>1, <3>2, <5>1, <5>2
        <5>4. QED
          BY <5>1, <5>3 DEF Stands, Buried
      <4>3. QED
        BY <3>3, <4>1, <4>2 DEF Stands
    <3>5. QED
      BY <1>3, <1>8, <1>10, <2>1, <3>4 DEF StandsFor, Stands, Buried
  <2>4. QED
    BY <1>4, <1>7, <1>10, <2>2, <2>3, <2>5, CommitKeepsEdits
<1>11. EditsOf(q)'
  <2>1. overlapped' = {} => SavedStands(q)'
    BY <1>3, <1>4, <1>10 DEF SavedStands
  <2>2. QED
    BY <1>2, <2>1 DEF EditsOf, Saving, SecondStands
<1>12. ASSUME NEW p \in Requests \ {q} PROVE EditsOf(p)'
  BY <1>2, <1>9, StillKeeps DEF EditsInv
<1>13. QED
  BY <1>11, <1>12 DEF EditsInv

LEMMA EditsStep ==
    ASSUME IInv, EditsInv, [ContextNext]_<<vars, contextVars>>
    PROVE  EditsInv'
<1>1. CASE UNCHANGED <<vars, contextVars>> \/ Tick
  <2>1. /\ UNCHANGED <<notebook, op, overlapped>> /\ \A p \in Requests : Still(p)
    BY <1>1 DEF vars, Tick, rowVars, Still
  <2>2. \A n, c : Stands(n, c) => Stands(n, c)'
    BY <2>1 DEF Stands, HasEdit, Buried, SavedPatch, Target, User, Body, Still
  <2>3. EditsKept
    BY <2>1, <2>2 DEF EditsKept
  <2>4. QED
    BY <2>1, <2>3, StillKeeps DEF EditsInv
<1>2. ASSUME NEW q \in Requests, Decide(q) \/ Save(q) \/ Lose(q) PROVE EditsInv'
  BY <1>2, DecideEdits, RereadEdits, FlushEdits, FailEdits, CommitEdits DEF Save
<1>3. ASSUME NEW q \in Requests, ContextStep(q) PROVE EditsInv'
  BY <1>3, ContextEdits
<1>4. QED
  BY <1>1, <1>2, <1>3 DEF ContextNext, Next

\* No edit of a committed patch is lost while no request commits over a row it has
\* not read, for any requests and any interleaving (merge_cells, save).
THEOREM CommittedEditsStandAlways == ContextSpec => []CommittedEditsStand
<1>1. ContextInit => EditsInv
  BY DEF ContextInit, Init, EditsInv, EditsOf, Saving, SecondStands, SavedStands,
         SavedPatch
<1>2. EditsInv => CommittedEditsStand
  <2> SUFFICES ASSUME EditsInv, overlapped = {}, NEW q \in Requests, SavedPatch(q),
                      NEW c \in Elements(Body(q).cells)
               PROVE  \/ \E s \in Elements(notebook[Target(q)].cells) :
                            /\ s.id = c.id
                            /\ \/ s = c \/ s.at > c.at
                               \/ s.at = c.at /\ s \in Elements(first[q].cells)
                      \/ \E r \in Requests :
                            /\ SavedPatch(r) /\ Target(r) = Target(q)
                            /\ c.id \in DOMAIN Body(r).graves
                            /\ r = q \/ Body(r).graves[c.id] >= c.at
    BY DEF CommittedEditsStand
  <2>1. c.id \in DOMAIN Body(q).graves \/ StandsFor(q, c)
    BY DEF EditsInv, EditsOf, SavedStands
  <2>2. QED
    BY <2>1 DEF StandsFor, Stands, HasEdit, Buried
<1> QED BY <1>1, <1>2, EditsStep, Invariance, PTL DEF ContextSpec
=============================================================================
