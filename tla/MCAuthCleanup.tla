---------------------------- MODULE MCAuthCleanup ----------------------------
(***************************************************************************)
(* An instance of AuthCleanup for TLC.  Liveness is checked, so symmetry   *)
(* is broken by hand: of the initial states that differ in the names of    *)
(* tokens and requests only, one is kept.                                  *)
(***************************************************************************)
EXTENDS AuthCleanup, TLC

CONSTANTS q1, q2, q3, t1, t2

\* Two refreshes, a refresh and a logout, or two logouts, after a refresh.
PairWorkload ==
    {(q1 :> "refresh") @@ (q2 :> k) @@ (q3 :> "refresh") : k \in {"refresh", "logout"}}
    \cup {(q1 :> "logout") @@ (q2 :> "logout") @@ (q3 :> "refresh")}

\* A third request is over: it rotated the first token of a family, so that two
\* requests can hold a token of the family each, or it found nothing, and the
\* others are a refresh and a logout.
Earlier ==
    /\ pc = [q \in Requests |-> IF q = q3 THEN "done" ELSE "idle"]
    /\ presented[q3] = t1
    /\ \/ /\ session = [s \in Sessions |-> Unopened]
          /\ token = [t \in Tokens |-> NoRow]
          /\ answer = [q \in Requests |-> IF q = q3 THEN "unknown" ELSE "none"]
          /\ kind[q1] = "refresh" /\ kind[q2] = "logout"
          /\ presented[q1] = t1 /\ presented[q2] \in {t1, t2}
       \/ \E s \in Sessions :
             /\ session = [r \in Sessions |->
                             IF r = s THEN [status |-> "active", expires |-> Lifetime]
                             ELSE Unopened]
             /\ token = [t \in Tokens |->
                            CASE t = t1 -> [NewRow(s) EXCEPT !.rotated = TRUE]
                              [] t = t2 -> NewRow(s)
                              [] OTHER -> NoRow]
             /\ answer = [q \in Requests |-> IF q = q3 THEN "rotated" ELSE "none"]
             /\ presented[q1] \in {t1, t2} /\ presented[q2] \in {t1, t2}

EarlierInit ==
    /\ clock = 0
    /\ kind \in Workloads /\ presented \in [Requests -> Tokens]
    /\ Earlier
    /\ now = [q \in Requests |-> 0]
    /\ draft = [q \in Requests |-> Unlocked]
    /\ targets = [q \in Requests |-> {}]
    /\ closed = [q \in Requests |-> {}]
    /\ revokedAt = [s \in Sessions |-> 0]
    /\ step = "idle"
    /\ doomed = {} /\ scanned = {} /\ deleted = {}

MCSpec == EarlierInit /\ [][CleanupNext]_cleanupVars /\ CleanupFairness
=============================================================================
