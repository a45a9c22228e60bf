---------------------------- MODULE TokenFamilies ----------------------------
(***************************************************************************)
(* What sessions and refresh tokens promise, without transactions, locks   *)
(* or rows.  Each session has a line of tokens of which only the last, the *)
(* heir, is worth anything: it is exchanged for a new one, in one step, by *)
(* one request.  A session that has ended stays ended.  Its heir is caught *)
(* with it or is overlooked; an heir that was overlooked is of use only to *)
(* requests that had arrived before the session ended.                     *)
(***************************************************************************)
CONSTANTS Sessions, Tokens, Requests

VARIABLES
    heir,       \* the token each opened session can go on with
    ended,      \* the sessions that have ended
    caught,     \* those whose heir has ended with them
    exchanged,  \* which request has exchanged which token
    late        \* the sessions that had ended when each request arrived

families == <<heir, ended, caught, exchanged, late>>

Used == {heir[s] : s \in DOMAIN heir} \cup {e[2] : e \in exchanged}

Init ==
    /\ heir = [s \in {} |-> s]
    /\ ended = {} /\ caught = {} /\ exchanged = {}
    /\ late = [q \in Requests |-> {}]

\* A login opens session s with the token t.
Open(s, t) ==
    /\ s \notin DOMAIN heir /\ t \notin Used
    /\ heir' = [r \in DOMAIN heir \cup {s} |-> IF r = s THEN t ELSE heir[r]]
    /\ UNCHANGED <<ended, caught, exchanged, late>>

Arrive(q) ==
    /\ late' = [late EXCEPT ![q] = ended]
    /\ UNCHANGED <<heir, ended, caught, exchanged>>

\* Request q exchanges the heir of s for t.
Exchange(q, s, t) ==
    /\ s \in DOMAIN heir \ (caught \cup late[q])
    /\ \A e \in exchanged : e[1] # q
    /\ t \notin Used
    /\ exchanged' = exchanged \cup {<<q, heir[s]>>}
    /\ heir' = [heir EXCEPT ![s] = t]
    /\ UNCHANGED <<ended, caught, late>>

\* A logout, or a token that is presented once more, ends the session.
Close(s) ==
    /\ s \in DOMAIN heir
    /\ ended' = ended \cup {s}
    /\ caught' \in {caught, caught \cup {s}}
    /\ UNCHANGED <<heir, exchanged, late>>

Next ==
    \/ \E s \in Sessions, t \in Tokens : Open(s, t)
    \/ \E q \in Requests : Arrive(q) \/ \E s \in Sessions, t \in Tokens : Exchange(q, s, t)
    \/ \E s \in Sessions : Close(s)

Spec == Init /\ [][Next]_families
=============================================================================
