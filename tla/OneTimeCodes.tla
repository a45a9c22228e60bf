----------------------------- MODULE OneTimeCodes -----------------------------
(***************************************************************************)
(* What the one-time codes of an address promise, without transactions,    *)
(* locks or mail.  A request issues a code or redeems one, in one step, at *)
(* most once.  Issuing ends every code that was there when the request     *)
(* arrived, and perhaps some that were issued since; redeeming ends the    *)
(* code, and takes one that has not ended and had not expired when the     *)
(* request arrived.  The first to redeem one names the account.            *)
(***************************************************************************)
EXTENDS Naturals

CONSTANTS Codes, NoCode, Senders, Verifiers, NoAccount, Ttl

VARIABLES
    clock,
    since,      \* when each request arrived
    before,     \* the codes that had been issued when each sender arrived
    expiry,     \* when each issued code expires
    ended,      \* the codes that can no longer be redeemed
    taken,      \* the code that each request has issued or redeemed
    account     \* who has redeemed a code first

codes == <<clock, since, before, expiry, ended, taken, account>>

Requests == Senders \cup Verifiers

Init ==
    /\ clock = 0
    /\ since = [q \in Requests |-> 0]
    /\ before = [q \in Senders |-> {}]
    /\ expiry = [r \in {} |-> 0]
    /\ ended = {}
    /\ taken = [q \in Requests |-> NoCode]
    /\ account = NoAccount

Arrive(q) ==
    /\ taken[q] = NoCode
    /\ since' = [since EXCEPT ![q] = clock]
    /\ before' = [p \in Senders |-> IF p = q THEN DOMAIN expiry ELSE before[p]]
    /\ UNCHANGED <<clock, expiry, ended, taken, account>>

Issue(q, r) ==
    /\ taken[q] = NoCode /\ r \notin DOMAIN expiry
    /\ expiry' = [c \in DOMAIN expiry \cup {r} |->
                     IF c = r THEN since[q] + Ttl ELSE expiry[c]]
    /\ ended \cup before[q] \subseteq ended' /\ ended' \subseteq DOMAIN expiry
    /\ taken' = [taken EXCEPT ![q] = r]
    /\ UNCHANGED <<clock, since, before, account>>

Redeem(v, r) ==
    /\ taken[v] = NoCode
    /\ r \in DOMAIN expiry \ ended /\ expiry[r] > since[v]
    /\ ended' = ended \cup {r}
    /\ taken' = [taken EXCEPT ![v] = r]
    /\ account' = IF account = NoAccount THEN v ELSE account
    /\ UNCHANGED <<clock, since, before, expiry>>

Tick ==
    /\ clock' = clock + 1
    /\ UNCHANGED <<since, before, expiry, ended, taken, account>>

Next ==
    \/ \E q \in Requests : Arrive(q)
    \/ \E q \in Senders, r \in Codes : Issue(q, r)
    \/ \E v \in Verifiers, r \in Codes : Redeem(v, r)
    \/ Tick

Spec == Init /\ [][Next]_codes
=============================================================================
