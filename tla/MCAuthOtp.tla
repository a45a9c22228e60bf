------------------------------ MODULE MCAuthOtp ------------------------------
(***************************************************************************)
(* Instances of AuthOtp for TLC.                                           *)
(***************************************************************************)
EXTENDS AuthOtp, TLC

\* Two states that requests reach from Init: one sender was lost as soon as it
\* had begun; or all the others have overlapped it, after it had counted, and
\* have left several unused codes.
Reached(last, sent, code) ==
    /\ clock = 0
    /\ otp = [r \in Codes |-> IF \E q \in sent : code[q] = r THEN NewRow(0) ELSE NoRow]
    /\ user = NoUser
    /\ pc = [q \in Requests |-> CASE q \in sent -> "done"
                                  [] q = last -> IF sent = {} THEN "lost" ELSE "scan"
                                  [] OTHER -> "idle"]
    /\ now = [q \in Requests |-> 0]
    /\ draft = [q \in Requests |-> Unlocked]
    /\ targets = [q \in Requests |-> {}]
    /\ row = [q \in Requests |-> IF q \in sent THEN code[q] ELSE WrongCode]
    /\ entered \in [Verifiers -> Codes \cup {WrongCode}]
    /\ owner = [v \in Verifiers |-> NoUser]
    /\ answer = [q \in Requests |-> IF q \in sent THEN "sent" ELSE "none"]
    /\ mailed = {code[q] : q \in sent}
    /\ failures = [r \in Codes |-> 0]
    /\ dead = [q \in Requests |-> {}]

ReachedInit ==
    \E last \in Senders : \E sent \in {{}, Senders \ {last}} :
        \E code \in [sent -> Codes] :
            /\ \A q, p \in sent : q # p => code[q] # code[p]
            /\ Reached(last, sent, code)

ReachedSpec == ReachedInit /\ [][Next]_vars

Symmetry == Permutations(Codes) \cup Permutations(Senders) \cup Permutations(Verifiers)
=============================================================================
