----------------------------- MODULE MCLlmUsage -----------------------------
(***************************************************************************)
(* Instances of LlmUsage for TLC.                                          *)
(***************************************************************************)
EXTENDS LlmUsage, TLC

CONSTANT u1

\* All requests come from one user, so that they meet in all four rows.
MCUserOf == [q \in Requests |-> u1]
Symmetry == Permutations(Requests) \cup Permutations(Reconcilers)

\* Guard calls are cheaper than generator calls, and what a repair reserves
\* depends on its prompt; a provider reports at most the bound.
MCBounds ==
    [c \in Calls |-> CASE c = Guard -> {1} [] c = Generator -> {2}
                       [] OTHER -> {1, 2}]
MCReportedCosts == [c \in Calls |-> {1}]

\* A provider that reports more tokens than the bytes of the prompt predict.
MCExcessCosts == [c \in Calls |-> {3}]

\* One request and one repair of another fit in a day, not two requests.
MCFixedLimits == {[daily |-> 3, monthly |-> 5]}
\* An entitlement that is reduced below what is already used.
MCChangingLimits == {[daily |-> 3, monthly |-> 4], [daily |-> 2, monthly |-> 3]}
=============================================================================
