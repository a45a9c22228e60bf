---------------------------- MODULE MCLlmEndpoint ----------------------------
(***************************************************************************)
(* Instances of LlmEndpoint for TLC.                                       *)
(***************************************************************************)
EXTENDS LlmEndpoint

CONSTANTS alice, mallory, q1, q2, q3, q4

Owners == [q \in Requests |-> IF q = q4 THEN mallory ELSE alice]
=============================================================================
