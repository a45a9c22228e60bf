---------------------------- MODULE MCAuthTokens ----------------------------
(***************************************************************************)
(* An instance of AuthTokens for TLC.                                      *)
(***************************************************************************)
EXTENDS AuthTokens, TLC

\* Refreshes, and one logout.
OneLogout == {k \in [Requests -> {"refresh", "logout"}] :
                Cardinality({q \in Requests : k[q] = "logout"}) = 1}

\* Bound: the clock moves when at most two requests have not ended.
LateTick ==
    clock > 0 => Cardinality({q \in Requests : pc[q] \notin {"done", "lost"}}) <= 2

Symmetry == Permutations(Tokens) \cup Permutations(Requests)
=============================================================================
