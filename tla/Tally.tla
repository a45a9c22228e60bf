------------------------------- MODULE Tally -------------------------------
(***************************************************************************)
(* The sum of a natural-valued function over a finite set, counted as the  *)
(* size of a disjoint union of intervals: f[x] units for every x of S.     *)
(* Unlike a fold, it needs no recursion, so the cardinality theorems of    *)
(* the library prove how it changes when S does (CountingLemmas).          *)
(***************************************************************************)
EXTENDS Integers, FiniteSets

Units(S, f) == UNION {{x} \X (1 .. f[x]) : x \in S}
Total(S, f) == Cardinality(Units(S, f))
=============================================================================
