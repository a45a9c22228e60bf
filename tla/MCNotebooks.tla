----------------------------- MODULE MCNotebooks -----------------------------
(***************************************************************************)
(* Instances of AiContext, and of the NotebookSync it composes, for TLC.   *)
(***************************************************************************)
EXTENDS AiContext, TLC

CONSTANTS alice, bob, n1, q1, q2, q3

DemoIds == [u \in Users |-> n1]

Cell(id, at, text) == [id |-> id, at |-> at, text |-> text]
NoGraves == [i \in {} |-> 0]
Doc(cells, graves) ==
    [title |-> "t", format |-> CurrentFormat, cells |-> cells, graves |-> graves]

Stored == [NoRow EXCEPT !.owner = alice, !.title = "t",
                        !.cells = <<Cell("x", 1, "old")>>]
SomeSeeds == {Stored, [Stored EXCEPT !.deleted = TRUE]}

\* What a request may ask for.
Ask(kind, user, body) == [kind |-> kind, user |-> user, notebook |-> n1, body |-> body]
Empty == Doc(<<>>, NoGraves)
Asks ==
    << Ask("create", alice, Doc(<<Cell("x", 1, "old")>>, NoGraves)),
       Ask("create", bob, Doc(<<Cell("z", 3, "bob")>>, NoGraves)),
       Ask("create", alice, [Empty EXCEPT !.format = CurrentFormat + 1]),
       Ask("patch", alice, Doc(<<Cell("x", 2, "new"), Cell("y", 1, "y")>>, NoGraves)),
       Ask("patch", alice, Doc(<<Cell("x", 1, "stale"), Cell("u", 0, "mine")>>, "y" :> 0)),
       Ask("patch", alice, Doc(<<>>, ("x" :> 1) @@ ("y" :> 1))),
       Ask("patch", alice, Doc(<<Cell("u", 0, "u"), Cell("v", 0, "v")>>, NoGraves)),
       Ask("patch", alice, [Empty EXCEPT !.format = CurrentFormat + 1]),
       Ask("delete", alice, Empty),
       Ask("restore", alice, Empty),
       Ask("store", alice, <<Item({"a"}, 1)>>),
       Ask("store", alice, <<Item({"a"}, 1), Item({"b"}, 1), Item({"c"}, 1)>>),
       Ask("store", alice, <<Item({"a"}, 0), Item({"b"}, 0), Item({"d"}, 3)>>),
       Ask("store", alice, <<Item({"a"}, 4)>>),
       Ask("store", alice, <<Item({"b"}, 1)>>),
       Ask("store", bob, <<Item({"a"}, 1)>>),
       Ask("load", alice, <<>>),
       Ask("clear", alice, <<>>) >>

\* Any three of them, on one notebook, but for permutations.
AnyThree ==
    {(q1 :> Asks[t[1]]) @@ (q2 :> Asks[t[2]]) @@ (q3 :> Asks[t[3]]) :
        t \in {u \in (DOMAIN Asks) \X (DOMAIN Asks) \X (DOMAIN Asks) :
                 u[1] <= u[2] /\ u[2] <= u[3]}}
TwoCreations == {(q1 :> Asks[1]) @@ (q2 :> Asks[2]) @@ (q3 :> Asks[9])}
=============================================================================
