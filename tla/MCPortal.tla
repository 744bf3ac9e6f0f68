------------------------------ MODULE MCPortal ------------------------------
(***************************************************************************)
(* A small instance of Portal: two tabs edit settings, or one tab walks    *)
(* through one of the lists.                                               *)
(***************************************************************************)
EXTENDS Portal, TLC

CONSTANTS tab1, tab2, f1, f2, c1, c2, c3

MCTasks == {[t \in Tabs |-> "settings"],
            [t \in Tabs |-> IF t = tab1 THEN "users" ELSE "none"],
            [t \in Tabs |-> IF t = tab1 THEN "submissions" ELSE "none"]}
\* Rows 2 and 3 have one created_at and so have 4 and 5; every way to order them.
MCCreatedAt == <<1, 2, 2, 3, 3>>
MCTieBreaks == {<<1, 2, 3, 4, 5>>, <<1, 3, 2, 4, 5>>, <<1, 2, 3, 5, 4>>, <<1, 3, 2, 5, 4>>}
Symmetry == Permutations(Csrfs)
=============================================================================
