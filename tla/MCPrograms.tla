------------------------------ MODULE MCPrograms ------------------------------
(* Model values and small sets for the run of Programs. *)
EXTENDS Programs

CONSTANTS c1, c2, c3, child1, child2, n1, n2, n3, x1, x2

ThreeClients == {c1, c2, c3}
TwoClients   == {c1, c2}
TwoProcs     == {child1, child2}

\* Room for three people, or for four elements, and the head.
PeopleCells  == 0 .. 3
ListCells    == 0 .. 4
ThreeNames   == {n1, n2, n3}
TwoNumbers   == {x1, x2}
ThreeValues  == 1 .. 3
===============================================================================
