------------------------------ MODULE MCForkChat ------------------------------
(* Model values and symmetry for the runs of ForkChat. *)
EXTENDS ForkChat, TLC

CONSTANTS c1, c2, c3

ThreeClients == {c1, c2, c3}

\* Clients differ in nothing but their names, and no property names one.
ClientSymmetry == Permutations(ThreeClients)
===============================================================================
