---------------------------- MODULE MCSelectServer ----------------------------
(* Model values for the runs of SelectServer. *)
EXTENDS SelectServer

CONSTANTS c1, c2, c3

ThreeClients == {c1, c2, c3}
===============================================================================
