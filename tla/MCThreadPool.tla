----------------------------- MODULE MCThreadPool -----------------------------
(* Model values and symmetry for the runs of ThreadPool. *)
EXTENDS ThreadPool, TLC

CONSTANTS p1, p2

OneProducer == {p1}
TwoProducers == {p1, p2}

\* Producers differ in nothing but their names, and no safety property tells
\* them apart.
ProducerSymmetry == Permutations(TwoProducers)
===============================================================================
