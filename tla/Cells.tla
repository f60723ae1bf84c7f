-------------------------------- MODULE Cells --------------------------------
(***************************************************************************)
(* A singly linked list in the heap, as practise/contacts.c and            *)
(* practise/link_list.c walk it: a head cell that malloc returned, and a   *)
(* pointer from each cell to the next.                                     *)
(***************************************************************************)
EXTENDS Integers, FiniteSets

CONSTANTS
    Cells,     \* the addresses that malloc can return
    Head,      \* the head cell
    NULL

CellsAssumption == IsFiniteSet(Cells) /\ Head \in Cells /\ NULL \notin Cells

VARIABLES
    next,      \* the pointer in each cell
    allocated  \* the cells that have not been freed

\* The cell that k steps from the head lead to, NULL after the end.
Walk[k \in 0 .. Cardinality(Cells)] ==
    IF k = 0 THEN Head
    ELSE LET p == Walk[k-1] IN IF p = NULL THEN NULL ELSE next[p]

Steps   == {k \in DOMAIN Walk : Walk[k] # NULL}
InList  == {Walk[k] : k \in Steps}

\* The first cell of the list that satisfies P, NULL if there is none.
FirstCell(P(_)) ==
    IF \E k \in Steps : P(Walk[k])
      THEN Walk[CHOOSE k \in Steps :
                   P(Walk[k]) /\ \A j \in Steps : P(Walk[j]) => k <= j]
      ELSE NULL

\* The cell whose pointer is p: the last one, if p is NULL.
PreviousOf(p) == FirstCell(LAMBDA q : next[q] = p)

\* The list ends, all of it can be used, and nothing else is kept allocated.
WellFormed ==
    /\ NULL \in {Walk[k] : k \in DOMAIN Walk}
    /\ InList = allocated
===============================================================================
