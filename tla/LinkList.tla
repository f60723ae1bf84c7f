------------------------------- MODULE LinkList -------------------------------
(***************************************************************************)
(* The linked list of practise/link_list.c, with the callers that          *)
(* link_list.h allows: one list L, made by a caller as an empty header.    *)
(* Elements are compared as pointers.                                      *)
(***************************************************************************)
EXTENDS Cells

CONSTANT Elements

LinkListAssumption == CellsAssumption /\ Elements # {}

VARIABLES
    element,        \* the Element field of each cell
    run             \* "crashed": DeleteList followed what free() left

vars == <<next, allocated, element, run>>

TypeOK ==
    /\ next \in [Cells -> Cells \union {NULL}] /\ allocated \subseteq Cells
    /\ element \in [Cells -> Elements]
    /\ run \in {"running", "crashed"}

Init ==
    /\ next = [p \in Cells |-> NULL] /\ allocated = {Head}
    /\ element = [p \in Cells |-> CHOOSE X \in Elements : TRUE]
    /\ run = "running"

-------------------------------------------------------------------------------
IsLast(P) == next[P] = NULL

\* The cell before the first X, the last cell if there is none.
FindPrevious(X) ==
    FirstCell(LAMBDA P : next[P] # NULL => element[next[P]] = X)

DeleteNext(P) ==
    /\ ~IsLast(P)
    /\ next' = [next EXCEPT ![P] = next[next[P]]]
    /\ allocated' = allocated \ {next[P]}
    /\ UNCHANGED <<element, run>>

DeleteFound(X) == \* mutant: FindPrevious stops one cell too late
    next[FindPrevious(X)] # NULL /\ DeleteNext(next[FindPrevious(X)])

Delete(X) == DeleteNext(FindPrevious(X))

InsertSwapped(X, P) == \* mutant: P -> Next is stored before it is copied
    \E TmpCell \in Cells \ allocated :
        /\ element' = [element EXCEPT ![TmpCell] = X]
        /\ next' = [next EXCEPT ![P] = TmpCell, ![TmpCell] = TmpCell]
        /\ allocated' = allocated \union {TmpCell}
        /\ UNCHANGED run

Insert(X, P) ==
    \E TmpCell \in Cells \ allocated :
        /\ element' = [element EXCEPT ![TmpCell] = X]
        /\ next' = [next EXCEPT ![P] = TmpCell, ![TmpCell] = next[P]]
        /\ allocated' = allocated \union {TmpCell}
        /\ UNCHANGED run

\* Each cell is freed before its pointer is read: what is read is the pointer,
\* or what the allocator has put in its place.
DeleteList ==
    /\ next' = [next EXCEPT ![Head] = NULL]
    /\ allocated' = {Head}
    /\ run' \in IF IsLast(Head) THEN {run} ELSE {run, "crashed"}
    /\ UNCHANGED element

Next ==
    /\ run = "running"
    /\ \/ \E X \in Elements : Delete(X) \/ \E P \in InList : Insert(X, P)
       \/ DeleteList

Spec == Init /\ [][Next]_vars

-------------------------------------------------------------------------------
\* The list ends, and its cells are the ones that are allocated.
ListWellFormed == run = "running" => WellFormed

\* To its callers the list is a sequence: Insert puts an element behind the
\* position it is given, Delete takes the first that is equal.
Contents == [k \in 1 .. Cardinality(Steps)-1 |-> element[Walk[k]]]
Seqs == INSTANCE SeqList WITH items <- Contents, usable <- run = "running"
RefinesSequence == Seqs!Spec
===============================================================================
