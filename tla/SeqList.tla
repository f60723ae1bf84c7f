-------------------------------- MODULE SeqList --------------------------------
(***************************************************************************)
(* What practise/link_list.c promises to its callers, without the cells: a *)
(* sequence of elements.                                                   *)
(***************************************************************************)
EXTENDS Integers, Sequences

CONSTANT Elements

VARIABLES items,
          usable   \* nothing undefined has happened

vars == <<items, usable>>

Init == items = <<>> /\ usable = TRUE

\* X becomes the element behind the first k.
Insert ==
    \E X \in Elements, k \in 0 .. Len(items) :
        items' = SubSeq(items, 1, k) \o <<X>> \o SubSeq(items, k+1, Len(items))

\* The first X goes.
Delete ==
    \E k \in 1 .. Len(items) :
        /\ \A j \in 1 .. k-1 : items[j] # items[k]
        /\ items' = SubSeq(items, 1, k-1) \o SubSeq(items, k+1, Len(items))

DeleteList == items' = <<>>

Next == usable /\ (Insert \/ Delete \/ DeleteList) /\ usable' \in BOOLEAN

Spec == Init /\ [][Next]_vars
===============================================================================
