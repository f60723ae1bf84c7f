------------------------------- MODULE PhoneBook -------------------------------
(***************************************************************************)
(* What practise/contacts.c promises to its user, without the list: a book *)
(* that has at most one number for a name.                                 *)
(***************************************************************************)
CONSTANTS Names, Numbers

VARIABLES book,   \* the numbers, a function on the names that are in the book
          open    \* does the program still take commands?

vars == <<book, open>>

Init == book \in [{} -> Numbers] /\ open = TRUE

Add ==
    \E n \in Names \ DOMAIN book, x \in Numbers :
        book' = [m \in DOMAIN book \union {n} |-> IF m = n THEN x ELSE book[m]]

Delete ==
    \E n \in DOMAIN book : book' = [m \in DOMAIN book \ {n} |-> book[m]]

Change ==
    \E n \in DOMAIN book, x \in Numbers : book' = [book EXCEPT ![n] = x]

Command == open /\ (Add \/ Delete \/ Change) /\ UNCHANGED open

End == open' = FALSE /\ UNCHANGED book

Next == Command \/ End

Spec == Init /\ [][Next]_vars
===============================================================================
