------------------------------- MODULE Contacts -------------------------------
(***************************************************************************)
(* The phone book program practise/contacts.c: the commands of its menu on *)
(* a linked list of people.  findPerson and displayPerson change nothing   *)
(* and are not actions.                                                    *)
(*                                                                         *)
(* The head cell is not initialised.  It is the first block the program    *)
(* gets from malloc and comes from fresh pages: its name is empty, which   *)
(* no name the user types is, and its pointer is NULL.                     *)
(***************************************************************************)
EXTENDS Cells

CONSTANTS
    Names,     \* what the user can type for a name, short enough for name
    NoName,    \* the empty name of the head cell
    Numbers

ContactsAssumption == CellsAssumption /\ NoName \notin Names /\ Numbers # {}

VARIABLES
    name, number,   \* the fields of each cell
    run             \* "crashed": a NULL pointer was followed

vars == <<next, allocated, name, number, run>>

AnyNumber == CHOOSE x \in Numbers : TRUE

TypeOK ==
    /\ next \in [Cells -> Cells \union {NULL}] /\ allocated \subseteq Cells
    /\ name \in [Cells -> Names \union {NoName}]
    /\ number \in [Cells -> Numbers]
    /\ run \in {"menu", "exited", "crashed"}

Init ==
    /\ next = [p \in Cells |-> NULL] /\ allocated = {Head}
    /\ name = [p \in Cells |-> NoName]
    /\ number = [p \in Cells |-> AnyNumber]
    /\ run = "menu"

-------------------------------------------------------------------------------
findPerson(n) == FirstCell(LAMBDA p : name[p] = n)

\* The new cell person goes behind the last one.
Append(person, n, x) ==
    /\ name' = [name EXCEPT ![person] = n]
    /\ number' = [number EXCEPT ![person] = x]
    /\ next' = [next EXCEPT ![person] = NULL, ![PreviousOf(NULL)] = person]
    /\ allocated' = allocated \union {person}
    /\ UNCHANGED run

addPerson(n, x) ==
    /\ findPerson(n) = NULL
    /\ \E person \in Cells \ allocated : Append(person, n, x)

delRest(n) == \* mutant: NULL is stored in preP -> next
    LET aimP == findPerson(n) IN
    /\ aimP # NULL
    /\ next' = [next EXCEPT ![PreviousOf(aimP)] = NULL]
    /\ allocated' = allocated \ {aimP}
    /\ UNCHANGED <<name, number, run>>

\* Nothing reads what a freed cell holds, which is reset here.
delPerson(n) ==
    LET aimP == findPerson(n) IN
    /\ aimP # NULL
    /\ next' = [next EXCEPT ![PreviousOf(aimP)] = next[aimP], ![aimP] = NULL]
    /\ name' = [name EXCEPT ![aimP] = NoName]
    /\ number' = [number EXCEPT ![aimP] = AnyNumber]
    /\ allocated' = allocated \ {aimP}
    /\ UNCHANGED run

\* delPerson of a name that is not there follows NULL.
delMissing(n) ==
    /\ findPerson(n) = NULL
    /\ run' = "crashed"
    /\ UNCHANGED <<next, allocated, name, number>>

changePerson(n, x) ==
    /\ findPerson(n) # NULL
    /\ number' = [number EXCEPT ![findPerson(n)] = x]
    /\ UNCHANGED <<next, allocated, name, run>>

\* Every cell is freed; its pointer, read after that, is still there.
exit_contacts ==
    /\ allocated' = {} /\ run' = "exited"
    /\ UNCHANGED <<next, name, number>>

Next ==
    /\ run = "menu"
    /\ \/ \E n \in Names, x \in Numbers : addPerson(n, x) \/ changePerson(n, x)
       \/ \E n \in Names : delPerson(n) \/ delMissing(n)
       \/ exit_contacts

Spec == Init /\ [][Next]_vars

-------------------------------------------------------------------------------
\* While the menu is shown the list ends, no freed cell is in it and no cell
\* is lost, after any sequence of commands.
ListWellFormed == run = "menu" => WellFormed

\* To its user the list is a book that has one number for a name.
Listed == {name[p] : p \in InList} \ {NoName}
Book == INSTANCE PhoneBook WITH
            book <- [n \in Listed |-> number[findPerson(n)]],
            open <- run = "menu"
RefinesBook == Book!Spec
===============================================================================
