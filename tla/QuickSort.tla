------------------------------ MODULE QuickSort ------------------------------
(***************************************************************************)
(* sort of learn_c/quick_sort.c, one comparison at a time.  The pivot is   *)
(* arr[middle], which is read again for each comparison although the       *)
(* exchanges move it: the two inner loops have no other test that keeps    *)
(* them in the array, and a part need not be partitioned when its loop is  *)
(* left, so that some arrays stay unsorted (2, 3, 1, 1, say).              *)
(***************************************************************************)
EXTENDS Integers, Sequences

CONSTANTS
    Length,      \* the length of the arrays that are tried
    Values       \* what their elements may be

QuickSortAssumption == Length \in Nat \ {0} /\ Values \subseteq Int

VARIABLES
    given, arr,     \* the array as main has it, and as it is now
    calls,          \* the arguments of the calls to come, the next one first
    i, j, pc        \* the call that runs is Head(calls)

vars == <<given, arr, calls, i, j, pc>>

\* The array that main sorts.
MainArray ==
    LET a == <<15, 23, 38, 75, 42, 96, 13, 17, 93, 85, 45, 65, 69, 41>>
    IN [k \in 0 .. Len(a)-1 |-> a[k+1]]

left   == Head(calls)[1]
right  == Head(calls)[2]
middle == (left + right) \div 2

TypeOK ==
    /\ DOMAIN arr = DOMAIN given
    /\ \A k \in 1 .. Len(calls) : calls[k] \in (DOMAIN arr) \X (DOMAIN arr)
    /\ i \in Int /\ j \in Int
    /\ pc \in {"call", "up", "down", "exchange", "ended"}

Init ==
    /\ given \in [0 .. Length-1 -> Values] \union {MainArray}
    /\ arr = given
    /\ calls = << <<0, IF given = MainArray THEN 13 ELSE Length-1>> >>
    /\ i = 0 /\ j = 0 /\ pc = "call"

-------------------------------------------------------------------------------
Call ==
    /\ pc = "call"
    /\ IF calls = <<>> THEN pc' = "ended" /\ UNCHANGED <<i, j>>
                       ELSE pc' = "up" /\ i' = left /\ j' = right
    /\ UNCHANGED <<given, arr, calls>>

UpWhile(moves) ==
    /\ pc = "up"
    /\ IF moves THEN i' = i + 1 /\ pc' = pc ELSE i' = i /\ pc' = "down"
    /\ UNCHANGED <<given, arr, calls, j>>

UpOverEqual == UpWhile(arr[i] <= arr[middle])   \* mutant: <= for <

Up == UpWhile(arr[i] < arr[middle])

Down ==
    /\ pc = "down"
    /\ IF arr[j] > arr[middle] THEN j' = j - 1 /\ pc' = pc ELSE j' = j /\ pc' = "exchange"
    /\ UNCHANGED <<given, arr, calls, i>>

exchange_value(a, b) == arr' = [arr EXCEPT ![a] = arr[b], ![b] = arr[a]]

\* The end of the loop's body; the loop is left when i > j, and the call ends
\* with up to two more.
Exchange ==
    /\ pc = "exchange"
    /\ IF i <= j THEN exchange_value(i, j) /\ i' = i + 1 /\ j' = j - 1
                 ELSE UNCHANGED <<arr, i, j>>
    /\ IF i' <= j' THEN pc' = "up" /\ UNCHANGED calls
                   ELSE /\ pc' = "call"
                        /\ calls' = (IF left < j' THEN << <<left, j'>> >> ELSE <<>>)
                                 \o (IF i' < right THEN << <<i', right>> >> ELSE <<>>)
                                 \o Tail(calls)
    /\ UNCHANGED given

-------------------------------------------------------------------------------
Next == Call \/ Up \/ Down \/ Exchange

Spec == Init /\ [][Next]_vars
FairSpec == Spec /\ WF_vars(Next)

-------------------------------------------------------------------------------
\* Neither inner loop leaves the part of the array that it was called for,
\* although the element that should stop it is moved.
InBounds ==
    /\ pc = "up" => i \in left .. right
    /\ pc = "down" => j \in left .. right

\* Liveness, of FairSpec: the recursion ends, for every array, and what main
\* then prints is in order.
MainSorted == given = MainArray => \A k, m \in DOMAIN arr : k < m => arr[k] <= arr[m]
Ends       == <>(pc = "ended" /\ MainSorted)
===============================================================================
