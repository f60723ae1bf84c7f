------------------------------ MODULE ThreadLock ------------------------------
(***************************************************************************)
(* The program thread/thread_lock.c: one thread adds to a counter, another *)
(* takes from it, each under a mutex, until the main thread clears         *)
(* running, which is read without the mutex, and joins them.               *)
(*                                                                         *)
(* buffer_has_item++ and -- are a load and a store.                        *)
(***************************************************************************)
EXTENDS Integers, FiniteSets

CONSTANT MaxRounds    \* bound: the rounds of each thread

Threads == {"producter", "consumer"}

VARIABLES
    running,
    main,              \* where main is: "usleep", "join", "joined", "returned"
    pc,                \* where each thread is
    holder,            \* the threads that hold the mutex
    buffer_has_item,
    loaded,            \* the value that each thread has loaded
    rounds             \* history: the rounds that each thread has finished

control == <<running, main>>
counter == <<buffer_has_item, loaded, rounds>>
vars    == <<control, pc, holder, counter>>

Counts == -MaxRounds .. MaxRounds

TypeOK ==
    /\ running \in BOOLEAN
    /\ main \in {"usleep", "join", "joined", "returned"}
    /\ pc \in [Threads -> {"test", "lock", "load", "store", "unlock", "ended"}]
    /\ holder \subseteq Threads
    /\ buffer_has_item \in Counts /\ loaded \in [Threads -> Counts]
    /\ rounds \in [Threads -> 0 .. MaxRounds]

\* Both threads have been created.
Init ==
    /\ running = TRUE /\ main = "usleep"
    /\ pc = [t \in Threads |-> "test"]
    /\ holder = {}
    /\ buffer_has_item = 0 /\ loaded = [t \in Threads |-> 0]
    /\ rounds = [t \in Threads |-> 0]

-------------------------------------------------------------------------------
(* The loops of producter_f and consumer_f *)

Go(t, where) == pc' = [pc EXCEPT ![t] = where]

Test(t) ==
    /\ pc[t] = "test"
    /\ running => rounds[t] < MaxRounds
    /\ Go(t, IF running THEN "lock" ELSE "ended")
    /\ UNCHANGED <<control, holder, counter>>

LockWhen(t, free) ==
    /\ pc[t] = "lock" /\ free
    /\ holder' = holder \union {t}
    /\ Go(t, "load")
    /\ UNCHANGED <<control, counter>>

LockHeld(t) == LockWhen(t, TRUE) \* mutant: pthread_mutex_lock does not wait
Lock(t)     == LockWhen(t, holder = {})

Load(t) ==
    /\ pc[t] = "load"
    /\ loaded' = [loaded EXCEPT ![t] = buffer_has_item]
    /\ Go(t, "store")
    /\ UNCHANGED <<control, holder, buffer_has_item, rounds>>

Store(t) ==
    /\ pc[t] = "store"
    /\ buffer_has_item' = loaded[t] + IF t = "producter" THEN 1 ELSE -1
    /\ rounds' = [rounds EXCEPT ![t] = @ + 1]
    /\ Go(t, "unlock")
    /\ UNCHANGED <<control, holder, loaded>>

UnlockTo(t, left) ==
    /\ pc[t] = "unlock"
    /\ holder' = left
    /\ Go(t, "test")
    /\ UNCHANGED <<control, counter>>

KeepLock(t) == UnlockTo(t, holder) \* mutant: pthread_mutex_unlock is missing
Unlock(t)   == UnlockTo(t, holder \ {t})

-------------------------------------------------------------------------------
(* main *)

Stop ==
    /\ main = "usleep"
    /\ running' = FALSE /\ main' = "join"
    /\ UNCHANGED <<pc, holder, counter>>

JoinConsumer ==
    /\ main = "join" /\ pc["consumer"] = "ended"
    /\ main' = "joined"
    /\ UNCHANGED <<running, pc, holder, counter>>

JoinProducter ==
    /\ main = "joined" /\ pc["producter"] = "ended"
    /\ main' = "returned"
    /\ UNCHANGED <<running, pc, holder, counter>>

-------------------------------------------------------------------------------
Main      == Stop \/ JoinConsumer \/ JoinProducter
Thread(t) == Test(t) \/ Lock(t) \/ Load(t) \/ Store(t) \/ Unlock(t)

Next == Main \/ \E t \in Threads : Thread(t)

Spec == Init /\ [][Next]_vars

\* All threads are scheduled.
Fairness == WF_vars(Main) /\ \A t \in Threads : WF_vars(Thread(t))
FairSpec == Spec /\ Fairness

-------------------------------------------------------------------------------
\* No step of either thread is lost: whenever neither is between its load and
\* its unlock the counter is what was made less what was taken.
NoneLost == (\A t \in Threads : pc[t] \in {"test", "lock", "ended"}) =>
    buffer_has_item = rounds["producter"] - rounds["consumer"]

\* Liveness, of FairSpec: both threads see that running was cleared, whatever
\* they were doing, and main returns.
Returns == <>(main = "returned")
===============================================================================
