------------------------------ MODULE ThreadSem ------------------------------
(***************************************************************************)
(* The program thread/thread_sem.c: a producer posts to a semaphore and a  *)
(* consumer waits on it, until main clears running, which is read without  *)
(* a lock, and joins them.  Nobody posts once the producer has seen that   *)
(* running was cleared.                                                    *)
(***************************************************************************)
EXTENDS Integers

CONSTANTS
    First,     \* what sem_init gives to the semaphore
    MaxSem     \* bound: the semaphore's value

ThreadSemAssumption == First \in Nat /\ MaxSem \in Nat /\ First <= MaxSem

Threads == {"producter", "conmuser"}

VARIABLES running, main, pc, sem

vars == <<running, main, pc, sem>>

TypeOK ==
    /\ running \in BOOLEAN
    /\ main \in {"sleep", "join", "joined", "returned"}
    /\ pc \in [Threads -> {"test", "use", "ended"}]
    /\ sem \in 0 .. MaxSem

Init ==
    /\ running = TRUE /\ main = "sleep"
    /\ pc = [t \in Threads |-> "test"] /\ sem = First

Go(t, where) == pc' = [pc EXCEPT ![t] = where]

Test(t) ==
    /\ pc[t] = "test"
    /\ t = "producter" /\ running => sem < MaxSem
    /\ Go(t, IF running THEN "use" ELSE "ended")
    /\ UNCHANGED <<running, main, sem>>

Post ==
    /\ pc["producter"] = "use"
    /\ sem' = sem + 1
    /\ Go("producter", "test")
    /\ UNCHANGED <<running, main>>

Wait ==
    /\ pc["conmuser"] = "use" /\ sem > 0
    /\ sem' = sem - 1
    /\ Go("conmuser", "test")
    /\ UNCHANGED <<running, main>>

Stop ==
    /\ main = "sleep"
    /\ running' = FALSE /\ main' = "join"
    /\ UNCHANGED <<pc, sem>>

JoinProducter ==
    /\ main = "join" /\ pc["producter"] = "ended" /\ main' = "joined"
    /\ UNCHANGED <<running, pc, sem>>

JoinConmuser ==
    /\ main = "joined" /\ pc["conmuser"] = "ended" /\ main' = "returned"
    /\ UNCHANGED <<running, pc, sem>>

Main     == Stop \/ JoinProducter \/ JoinConmuser
Producer == Test("producter") \/ Post
Consumer == Test("conmuser") \/ Wait

Next == Main \/ Producer \/ Consumer

Spec == Init /\ [][Next]_vars

\* All threads are scheduled; at the bound the producer sleeps until the
\* consumer has waited or running is cleared.
FairSpec == Spec /\ WF_vars(Main) /\ WF_vars(Producer) /\ WF_vars(Consumer)

\* The consumer waits for a post that cannot come any more.
Hangs == pc["conmuser"] = "use" /\ sem = 0 /\ pc["producter"] = "ended"

\* Liveness, of FairSpec: main returns, unless it joins a consumer that had
\* emptied the semaphore when the producer ended.
Ends == <>(main = "returned" \/ Hangs)
===============================================================================
