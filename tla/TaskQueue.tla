------------------------------ MODULE TaskQueue ------------------------------
(***************************************************************************)
(* What the task queue of practise/thread_pool.c promises to its callers,  *)
(* without the ring, the locks, the condition variables or the threads.    *)
(*                                                                         *)
(* Tasks are numbered in the order in which threadpool_add_task accepts    *)
(* them.  At most Capacity of them wait at a time, they are handed out in  *)
(* that order, each exactly once, and none is accepted or handed out by a  *)
(* thread that finds the pool closed: what counts is the moment at which   *)
(* add_task (line 156) or a worker (line 107) reads shutdown.              *)
(***************************************************************************)
EXTENDS Naturals, Sequences

CONSTANT Capacity

VARIABLES pending,   \* the accepted tasks no worker has taken, oldest first
          held,      \* the tasks that workers have taken and not finished
          accepted,  \* how many tasks were ever accepted
          closed     \* threadpool_destroy has been called

vars == <<pending, held, accepted, closed>>

Init == pending = <<>> /\ held = {} /\ accepted = 0 /\ closed = FALSE

Accept ==
    /\ ~closed
    /\ Len(pending) < Capacity
    /\ accepted' = accepted + 1
    /\ pending' = Append(pending, accepted + 1)
    /\ UNCHANGED <<held, closed>>

HandOut ==
    /\ ~closed
    /\ pending # <<>>
    /\ held' = held \union {Head(pending)}
    /\ pending' = Tail(pending)
    /\ UNCHANGED <<accepted, closed>>

Finish ==
    /\ \E t \in held : held' = held \ {t}
    /\ UNCHANGED <<pending, accepted, closed>>

Close ==
    /\ closed' = TRUE
    /\ UNCHANGED <<pending, held, accepted>>

Next == Accept \/ HandOut \/ Finish \/ Close

Spec == Init /\ [][Next]_vars
==============================================================================
