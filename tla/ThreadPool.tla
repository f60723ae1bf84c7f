------------------------------ MODULE ThreadPool ------------------------------
(***************************************************************************)
(* The pthread pool of practise/thread_pool.c: the main thread that        *)
(* creates and destroys it, its worker threads, its admin thread, and the  *)
(* threads that call threadpool_add_task.                                  *)
(*                                                                         *)
(* pool->lock is held across two steps in one place only: a worker that    *)
(* has found the queue empty holds it until pthread_cond_wait releases it  *)
(* (worker state "prewait").  Every other critical section is one action:  *)
(* all it reads and writes is touched under the lock only, except the flag *)
(* shutdown, which threadpool_destroy writes without the lock.  A section  *)
(* reads shutdown (lines 86, 107, 152 and 156) and what it does next does  *)
(* not touch it, so the action stands where the read that decides it does: *)
(* a task may be queued or dequeued, as the processor orders the writes,   *)
(* after shutdown was set, if it was not set yet when it was read.  The    *)
(* window of the worker matters because destroy sets shutdown and          *)
(* broadcasts, and the admin signals, without the lock.                    *)
(***************************************************************************)
EXTENDS Integers, FiniteSets

CONSTANTS
    MinThr, MaxThr, QueueMax,      \* the arguments of threadpool_create
    DefaultThreadNum,              \* DEFAULT_THREAD_NUM of thread_pool.h
    MinWaitTaskNum,                \* MIN_WAIT_TASK_NUM of thread_pool.h
    Producers,                     \* the threads that add tasks
    MaxTasks,                      \* bound: how many tasks are ever submitted
    TasksMayExit,                  \* may a task call pthread_exit?
    MaxFailures                    \* bound: how many workers are not created

ASSUME PoolAssumption ==
    /\ MinThr \in Nat \ {0} /\ MaxThr \in Nat /\ MinThr <= MaxThr
    /\ QueueMax \in Nat \ {0}
    /\ DefaultThreadNum \in Nat \ {0}
    /\ MinWaitTaskNum \in Nat
    /\ MaxTasks \in Nat
    /\ TasksMayExit \in BOOLEAN
    /\ MaxFailures \in Nat

Workers == 0 .. MaxThr-1      \* the indexes of pool->threads
Slots   == 0 .. QueueMax-1    \* the indexes of pool->task_queue
Null    == 0                  \* no argument; the argument of task n is n
Wild    == -1                 \* what malloc left in a slot, not a pointer

VARIABLES
    task_queue,               \* the argument each slot of the ring holds
    queue_front, queue_rear, queue_size,
    added,                    \* history: how many tasks were ever queued
    live_thr_num, busy_thr_num, wait_exit_thr_num,
    lost,                     \* history: threads that a task has terminated
    failed,                   \* history: workers that pthread_create has not created
    worker,                   \* where each worker thread is
    task,                     \* the local variable task of each worker
    producer,                 \* where each producer is in threadpool_add_task
    adminPc, sample, signals, \* the admin thread and its local variables
    mainPc, mainI,            \* the creating and destroying thread, its i
    shutdown

ring      == <<task_queue, queue_front, queue_rear, queue_size, added>>
history   == <<lost, failed>>
counts    == <<live_thr_num, busy_thr_num, wait_exit_thr_num, history>>
threads   == <<worker, task>>
adminVars == <<adminPc, sample, signals>>
mainVars  == <<mainPc, mainI, shutdown>>
vars      == <<ring, counts, threads, producer, adminVars, mainVars>>

Ended == {"none", "exited"}   \* the states of a slot that holds no live thread

WorkerState == Ended \union
    {"top",      \* before pthread_mutex_lock at the head of the loop
     "prewait",  \* holds the lock, has tested the queue, not yet waiting
     "waiting",  \* inside pthread_cond_wait(queue_not_empty)
     "woken",    \* woken, about to take the lock again
     "taken",    \* has dequeued a task, not yet counted busy
     "running"}  \* counted busy, runs the task

Sample == [queue : Int, live : Int, busy : Int]
NoSample == [queue |-> 0, live |-> 0, busy |-> 0]

TypeOK ==
    /\ task_queue \in [Slots -> Int]
    /\ queue_front \in Slots /\ queue_rear \in Slots /\ queue_size \in Nat
    /\ added \in Nat
    /\ live_thr_num \in Int /\ busy_thr_num \in Int
    /\ wait_exit_thr_num \in 0 .. DefaultThreadNum
    /\ lost \in Nat /\ failed \in Nat
    /\ worker \in [Workers -> WorkerState]
    /\ task \in [Workers -> Int]
    /\ producer \in [Producers -> {"idle", "calling", "waiting", "woken"}]
    /\ adminPc \in {"none", "test", "sleep", "count", "grow", "shrink", "signal", "exited"}
    /\ sample \in Sample
    /\ signals \in 0 .. DefaultThreadNum
    /\ mainPc \in {"create", "up", "joinAdmin", "broadcast", "join", "freed", "crashed"}
    /\ mainI \in Nat
    /\ shutdown \in BOOLEAN

-------------------------------------------------------------------------------
(* Derived state. *)

Allocated == mainPc \notin {"freed", "crashed"}
LockAvailable == Allocated /\ \A w \in Workers : worker[w] # "prewait"

In(states) == {w \in Workers : worker[w] \in states}
Waiting == In({"waiting"})
Live    == In(WorkerState \ Ended)
Held    == {task[w] : w \in In({"taken", "running"})}
Queued  == {task_queue[(queue_front + k) % QueueMax] : k \in 0 .. queue_size-1}
InCall  == {p \in Producers : producer[p] # "idle"}

-------------------------------------------------------------------------------
(* threadpool_create.  live_thr_num is set before any thread is started.   *)
(* The array pool->task_queue is not cleared: add_task will read from it,  *)
(* and hand to free(), whatever malloc left there.                         *)

Init ==
    /\ task_queue \in [Slots -> {Null, Wild}]
    /\ queue_front = 0 /\ queue_rear = 0 /\ queue_size = 0 /\ added = 0
    /\ live_thr_num = MinThr /\ busy_thr_num = 0 /\ wait_exit_thr_num = 0
    /\ lost = 0 /\ failed = 0
    /\ worker = [w \in Workers |-> "none"]
    /\ task = [w \in Workers |-> Null]
    /\ producer = [p \in Producers |-> "idle"]
    /\ adminPc = "none" /\ sample = NoSample /\ signals = 0
    /\ mainPc = "create" /\ mainI = 0 /\ shutdown = FALSE

\* pthread_create for the slots of F, in threadpool_create and in the admin
\* thread.  Neither looks at what it returns.  When it fails, in the slots of
\* X, no thread runs and what it leaves in the slot is unspecified: the slot
\* keeps its value, or (in Y) gets one that names no thread.
StartThreads(F) ==
    \E X \in SUBSET F : \E Y \in SUBSET X :
        /\ failed + Cardinality(X) <= MaxFailures
        /\ failed' = failed + Cardinality(X)
        /\ worker' = [w \in Workers |-> IF w \in F \ X THEN "top"
                                       ELSE IF w \in Y THEN "exited" ELSE worker[w]]

SpawnWorker ==
    /\ mainPc = "create" /\ mainI < MinThr
    /\ StartThreads({mainI})
    /\ mainI' = mainI + 1
    /\ UNCHANGED <<ring, live_thr_num, busy_thr_num, wait_exit_thr_num, lost, task,
                   producer, adminVars, mainPc, shutdown>>

\* The same call for the admin thread: no admin runs when it fails.
SpawnAdmin ==
    /\ mainPc = "create" /\ mainI = MinThr
    /\ adminPc' = "test" \/ (MaxFailures > 0 /\ UNCHANGED adminPc)
    /\ mainPc' = "up" /\ mainI' = 0
    /\ UNCHANGED <<ring, counts, threads, producer, sample, signals, shutdown>>

-------------------------------------------------------------------------------
(* threadpool_thread *)

\* What pthread_cond_signal(queue_not_empty) does: any one waiter, if any.
SignalNotEmpty ==
    \/ \E w \in Waiting : worker' = [worker EXCEPT ![w] = "woken"]
    \/ Waiting = {} /\ UNCHANGED worker

\* The wait loop's test, with the lock just acquired, and what follows it.
FindEmpty(w) ==
    /\ queue_size = 0 /\ ~shutdown
    /\ worker' = [worker EXCEPT ![w] = "prewait"]
    /\ UNCHANGED <<ring, task, producer>>

LeaveShutDown(w) ==
    /\ shutdown
    /\ worker' = [worker EXCEPT ![w] = "exited"]
    /\ UNCHANGED <<ring, task, producer>>

TakeAfterAdvance(w) == \* mutant: the slot is read after queue_front has moved
    /\ queue_size # 0 /\ ~shutdown
    /\ queue_front' = (queue_front + 1) % QueueMax
    /\ task' = [task EXCEPT ![w] = task_queue[queue_front']]
    /\ queue_size' = queue_size - 1
    /\ producer' = [p \in Producers |->
                      IF producer[p] = "waiting" THEN "woken" ELSE producer[p]]
    /\ worker' = [worker EXCEPT ![w] = "taken"]
    /\ UNCHANGED <<task_queue, queue_rear, added>>

TakeSilently(w) == \* mutant: queue_not_full is not broadcast
    /\ queue_size # 0 /\ ~shutdown
    /\ task' = [task EXCEPT ![w] = task_queue[queue_front]]
    /\ queue_front' = (queue_front + 1) % QueueMax
    /\ queue_size' = queue_size - 1
    /\ worker' = [worker EXCEPT ![w] = "taken"]
    /\ UNCHANGED <<task_queue, queue_rear, added, producer>>

TakeTask(w) ==
    /\ queue_size # 0 /\ ~shutdown
    /\ task' = [task EXCEPT ![w] = task_queue[queue_front]]
    /\ queue_front' = (queue_front + 1) % QueueMax
    /\ queue_size' = queue_size - 1
    /\ producer' = [p \in Producers |->
                      IF producer[p] = "waiting" THEN "woken" ELSE producer[p]]
    /\ worker' = [worker EXCEPT ![w] = "taken"]
    /\ UNCHANGED <<task_queue, queue_rear, added>>

Proceed(w) == FindEmpty(w) \/ LeaveShutDown(w) \/ TakeTask(w)

WorkerLock(w) ==
    /\ worker[w] = "top" /\ LockAvailable
    /\ Proceed(w)
    /\ UNCHANGED <<counts, adminVars, mainVars>>

WorkerWait(w) ==
    /\ worker[w] = "prewait" /\ Allocated
    /\ worker' = [worker EXCEPT ![w] = "waiting"]
    /\ UNCHANGED <<ring, counts, task, producer, adminVars, mainVars>>

SuicideBelowMinimum(w) == \* mutant: the test against min_thr_num is missing
    /\ wait_exit_thr_num > 0
    /\ live_thr_num' = live_thr_num - 1
    /\ worker' = [worker EXCEPT ![w] = "exited"]
    /\ UNCHANGED <<ring, task, producer>>

SuicideUncounted(w) == \* mutant: live_thr_num-- is missing
    /\ wait_exit_thr_num > 0 /\ live_thr_num > MinThr
    /\ worker' = [worker EXCEPT ![w] = "exited"]
    /\ UNCHANGED <<ring, task, producer, live_thr_num>>

Suicide(w) ==
    /\ wait_exit_thr_num > 0 /\ live_thr_num > MinThr
    /\ live_thr_num' = live_thr_num - 1
    /\ worker' = [worker EXCEPT ![w] = "exited"]
    /\ UNCHANGED <<ring, task, producer>>

ConsumeAlways == wait_exit_thr_num' = wait_exit_thr_num - 1 \* mutant: no test > 0

ConsumeRequest ==
    wait_exit_thr_num' = IF wait_exit_thr_num > 0 THEN wait_exit_thr_num - 1 ELSE 0

\* Back from pthread_cond_wait with the lock: consume a pending request to
\* shrink, and exit if the pool is above its minimum; else test again.
WorkerWake(w) ==
    /\ worker[w] = "woken" /\ LockAvailable
    /\ ConsumeRequest
    /\ \/ Suicide(w)
       \/ /\ ~(wait_exit_thr_num > 0 /\ live_thr_num > MinThr)
          /\ Proceed(w) /\ UNCHANGED live_thr_num
    /\ UNCHANGED <<busy_thr_num, history, adminVars, mainVars>>

WorkerStart(w) ==
    /\ worker[w] = "taken" /\ Allocated
    /\ busy_thr_num' = busy_thr_num + 1
    /\ worker' = [worker EXCEPT ![w] = "running"]
    /\ UNCHANGED <<ring, live_thr_num, wait_exit_thr_num, history, task, producer,
                   adminVars, mainVars>>

WorkerEndUncounted(w) == \* mutant: busy_thr_num-- is missing
    /\ worker[w] = "running" /\ Allocated
    /\ worker' = [worker EXCEPT ![w] = "top"]
    /\ task' = [task EXCEPT ![w] = Null]
    /\ UNCHANGED <<ring, counts, producer, adminVars, mainVars>>

WorkerEnd(w) ==
    /\ worker[w] = "running" /\ Allocated
    /\ busy_thr_num' = busy_thr_num - 1
    /\ worker' = [worker EXCEPT ![w] = "top"]
    /\ task' = [task EXCEPT ![w] = Null]
    /\ UNCHANGED <<ring, live_thr_num, wait_exit_thr_num, history, producer,
                   adminVars, mainVars>>

\* The task itself calls pthread_exit: neither counter is corrected.
TaskExits(w) ==
    /\ TasksMayExit
    /\ worker[w] = "running" /\ Allocated
    /\ worker' = [worker EXCEPT ![w] = "exited"]
    /\ task' = [task EXCEPT ![w] = Null]
    /\ lost' = lost + 1
    /\ UNCHANGED <<ring, live_thr_num, busy_thr_num, wait_exit_thr_num, failed, producer,
                   adminVars, mainVars>>

\* POSIX lets pthread_cond_wait return without a signal.
SpuriousWake(w) ==
    /\ worker[w] = "waiting" /\ Allocated
    /\ worker' = [worker EXCEPT ![w] = "woken"]
    /\ UNCHANGED <<ring, counts, task, producer, adminVars, mainVars>>

-------------------------------------------------------------------------------
(* threadpool_add_task *)

CallAddTask(p) ==
    /\ producer[p] = "idle" /\ mainPc = "up"
    /\ added + Cardinality(InCall) < MaxTasks
    /\ producer' = [producer EXCEPT ![p] = "calling"]
    /\ UNCHANGED <<ring, counts, threads, adminVars, mainVars>>

WaitNotFull(p) ==
    /\ queue_size = QueueMax /\ ~shutdown
    /\ producer' = [producer EXCEPT ![p] = "waiting"]
    /\ UNCHANGED <<ring, worker>>

Refused(p) ==
    /\ shutdown
    /\ producer' = [producer EXCEPT ![p] = "idle"]
    /\ UNCHANGED <<ring, worker>>

\* The slot is filled; the argument it held before is freed: FreedArgNotQueued.
Fill(p) ==
    /\ task_queue' = [task_queue EXCEPT ![queue_rear] = added + 1]
    /\ queue_rear' = (queue_rear + 1) % QueueMax
    /\ queue_size' = queue_size + 1
    /\ added' = added + 1
    /\ producer' = [producer EXCEPT ![p] = "idle"]
    /\ UNCHANGED queue_front

EnqueueUntested(p) == \* mutant: if instead of while around pthread_cond_wait
    /\ queue_size # QueueMax \/ producer[p] = "woken"
    /\ ~shutdown
    /\ Fill(p) /\ SignalNotEmpty

EnqueueOneMore(p) == \* mutant: the full test is off by one
    /\ queue_size <= QueueMax /\ ~shutdown
    /\ Fill(p) /\ SignalNotEmpty

EnqueueSilently(p) == \* mutant: queue_not_empty is not signalled
    /\ queue_size # QueueMax /\ ~shutdown
    /\ Fill(p) /\ UNCHANGED worker

EnqueueSignalFirst(p) == \* mutant: signals only when the queue was empty
    /\ queue_size # QueueMax /\ ~shutdown
    /\ Fill(p)
    /\ IF queue_size = 0 THEN SignalNotEmpty ELSE UNCHANGED worker

Enqueue(p) ==
    /\ queue_size # QueueMax /\ ~shutdown
    /\ Fill(p) /\ SignalNotEmpty

AddTask(p) ==
    /\ producer[p] \in {"calling", "woken"} /\ LockAvailable
    /\ WaitNotFull(p) \/ Refused(p) \/ Enqueue(p)
    /\ UNCHANGED <<counts, task, adminVars, mainVars>>

\* The same for a wait on queue_not_full.
SpuriousNotFull(p) ==
    /\ producer[p] = "waiting" /\ Allocated
    /\ producer' = [producer EXCEPT ![p] = "woken"]
    /\ UNCHANGED <<ring, counts, threads, adminVars, mainVars>>

-------------------------------------------------------------------------------
(* admin_thread *)

AdminTestOnce == \* mutant: shutdown is kept in a register across the loop
    /\ adminPc = "test"
    /\ adminPc' = "sleep"
    /\ UNCHANGED <<ring, counts, threads, producer, sample, signals, mainVars>>

AdminTest ==
    /\ adminPc = "test"
    /\ adminPc' = IF shutdown THEN "exited" ELSE "sleep"
    /\ UNCHANGED <<ring, counts, threads, producer, sample, signals, mainVars>>

AdminSample ==
    /\ adminPc = "sleep" /\ LockAvailable
    /\ sample' = [queue |-> queue_size, live |-> live_thr_num, busy |-> 0]
    /\ adminPc' = "count"
    /\ UNCHANGED <<ring, counts, threads, producer, signals, mainVars>>

AdminCountBusy ==
    /\ adminPc = "count"
    /\ sample' = [sample EXCEPT !.busy = busy_thr_num]
    /\ adminPc' = "grow"
    /\ UNCHANGED <<ring, counts, threads, producer, signals, mainVars>>

WantsMore == sample.queue >= MinWaitTaskNum /\ sample.live <= MaxThr
WantsFewer == sample.busy * 2 < sample.live /\ sample.live > MinThr

\* How many threads the loop may start: its bounds on add and live_thr_num.
Room == IF live_thr_num >= MaxThr THEN 0
        ELSE IF MaxThr - live_thr_num < DefaultThreadNum
             THEN MaxThr - live_thr_num ELSE DefaultThreadNum

\* The sets of slots the loop may fill, going up through pool->threads.  A
\* slot never used is always taken; one whose thread has exited only when
\* pthread_kill reports ESRCH, which it may or may not do for a thread that
\* nobody has joined.
Fillings ==
    {F \in SUBSET In(Ended) :
        /\ Cardinality(F) <= Room
        /\ Cardinality(F) < Room => In({"none"}) \subseteq F
        /\ \A i \in F, j \in In({"none"}) : j < i => j \in F}

AdminGrow ==
    /\ adminPc = "grow"
    /\ adminPc' = "shrink"
    /\ \/ /\ WantsMore /\ LockAvailable
          /\ \E F \in Fillings :
               /\ StartThreads(F)
               /\ live_thr_num' = live_thr_num + Cardinality(F)
       \/ ~WantsMore /\ UNCHANGED <<worker, live_thr_num, failed>>
    /\ UNCHANGED <<ring, busy_thr_num, wait_exit_thr_num, lost, task, producer,
                   sample, signals, mainVars>>

AdminShrink ==
    /\ adminPc = "shrink"
    /\ sample' = NoSample
    /\ \/ /\ WantsFewer /\ LockAvailable
          /\ wait_exit_thr_num' = DefaultThreadNum
          /\ signals' = DefaultThreadNum
          /\ adminPc' = "signal"
       \/ /\ ~WantsFewer
          /\ adminPc' = "test"
          /\ UNCHANGED <<wait_exit_thr_num, signals>>
    /\ UNCHANGED <<ring, live_thr_num, busy_thr_num, history, threads, producer, mainVars>>

\* One of the signals, sent without the lock.
AdminSignal ==
    /\ adminPc = "signal"
    /\ SignalNotEmpty
    /\ signals' = signals - 1
    /\ adminPc' = IF signals = 1 THEN "test" ELSE "signal"
    /\ UNCHANGED <<ring, counts, task, producer, sample, mainVars>>

-------------------------------------------------------------------------------
(* threadpool_destroy and threadpool_free *)

Destroy ==
    /\ mainPc = "up"
    /\ shutdown' = TRUE
    /\ mainPc' = "joinAdmin"
    /\ UNCHANGED <<ring, counts, threads, producer, adminVars, mainI>>

\* Without an admin thread admin_tid is what malloc left there: pthread_join
\* comes back with an error, crashes, or waits for ever.
JoinAdmin ==
    /\ mainPc = "joinAdmin"
    /\ \/ adminPc = "exited" /\ mainPc' = "broadcast"
       \/ adminPc = "none" /\ mainPc' \in {"broadcast", "crashed"}
    /\ UNCHANGED <<ring, counts, threads, producer, adminVars, mainI, shutdown>>

BroadcastNotEmpty ==
    worker' = [w \in Workers |-> IF worker[w] = "waiting" THEN "woken" ELSE worker[w]]

\* live_thr_num is read again, without the lock, at every test of both loops.
DestroyBroadcast ==
    /\ mainPc = "broadcast"
    /\ \/ /\ mainI < live_thr_num
          /\ BroadcastNotEmpty
          /\ mainI' = mainI + 1 /\ UNCHANGED mainPc
       \/ /\ mainI >= live_thr_num
          /\ mainPc' = "join" /\ mainI' = 0 /\ UNCHANGED worker
    /\ UNCHANGED <<ring, counts, task, producer, adminVars, shutdown>>

\* A slot that is still 0 is not a thread: pthread_join(0) is a crash.
JoinWorker ==
    /\ mainPc = "join" /\ mainI < live_thr_num
    /\ \/ worker[mainI] = "exited" /\ mainI' = mainI + 1 /\ UNCHANGED mainPc
       \/ worker[mainI] = "none" /\ mainPc' = "crashed" /\ UNCHANGED mainI
    /\ UNCHANGED <<ring, counts, threads, producer, adminVars, shutdown>>

FreeOneEarly == \* mutant: the last slot is not joined
    /\ mainPc = "join" /\ mainI >= live_thr_num - 1
    /\ LockAvailable
    /\ mainPc' = "freed"
    /\ UNCHANGED <<ring, counts, threads, producer, adminVars, mainI, shutdown>>

\* threadpool_free takes the lock once more before it destroys it.
Free ==
    /\ mainPc = "join" /\ mainI >= live_thr_num
    /\ LockAvailable
    /\ mainPc' = "freed"
    /\ UNCHANGED <<ring, counts, threads, producer, adminVars, mainI, shutdown>>

-------------------------------------------------------------------------------
Worker(w) ==
    \/ WorkerLock(w) \/ WorkerWait(w) \/ WorkerWake(w)
    \/ WorkerStart(w) \/ WorkerEnd(w) \/ TaskExits(w) \/ SpuriousWake(w)

Producer(p) == CallAddTask(p) \/ AddTask(p) \/ SpuriousNotFull(p)

Admin ==
    \/ AdminTest \/ AdminSample \/ AdminCountBusy
    \/ AdminGrow \/ AdminShrink \/ AdminSignal

Finalize == JoinAdmin \/ DestroyBroadcast \/ JoinWorker \/ Free
Main == SpawnWorker \/ SpawnAdmin \/ Destroy \/ Finalize

Next ==
    \/ \E w \in Workers : Worker(w)
    \/ \E p \in Producers : Producer(p)
    \/ Admin
    \/ Main

Spec == Init /\ [][Next]_vars

\* Every thread that can run does; the mutex starves nobody; tasks end.
\* Nothing forces a caller to add a task, to destroy the pool or a wait to
\* return without a signal.
Fairness ==
    /\ \A w \in Workers :
         /\ SF_vars(WorkerLock(w)) /\ SF_vars(WorkerWake(w))
         /\ WF_vars(WorkerWait(w)) /\ WF_vars(WorkerStart(w)) /\ WF_vars(WorkerEnd(w))
    /\ \A p \in Producers : SF_vars(AddTask(p))
    /\ SF_vars(Admin)
    /\ WF_vars(SpawnWorker) /\ WF_vars(SpawnAdmin) /\ SF_vars(Finalize)

FairSpec == Spec /\ Fairness

-------------------------------------------------------------------------------
(* Safety *)

\* live_thr_num never leaves min_thr_num .. max_thr_num, although growing and
\* shrinking are decided on samples that are stale when they are acted on.
PoolSize == live_thr_num \in MinThr .. MaxThr

\* Until the pool is shut down, live_thr_num is exactly the number of live
\* threads, of those still to be created, of those that a task has terminated
\* and of those that pthread_create did not create: the last two are counted
\* for ever, and nothing else makes the counter and the threads differ.
Unspawned == IF mainPc = "create" THEN MinThr - mainI ELSE 0
LiveExact == ~shutdown => live_thr_num = Cardinality(Live) + Unspawned + lost + failed

\* busy_thr_num counts the threads that run a task and the ones that a task
\* has terminated, whatever the worker and admin threads do meanwhile.
BusyExact == busy_thr_num = Cardinality(In({"running"})) + lost

\* The ring never overflows and its indexes agree with its size, although
\* producers and workers move them from different threads.
RingConsistent ==
    /\ queue_size \in 0 .. QueueMax
    /\ queue_rear = (queue_front + queue_size) % QueueMax

\* A producer sleeps in pthread_cond_wait(queue_not_full) only while the ring is
\* full, also when other producers fill it again before it has woken up.  So
\* only a full ring can strand a producer at shutdown: destroy wakes none.
BlockedOnlyWhenFull ==
    \A p \in Producers : producer[p] = "waiting" => queue_size = QueueMax

\* add_task frees the argument it finds in the slot it fills (lines 163-167).
\* That argument is never one that a queued task is still to be given, and it
\* is what malloc left there at most in the first round through the ring.
FreedArgNotQueued ==
    [][task_queue' # task_queue =>
          /\ task_queue[queue_rear] \notin Queued
          /\ added >= QueueMax => task_queue[queue_rear] # Wild]_vars

\* The pool hands tasks out as the bounded FIFO queue of TaskQueue: in order,
\* each to one worker, and none for which shutdown was read after it was set.
Pending == [k \in 1 .. queue_size |-> task_queue[(queue_front + k-1) % QueueMax]]
TQ == INSTANCE TaskQueue WITH
        Capacity <- QueueMax, pending <- Pending, held <- Held,
        accepted <- added, closed <- shutdown
RefinesTaskQueue == TQ!Spec

\* In a pool of fixed size no task waits for a signal that will not come: if
\* some worker sleeps in pthread_cond_wait, at least as many workers as there
\* are queued tasks are on their way to the queue.
TasksCovered ==
    Waiting # {} /\ ~shutdown => queue_size <= Cardinality(In({"top", "woken"}))

\* threadpool_free runs only when every worker has ended (comment at line 303).
\* True of a pool of fixed size: the slots destroy joins are then all threads.
AllWorkersJoined == mainPc = "freed" => Live = {}

-------------------------------------------------------------------------------
(* Liveness, of FairSpec *)

\* A queued task is taken by a worker, unless the pool is shut down.
Served ==
    \A t \in 1 .. MaxTasks : t \in Queued ~> t \notin Queued \/ shutdown

\* A producer blocked on the full queue gets on, unless the pool is shut down.
ProducerProgress ==
    \A p \in Producers : producer[p] = "waiting" ~> producer[p] # "waiting" \/ shutdown

\* The admin thread ends after shutdown, in whichever part of its loop shutdown
\* finds it (or there is none, as its pthread_create failed): destroy joins it.
AdminTerminates == shutdown ~> adminPc \in {"none", "exited"}

\* threadpool_destroy returns (comment at line 297: all threads are told to go).
DestroyCompletes == shutdown ~> mainPc = "freed"
===============================================================================
