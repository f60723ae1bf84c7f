--------------------------- MODULE ThreadPoolProofs ---------------------------
(***************************************************************************)
(* Theorems about ThreadPool, for every size of the pool, of the queue and *)
(* of the set of producers.                                                *)
(***************************************************************************)
EXTENDS ThreadPool, FiniteSetTheorems, SequenceTheorems, TLAPS

-------------------------------------------------------------------------------
(* Lemmas about the operators of the model *)

\* The remainder by a positive number is below it: the ring's indexes stay in
\* the array (lines 118 and 172 of thread_pool.c).
LEMMA ModRange == \A a \in Nat, b \in Nat \ {0} : a % b \in 0 .. b-1
  BY SMT

\* Where an index ends up after at most one turn around the ring.
LEMMA ModSum ==
  ASSUME NEW b \in Nat \ {0}, NEW a \in 0 .. b-1, NEW c \in 0 .. b
  PROVE  (a + c) % b = IF a + c < b THEN a + c ELSE a + c - b
  BY SMT

\* The next slot of the ring.
LEMMA ModNext ==
  ASSUME NEW b \in Nat \ {0}, NEW a \in 0 .. b-1
  PROVE  (a + 1) % b = IF a + 1 < b THEN a + 1 ELSE 0
  BY SMT

\* The slots of pool->threads are finitely many.
LEMMA WorkersFinite == IsFiniteSet(Workers)
  BY PoolAssumption, FS_Interval DEF Workers

\* How many workers a function maps into S.
Count(f, S) == Cardinality({x \in Workers : f[x] \in S})

\* It does not change while the same workers are mapped into S.
LEMMA CountSame ==
  ASSUME NEW f, NEW g, NEW S, \A x \in Workers : g[x] \in S <=> f[x] \in S
  PROVE  Count(g, S) = Count(f, S)
<1>1. {x \in Workers : g[x] \in S} = {x \in Workers : f[x] \in S}
  OBVIOUS
<1> QED
  BY <1>1 DEF Count

\* It does not shrink while no worker leaves S.
LEMMA CountMono ==
  ASSUME NEW f, NEW g, NEW S, \A x \in Workers : f[x] \in S => g[x] \in S
  PROVE  Count(f, S) \in Nat /\ Count(g, S) \in Nat /\ Count(f, S) <= Count(g, S)
<1> DEFINE A == {x \in Workers : f[x] \in S}
           B == {x \in Workers : g[x] \in S}
<1>1. A \in SUBSET B /\ IsFiniteSet(A) /\ IsFiniteSet(B)
  BY WorkersFinite, FS_Subset
<1>2. Cardinality(A) <= Cardinality(B)
  BY <1>1, FS_Subset
<1>3. Cardinality(A) \in Nat /\ Cardinality(B) \in Nat
  BY <1>1, FS_CardinalityType
<1> QED
  BY <1>2, <1>3 DEF Count

\* How that number changes when the function changes at one worker.
LEMMA CountMove ==
  ASSUME NEW f, NEW g, NEW w \in Workers, NEW S,
         \A x \in Workers \ {w} : g[x] = f[x]
  PROVE  /\ Count(f, S) \in Nat /\ Count(g, S) \in Nat
         /\ f[w] \notin S /\ g[w] \in S => Count(g, S) = Count(f, S) + 1
         /\ f[w] \in S /\ g[w] \notin S => Count(g, S) = Count(f, S) - 1
<1> DEFINE A == {x \in Workers : f[x] \in S}
           B == {x \in Workers : g[x] \in S}
<1> USE DEF Count
<1>1. IsFiniteSet(A) /\ IsFiniteSet(B)
  BY WorkersFinite, FS_Subset
<1>2. Cardinality(A) \in Nat /\ Cardinality(B) \in Nat
  BY <1>1, FS_CardinalityType
<1>4. CASE f[w] \notin S /\ g[w] \in S
  <2>1. B = A \union {w} /\ w \notin A
    BY <1>4
  <2> QED
    BY <2>1, <1>1, <1>2, <1>4, FS_AddElement
<1>5. CASE f[w] \in S /\ g[w] \notin S
  <2>1. B = A \ {w} /\ w \in A
    BY <1>5
  <2> QED
    BY <2>1, <1>1, <1>2, <1>5, FS_RemoveElement
<1> QED
  BY <1>2, <1>4, <1>5

\* What growing may add to the pool: some slots without a live thread, no more
\* than keep live_thr_num within max_thr_num.
LEMMA FillingSize ==
  ASSUME TypeOK, NEW F \in Fillings, live_thr_num <= MaxThr
  PROVE  /\ F \subseteq Workers /\ IsFiniteSet(F)
         /\ \A w \in F : worker[w] \in Ended
         /\ Cardinality(F) \in Nat
         /\ live_thr_num + Cardinality(F) <= MaxThr
<1>1. F \subseteq Workers /\ \A w \in F : worker[w] \in Ended
  BY DEF Fillings, In
<1>2. IsFiniteSet(F) /\ Cardinality(F) \in Nat
  BY <1>1, WorkersFinite, FS_Subset, FS_CardinalityType
<1>3. Cardinality(F) <= Room
  BY DEF Fillings
<1>4. live_thr_num + Room <= MaxThr
  BY PoolAssumption DEF Room, TypeOK
<1>5. Room \in Int
  BY PoolAssumption DEF Room, TypeOK
<1> QED
  BY <1>1, <1>2, <1>3, <1>4, <1>5, PoolAssumption DEF TypeOK

\* Starting threads keeps the types, whichever calls fail.
LEMMA StartType ==
  ASSUME TypeOK, NEW F \in SUBSET Workers, StartThreads(F)
  PROVE  worker' \in [Workers -> WorkerState] /\ failed' \in Nat
<1>1. PICK X \in SUBSET F : \E Y \in SUBSET X :
        /\ failed' = failed + Cardinality(X)
        /\ worker' = [w \in Workers |-> IF w \in F \ X THEN "top"
                                       ELSE IF w \in Y THEN "exited" ELSE worker[w]]
  BY DEF StartThreads
<1>2. Cardinality(X) \in Nat
  BY WorkersFinite, FS_Subset, FS_CardinalityType
<1> QED
  BY <1>1, <1>2 DEF TypeOK, WorkerState, Ended

\* A slot keeps its worker, or had none and may have a new one.
Starts(x) ==
    worker'[x] = worker[x]
      \/ (worker[x] \in Ended /\ worker'[x] \in Ended \union {"top"})

\* What starting threads may do to the workers: each slot of F gets a thread
\* or still has none, and failed counts the latter.
LEMMA StartMoves ==
  ASSUME TypeOK, NEW F \in SUBSET Workers, \A w \in F : worker[w] \in Ended, StartThreads(F)
  PROVE  /\ \A x \in Workers : Starts(x)
         /\ Cardinality(Live)' + failed' = Cardinality(Live) + Cardinality(F) + failed
         /\ IsFiniteSet(Live) /\ Cardinality(Live) \in Nat /\ Cardinality(Live)' \in Nat
<1>0. IsFiniteSet(F) /\ Cardinality(F) \in Nat
  BY WorkersFinite, FS_Subset, FS_CardinalityType
<1>1. PICK X \in SUBSET F : \E Y \in SUBSET X :
        /\ failed' = failed + Cardinality(X)
        /\ worker' = [w \in Workers |-> IF w \in F \ X THEN "top"
                                       ELSE IF w \in Y THEN "exited" ELSE worker[w]]
  BY DEF StartThreads
<1>2. PICK Y \in SUBSET X :
        /\ failed' = failed + Cardinality(X)
        /\ worker' = [w \in Workers |-> IF w \in F \ X THEN "top"
                                       ELSE IF w \in Y THEN "exited" ELSE worker[w]]
  BY <1>1
<1>3. IsFiniteSet(X) /\ Cardinality(X) \in Nat /\ IsFiniteSet(F \ X)
  BY <1>0, FS_Subset, FS_CardinalityType
<1>4. Cardinality(F \ X) = Cardinality(F) - Cardinality(X)
  <2>1. Cardinality(F \ X) = Cardinality(F) - Cardinality(F \intersect X)
    BY <1>0, FS_Difference
  <2>2. F \intersect X = X
    OBVIOUS
  <2> QED
    BY <2>1, <2>2
<1>5. Live' = Live \union (F \ X) /\ Live \intersect (F \ X) = {}
  BY <1>2 DEF Live, In, WorkerState, Ended
<1>6. IsFiniteSet(Live) /\ Cardinality(Live) \in Nat
  BY WorkersFinite, FS_Subset, FS_CardinalityType DEF Live, In
<1>7. Cardinality(Live)' = Cardinality(Live) + Cardinality(F \ X)
  <2>1. Cardinality(Live \union (F \ X))
          = Cardinality(Live) + Cardinality(F \ X) - Cardinality(Live \intersect (F \ X))
    BY <1>3, <1>6, FS_Union
  <2>2. Cardinality(Live \intersect (F \ X)) = 0 /\ Cardinality(F \ X) \in Nat
    BY <1>3, <1>5, FS_EmptySet, FS_CardinalityType
  <2>3. Cardinality(Live)' = Cardinality(Live \union (F \ X))
    BY <1>5
  <2> QED
    BY <1>6, <2>1, <2>2, <2>3
<1>8. Cardinality(Live)' + failed' = Cardinality(Live) + Cardinality(F) + failed
      /\ Cardinality(Live)' \in Nat
  <2>1. failed' = failed + Cardinality(X) /\ failed \in Nat
    BY <1>2 DEF TypeOK
  <2>2. Cardinality(F \ X) \in Nat
    BY <1>3, FS_CardinalityType
  <2> QED
    BY <1>0, <1>3, <1>4, <1>6, <1>7, <2>1, <2>2
<1>10. \A x \in Workers : Starts(x)
  BY <1>2 DEF Starts, Ended, TypeOK
<1> QED
  BY <1>6, <1>8, <1>10

\* The two places that start threads: slots without a live thread only.
LEMMA GrowMoves ==
  ASSUME TypeOK, AdminGrow
  PROVE  /\ UNCHANGED <<ring, busy_thr_num, wait_exit_thr_num, lost, task, producer, mainVars>>
         /\ worker' \in [Workers -> WorkerState] /\ failed' \in Nat
         /\ \A x \in Workers : Starts(x)
<1>1. UNCHANGED <<ring, busy_thr_num, wait_exit_thr_num, lost, task, producer, mainVars>>
  BY DEF AdminGrow
<1>2. CASE UNCHANGED <<worker, failed>>
  BY <1>1, <1>2 DEF TypeOK, Starts
<1>3. ASSUME NEW F \in Fillings, StartThreads(F)
      PROVE  /\ worker' \in [Workers -> WorkerState] /\ failed' \in Nat
             /\ \A x \in Workers : Starts(x)
  <2>1. F \in SUBSET Workers /\ \A w \in F : worker[w] \in Ended
    BY DEF Fillings, In
  <2> QED
    BY <1>3, <2>1, StartMoves, StartType
<1> QED
  BY <1>1, <1>2, <1>3 DEF AdminGrow

LEMMA SpawnMoves ==
  ASSUME TypeOK, SpawnWorker, worker[mainI] = "none"
  PROVE  /\ mainI \in Workers /\ Cardinality({mainI}) = 1
         /\ UNCHANGED <<ring, live_thr_num, busy_thr_num, wait_exit_thr_num, lost, task,
                        producer, adminVars, mainPc, shutdown>>
         /\ worker' \in [Workers -> WorkerState] /\ failed' \in Nat
         /\ \A x \in Workers : Starts(x)
         /\ Cardinality(Live)' + failed' = Cardinality(Live) + 1 + failed
         /\ Cardinality(Live) \in Nat /\ Cardinality(Live)' \in Nat
<1>1. mainI \in Workers
  BY PoolAssumption DEF SpawnWorker, Workers, TypeOK
<1>2. Cardinality({mainI}) = 1
  BY FS_Singleton
<1>3. StartThreads({mainI}) /\ {mainI} \in SUBSET Workers /\ \A w \in {mainI} : worker[w] \in Ended
  BY <1>1 DEF SpawnWorker, Ended
<1> QED
  BY <1>1, <1>2, <1>3, StartMoves, StartType DEF SpawnWorker

-------------------------------------------------------------------------------
(* Type correctness *)

\* The admin thread has a signal left to send whenever it is about to send one.
SignalsLeft == adminPc = "signal" => signals > 0

\* A step of a worker keeps the types.
LEMMA WorkerType ==
  ASSUME TypeOK, SignalsLeft, NEW w \in Workers, Worker(w)
  PROVE  TypeOK' /\ SignalsLeft'
<1> USE PoolAssumption DEF TypeOK, SignalsLeft, WorkerState, Ended
<1>p. ASSUME Proceed(w)
      PROVE  /\ worker' \in [Workers -> WorkerState] /\ task' \in [Workers -> Int]
             /\ producer' \in [Producers -> {"idle", "calling", "waiting", "woken"}]
             /\ queue_front' \in Slots /\ queue_size' \in Nat
             /\ UNCHANGED <<task_queue, queue_rear, added>>
  <2>1. CASE FindEmpty(w)
    BY <2>1 DEF FindEmpty, ring
  <2>2. CASE LeaveShutDown(w)
    BY <2>2 DEF LeaveShutDown, ring
  <2>3. CASE TakeTask(w)
    <3>1. (queue_front + 1) % QueueMax \in Slots
      BY ModRange DEF Slots
    <3> QED
      BY <2>3, <3>1 DEF TakeTask
  <2> QED
    BY <1>p, <2>1, <2>2, <2>3 DEF Proceed
<1>1. CASE WorkerLock(w)
  BY <1>1, <1>p DEF WorkerLock, counts, history, adminVars, mainVars
<1>2. CASE WorkerWait(w)
  BY <1>2 DEF WorkerWait, ring, counts, history, adminVars, mainVars
<1>3. CASE WorkerWake(w)
  <2>1. wait_exit_thr_num' \in 0 .. DefaultThreadNum
    BY <1>3 DEF WorkerWake, ConsumeRequest
  <2>2. CASE Suicide(w)
    BY <1>3, <2>1, <2>2 DEF WorkerWake, Suicide, ring, history, adminVars, mainVars
  <2>3. CASE Proceed(w) /\ UNCHANGED live_thr_num
    BY <1>3, <2>1, <2>3, <1>p DEF WorkerWake, history, adminVars, mainVars
  <2> QED
    BY <1>3, <2>2, <2>3 DEF WorkerWake
<1>4. CASE WorkerStart(w)
  BY <1>4 DEF WorkerStart, ring, history, adminVars, mainVars
<1>5. CASE WorkerEnd(w)
  BY <1>5 DEF WorkerEnd, ring, history, adminVars, mainVars, Null
<1>6. CASE TaskExits(w)
  BY <1>6 DEF TaskExits, ring, adminVars, mainVars, Null
<1>7. CASE SpuriousWake(w)
  BY <1>7 DEF SpuriousWake, ring, counts, history, adminVars, mainVars
<1> QED
  BY <1>1, <1>2, <1>3, <1>4, <1>5, <1>6, <1>7 DEF Worker

\* A signal changes at most one worker, from waiting to woken.
LEMMA SignalType ==
  ASSUME TypeOK, SignalNotEmpty
  PROVE  worker' \in [Workers -> WorkerState]
  BY DEF SignalNotEmpty, TypeOK, WorkerState, Waiting, In

\* A step of a producer keeps the types.
LEMMA ProducerType ==
  ASSUME TypeOK, SignalsLeft, NEW p \in Producers, Producer(p)
  PROVE  TypeOK' /\ SignalsLeft'
<1> USE PoolAssumption DEF TypeOK, SignalsLeft
<1>1. CASE CallAddTask(p) \/ SpuriousNotFull(p)
  BY <1>1 DEF CallAddTask, SpuriousNotFull, ring, counts, history, threads, adminVars, mainVars
<1>2. CASE AddTask(p)
  <2>1. CASE WaitNotFull(p)
    BY <1>2, <2>1 DEF AddTask, WaitNotFull, ring, counts, history, adminVars, mainVars
  <2>2. CASE Refused(p)
    BY <1>2, <2>2 DEF AddTask, Refused, ring, counts, history, adminVars, mainVars
  <2>3. CASE Enqueue(p)
    <3>1. (queue_rear + 1) % QueueMax \in Slots
      BY ModRange DEF Slots
    <3>2. worker' \in [Workers -> WorkerState]
      BY <2>3, SignalType DEF Enqueue
    <3> QED
      BY <1>2, <2>3, <3>1, <3>2 DEF AddTask, Enqueue, Fill, counts, history, adminVars, mainVars
  <2> QED
    BY <1>2, <2>1, <2>2, <2>3 DEF AddTask
<1> QED
  BY <1>1, <1>2 DEF Producer

\* A step of the admin thread keeps the types.
LEMMA AdminType ==
  ASSUME TypeOK, SignalsLeft, PoolSize, Admin
  PROVE  TypeOK' /\ SignalsLeft'
<1> USE PoolAssumption DEF TypeOK, SignalsLeft
<1>1. CASE AdminTest
  BY <1>1 DEF AdminTest, ring, counts, history, threads, mainVars
<1>2. CASE AdminSample
  BY <1>2 DEF AdminSample, ring, counts, history, threads, mainVars, Sample
<1>3. CASE AdminCountBusy
  BY <1>3 DEF AdminCountBusy, ring, counts, history, threads, mainVars, Sample
<1>4. CASE AdminGrow
  <2>1. live_thr_num' \in Int
    <3>1. \A F \in Fillings : Cardinality(F) \in Nat
      BY FillingSize DEF PoolSize
    <3> QED
      BY <1>4, <3>1 DEF AdminGrow
  <2>2. worker' \in [Workers -> WorkerState] /\ failed' \in Nat
    BY <1>4, GrowMoves
  <2> QED
    BY <1>4, <2>1, <2>2 DEF AdminGrow, ring, mainVars
<1>5. CASE AdminShrink
  BY <1>5 DEF AdminShrink, ring, history, threads, mainVars, NoSample, Sample
<1>6. CASE AdminSignal
  <2>1. worker' \in [Workers -> WorkerState]
    BY <1>6, SignalType DEF AdminSignal
  <2> QED
    BY <1>6, <2>1 DEF AdminSignal, ring, counts, history, mainVars
<1> QED
  BY <1>1, <1>2, <1>3, <1>4, <1>5, <1>6 DEF Admin

\* A step of the main thread keeps the types.
LEMMA MainType ==
  ASSUME TypeOK, SignalsLeft, Main
  PROVE  TypeOK' /\ SignalsLeft'
<1> USE PoolAssumption DEF TypeOK, SignalsLeft, WorkerState, Ended
<1>1. CASE SpawnWorker
  <2>1. {mainI} \in SUBSET Workers /\ StartThreads({mainI})
    BY <1>1 DEF SpawnWorker, Workers
  <2>2. worker' \in [Workers -> WorkerState] /\ failed' \in Nat
    BY <2>1, StartType
  <2> QED
    BY <1>1, <2>2 DEF SpawnWorker, ring, adminVars
<1>2. CASE SpawnAdmin
  BY <1>2 DEF SpawnAdmin, ring, counts, history, threads
<1>3. CASE Destroy
  BY <1>3 DEF Destroy, ring, counts, history, threads, adminVars
<1>4. CASE JoinAdmin
  BY <1>4 DEF JoinAdmin, ring, counts, history, threads, adminVars
<1>5. CASE DestroyBroadcast
  BY <1>5 DEF DestroyBroadcast, BroadcastNotEmpty, ring, counts, history, adminVars
<1>6. CASE JoinWorker
  BY <1>6 DEF JoinWorker, ring, counts, history, threads, adminVars
<1>7. CASE Free
  BY <1>7 DEF Free, ring, counts, history, threads, adminVars
<1> QED
  BY <1>1, <1>2, <1>3, <1>4, <1>5, <1>6, <1>7 DEF Main, Finalize

\* The initial state is of the right type.
LEMMA InitType == Init => TypeOK /\ SignalsLeft /\ PoolSize
<1> SUFFICES ASSUME Init PROVE TypeOK /\ SignalsLeft /\ PoolSize
  OBVIOUS
<1>1. /\ task_queue \in [Slots -> Int]
      /\ queue_front \in Slots /\ queue_rear \in Slots
  BY PoolAssumption DEF Init, Slots, Null, Wild
<1>2. /\ worker \in [Workers -> WorkerState]
      /\ task \in [Workers -> Int]
      /\ producer \in [Producers -> {"idle", "calling", "waiting", "woken"}]
  BY DEF Init, WorkerState, Ended, Null
<1>3. sample \in Sample
  BY DEF Init, NoSample, Sample
<1>4. live_thr_num \in MinThr .. MaxThr /\ wait_exit_thr_num \in 0 .. DefaultThreadNum
      /\ signals \in 0 .. DefaultThreadNum /\ live_thr_num \in Int
  BY PoolAssumption DEF Init
<1>5. /\ queue_size \in Nat /\ added \in Nat /\ busy_thr_num \in Int /\ lost \in Nat /\ failed \in Nat
      /\ mainI \in Nat
  BY DEF Init
<1>6. shutdown \in BOOLEAN /\ adminPc = "none" /\ mainPc = "create"
  BY Zenon DEF Init
<1> QED
  BY <1>1, <1>2, <1>3, <1>4, <1>5, <1>6 DEF TypeOK, SignalsLeft, PoolSize

\* live_thr_num changes in two places only (lines 99 and 217): a suicide takes
\* one from a pool above its minimum, growing stops at the maximum.
LEMMA PoolSizeStep ==
  ASSUME TypeOK, PoolSize, [Next]_vars
  PROVE  PoolSize'
<1> USE PoolAssumption DEF TypeOK, PoolSize
<1>1. ASSUME NEW w \in Workers, Worker(w)
      PROVE  PoolSize'
  <2>1. CASE UNCHANGED live_thr_num
    BY <2>1
  <2>2. CASE Suicide(w)
    BY <2>2 DEF Suicide
  <2> QED
    BY <1>1, <2>1, <2>2 DEF Worker, WorkerLock, WorkerWait, WorkerWake, WorkerStart,
       WorkerEnd, TaskExits, SpuriousWake, counts, history
<1>2. ASSUME Admin
      PROVE  PoolSize'
  <2>1. CASE AdminGrow
    <3>1. CASE UNCHANGED live_thr_num
      BY <3>1
    <3>2. ASSUME NEW F \in Fillings, live_thr_num' = live_thr_num + Cardinality(F)
          PROVE  PoolSize'
      BY <3>2, FillingSize
    <3> QED
      BY <2>1, <3>1, <3>2 DEF AdminGrow
  <2>2. CASE ~AdminGrow
    BY <1>2, <2>2 DEF Admin, AdminTest, AdminSample, AdminCountBusy, AdminShrink,
       AdminSignal, counts, history
  <2> QED
    BY <2>1, <2>2
<1>3. CASE UNCHANGED live_thr_num
  BY <1>3
<1> QED
  BY <1>1, <1>2, <1>3 DEF Next, Producer, CallAddTask, SpuriousNotFull, AddTask, Main, SpawnWorker,
     SpawnAdmin, Destroy, Finalize, JoinAdmin, DestroyBroadcast, JoinWorker, Free,
     vars, counts, history

\* The types and the bounds on the pool's size hold together: the number of
\* threads to start is typed only because live_thr_num is within its bounds.
THEOREM TypeAndSize == Spec => [](TypeOK /\ SignalsLeft /\ PoolSize)
<1>1. Init => TypeOK /\ SignalsLeft /\ PoolSize
  BY InitType
<1>2. TypeOK /\ SignalsLeft /\ PoolSize /\ [Next]_vars => (TypeOK /\ SignalsLeft /\ PoolSize)'
  <2> SUFFICES ASSUME TypeOK, SignalsLeft, PoolSize, [Next]_vars
               PROVE  (TypeOK /\ SignalsLeft /\ PoolSize)'
    OBVIOUS
  <2>1. PoolSize'
    BY PoolSizeStep
  <2>2. TypeOK' /\ SignalsLeft'
    <3>1. CASE UNCHANGED vars
      BY <3>1 DEF TypeOK, SignalsLeft, vars, ring, counts, history, threads, adminVars, mainVars
    <3> QED
      BY <3>1, WorkerType, ProducerType, AdminType, MainType DEF Next
  <2> QED
    BY <2>1, <2>2
<1> QED
  BY <1>1, <1>2, PTL DEF Spec

\* Every variable keeps its type, for pools and queues of every size.
THEOREM TypeCorrect == Spec => []TypeOK
  BY TypeAndSize, PTL

\* live_thr_num never leaves min_thr_num .. max_thr_num.
THEOREM PoolSizeCorrect == Spec => []PoolSize
  BY TypeAndSize, PTL

-------------------------------------------------------------------------------
(* The ring *)

\* Only taking a task and queueing one touch the ring.
LEMMA RingStep ==
  ASSUME [Next]_vars
  PROVE  \/ UNCHANGED ring
         \/ \E w \in Workers : TakeTask(w) /\ UNCHANGED shutdown
         \/ \E p \in Producers : Enqueue(p) /\ UNCHANGED <<task, shutdown>>
<1>1. ASSUME NEW w \in Workers, Worker(w)
      PROVE  UNCHANGED ring \/ (TakeTask(w) /\ UNCHANGED shutdown)
  BY <1>1 DEF Worker, WorkerLock, WorkerWait, WorkerWake, WorkerStart, WorkerEnd,
     TaskExits, SpuriousWake, Proceed, FindEmpty, LeaveShutDown, Suicide, mainVars
<1>2. ASSUME NEW p \in Producers, Producer(p)
      PROVE  UNCHANGED ring \/ (Enqueue(p) /\ UNCHANGED <<task, shutdown>>)
  BY <1>2 DEF Producer, CallAddTask, SpuriousNotFull, AddTask, WaitNotFull, Refused, mainVars
<1>3. ASSUME Admin PROVE UNCHANGED ring
  BY <1>3 DEF Admin, AdminTest, AdminSample, AdminCountBusy, AdminGrow, AdminShrink,
     AdminSignal
<1>4. ASSUME Main PROVE UNCHANGED ring
  BY <1>4 DEF Main, SpawnWorker, SpawnAdmin, Destroy, Finalize, JoinAdmin,
     DestroyBroadcast, JoinWorker, Free
<1>5. CASE UNCHANGED vars
  BY <1>5 DEF vars
<1> QED
  BY <1>1, <1>2, <1>3, <1>4, <1>5 DEF Next

\* The ring never overflows and its indexes agree with its size.
THEOREM RingCorrect == Spec => []RingConsistent
<1> USE PoolAssumption
<1>1. Init => RingConsistent
  BY ModSum DEF Init, RingConsistent
<1>2. TypeOK /\ RingConsistent /\ [Next]_vars => RingConsistent'
  <2> SUFFICES ASSUME TypeOK, RingConsistent, [Next]_vars
               PROVE  RingConsistent'
    OBVIOUS
  <2>0. /\ queue_front \in 0 .. QueueMax-1 /\ queue_rear \in 0 .. QueueMax-1
        /\ queue_size \in 0 .. QueueMax
    BY DEF TypeOK, RingConsistent, Slots
  <2>e. queue_rear = IF queue_front + queue_size < QueueMax THEN queue_front + queue_size
                     ELSE queue_front + queue_size - QueueMax
    BY <2>0, ModSum DEF RingConsistent
  <2>1. CASE UNCHANGED ring
    BY <2>1 DEF ring, RingConsistent
  <2>2. ASSUME NEW w \in Workers, TakeTask(w)
        PROVE  RingConsistent'
    <3>1. queue_size' \in 0 .. QueueMax /\ queue_size' = queue_size - 1 /\ queue_rear' = queue_rear
      BY <2>0, <2>2 DEF TakeTask
    <3>2. queue_front' = IF queue_front + 1 < QueueMax THEN queue_front + 1 ELSE 0
      BY <2>0, <2>2, ModNext DEF TakeTask
    <3>3. queue_front' \in 0 .. QueueMax-1
      BY <2>0, <3>2
    <3>4. (queue_front' + queue_size') % QueueMax
            = IF queue_front' + queue_size' < QueueMax THEN queue_front' + queue_size'
              ELSE queue_front' + queue_size' - QueueMax
      BY <3>1, <3>3, ModSum
    <3>5. queue_rear' = (queue_front' + queue_size') % QueueMax
      BY <2>0, <2>e, <3>1, <3>2, <3>4
    <3> QED
      BY <3>1, <3>5 DEF RingConsistent
  <2>3. ASSUME NEW p \in Producers, Enqueue(p)
        PROVE  RingConsistent'
    <3>1. queue_size' \in 0 .. QueueMax /\ queue_size' = queue_size + 1
          /\ queue_front' = queue_front
      BY <2>0, <2>3 DEF Enqueue, Fill
    <3>2. queue_rear' = IF queue_rear + 1 < QueueMax THEN queue_rear + 1 ELSE 0
      BY <2>0, <2>3, ModNext DEF Enqueue, Fill
    <3>3. (queue_front + queue_size') % QueueMax
            = IF queue_front + queue_size' < QueueMax THEN queue_front + queue_size'
              ELSE queue_front + queue_size' - QueueMax
      BY <2>0, <3>1, ModSum
    <3>4. queue_rear' = (queue_front' + queue_size') % QueueMax
      BY <2>0, <2>e, <3>1, <3>2, <3>3
    <3> QED
      BY <3>1, <3>4 DEF RingConsistent
  <2> QED
    BY <2>1, <2>2, <2>3, RingStep
<1> QED
  BY <1>1, <1>2, TypeCorrect, PTL DEF Spec

\* No producer sleeps while there is room in the ring.
THEOREM BlockedCorrect == Spec => []BlockedOnlyWhenFull
<1>1. Init => BlockedOnlyWhenFull
  BY DEF Init, BlockedOnlyWhenFull
<1>2. TypeOK /\ BlockedOnlyWhenFull /\ [Next]_vars => BlockedOnlyWhenFull'
  <2> SUFFICES ASSUME TypeOK, BlockedOnlyWhenFull, [Next]_vars
               PROVE  BlockedOnlyWhenFull'
    OBVIOUS
  <2>1. ASSUME NEW w \in Workers, TakeTask(w)
        PROVE  BlockedOnlyWhenFull'
    BY <2>1 DEF TakeTask, BlockedOnlyWhenFull
  <2>2. ASSUME NEW p \in Producers, Enqueue(p)
        PROVE  BlockedOnlyWhenFull'
    <3>1. \A q \in Producers : producer'[q] = "waiting" => producer[q] = "waiting"
      BY <2>2 DEF Enqueue, Fill, TypeOK
    <3> QED
      BY <2>2, <3>1 DEF Enqueue, BlockedOnlyWhenFull
  <2>3. ASSUME NEW w \in Workers, Worker(w), UNCHANGED ring
        PROVE  BlockedOnlyWhenFull' \/ TakeTask(w)
    <3>1. UNCHANGED producer \/ TakeTask(w)
      BY <2>3 DEF Worker, WorkerLock, WorkerWait, WorkerWake, WorkerStart, WorkerEnd,
         TaskExits, SpuriousWake, Proceed, FindEmpty, LeaveShutDown, Suicide
    <3> QED
      BY <2>3, <3>1 DEF BlockedOnlyWhenFull, ring
  <2>4. ASSUME NEW p \in Producers, Producer(p), UNCHANGED ring
        PROVE  BlockedOnlyWhenFull' \/ Enqueue(p)
    <3>1. CASE WaitNotFull(p)
      BY <2>4, <3>1 DEF WaitNotFull, BlockedOnlyWhenFull, ring
    <3>2. CASE CallAddTask(p) \/ SpuriousNotFull(p) \/ Refused(p)
      <4>1. \A q \in Producers : producer'[q] = "waiting" => producer[q] = "waiting"
        BY <3>2 DEF CallAddTask, SpuriousNotFull, Refused, TypeOK
      <4> QED
        BY <2>4, <4>1 DEF BlockedOnlyWhenFull, ring
    <3> QED
      BY <2>4, <3>1, <3>2 DEF Producer, AddTask
  <2>5. CASE UNCHANGED <<ring, producer>>
    BY <2>5 DEF ring, BlockedOnlyWhenFull
  <2>6. CASE UNCHANGED ring /\ (Admin \/ Main \/ UNCHANGED vars)
    <3>1. UNCHANGED producer
      BY <2>6 DEF Admin, AdminTest, AdminSample, AdminCountBusy, AdminGrow, AdminShrink,
         AdminSignal, Main, SpawnWorker, SpawnAdmin, Destroy, Finalize, JoinAdmin,
         DestroyBroadcast, JoinWorker, Free, vars
    <3> QED
      BY <2>5, <2>6, <3>1
  <2>7. CASE UNCHANGED ring
    BY <2>1, <2>2, <2>3, <2>4, <2>6, <2>7 DEF Next
  <2> QED
    BY <2>1, <2>2, <2>7, RingStep
<1> QED
  BY <1>1, <1>2, TypeCorrect, PTL DEF Spec

-------------------------------------------------------------------------------
(* The counters *)

Active == WorkerState \ Ended

\* The main thread's position: nothing but the first mainI workers exists while
\* the pool is created, and shutdown is set exactly when destroy has begun.
Phase ==
    /\ shutdown = (mainPc \notin {"create", "up"})
    /\ mainPc = "create" =>
         /\ mainI <= MinThr /\ adminPc = "none"
         /\ \A w \in Workers : w >= mainI => worker[w] = "none"

\* A step of a worker moves that worker only, and never starts one.
LEMMA WorkerMoves ==
  ASSUME TypeOK, NEW w \in Workers, Worker(w)
  PROVE  /\ \A x \in Workers \ {w} : worker'[x] = worker[x]
         /\ worker[w] \notin Ended
         /\ UNCHANGED <<adminVars, mainVars>>
  BY DEF Worker, WorkerLock, WorkerWait, WorkerWake, WorkerStart, WorkerEnd, TaskExits,
     SpuriousWake, Proceed, FindEmpty, LeaveShutDown, TakeTask, Suicide, TypeOK, Ended

\* A signal, a broadcast and growing turn no thread into a running one or back.
LEMMA SignalMoves ==
  ASSUME TypeOK, SignalNotEmpty
  PROVE  \A x \in Workers : worker'[x] = worker[x]
                            \/ (worker[x] = "waiting" /\ worker'[x] = "woken")
  BY DEF SignalNotEmpty, Waiting, In, TypeOK

\* Only the workers' own steps, the admin's growing and its signals, queueing a
\* task, creating the pool and the final broadcast move workers.
LEMMA MoveStep ==
  ASSUME [Next]_vars
  PROVE  \/ UNCHANGED <<worker, live_thr_num, busy_thr_num, lost>>
         \/ \E w \in Workers : Worker(w)
         \/ AdminGrow \/ SpawnWorker
         \/ /\ UNCHANGED <<live_thr_num, busy_thr_num, lost, mainVars>>
            /\ SignalNotEmpty
         \/ /\ UNCHANGED <<live_thr_num, busy_thr_num, lost, shutdown>>
            /\ mainPc = "broadcast" /\ BroadcastNotEmpty
<1>1. ASSUME NEW p \in Producers, Producer(p)
      PROVE  \/ UNCHANGED <<worker, live_thr_num, busy_thr_num, lost>>
             \/ /\ UNCHANGED <<live_thr_num, busy_thr_num, lost, mainVars>>
                /\ SignalNotEmpty
  BY <1>1 DEF Producer, CallAddTask, SpuriousNotFull, AddTask, WaitNotFull, Refused, Enqueue, counts, history, threads
<1>2. ASSUME Admin, ~AdminGrow
      PROVE  \/ UNCHANGED <<worker, live_thr_num, busy_thr_num, lost>>
             \/ /\ UNCHANGED <<live_thr_num, busy_thr_num, lost, mainVars>>
                /\ SignalNotEmpty
  BY <1>2 DEF Admin, AdminTest, AdminSample, AdminCountBusy, AdminShrink, AdminSignal,
     counts, history, threads
<1>3. ASSUME Main, ~SpawnWorker
      PROVE  \/ UNCHANGED <<worker, live_thr_num, busy_thr_num, lost>>
             \/ /\ UNCHANGED <<live_thr_num, busy_thr_num, lost, shutdown>>
                /\ mainPc = "broadcast" /\ BroadcastNotEmpty
  BY <1>3 DEF Main, SpawnAdmin, Destroy, Finalize, JoinAdmin, DestroyBroadcast,
     JoinWorker, Free, counts, history, threads
<1>4. CASE UNCHANGED vars
  BY <1>4 DEF vars, counts, history, threads
<1> QED
  BY <1>1, <1>2, <1>3, <1>4 DEF Next

\* The main thread's position is tracked by Phase.
THEOREM PhaseCorrect == Spec => []Phase
<1>1. Init => Phase
  <2> SUFFICES ASSUME Init PROVE Phase
    OBVIOUS
  <2>1. shutdown = FALSE /\ mainPc = "create" /\ adminPc = "none"
    BY Zenon DEF Init
  <2>2. mainI <= MinThr
    BY PoolAssumption DEF Init
  <2>3. \A w \in Workers : worker[w] = "none"
    BY DEF Init
  <2> QED
    BY <2>1, <2>2, <2>3 DEF Phase
<1>2. TypeOK /\ Phase /\ [Next]_vars => Phase'
  <2> SUFFICES ASSUME TypeOK, Phase, [Next]_vars
               PROVE  Phase'
    OBVIOUS
  <2>1. ASSUME NEW w \in Workers, Worker(w)
        PROVE  Phase'
    <3>1. UNCHANGED <<mainPc, mainI, shutdown, adminPc>>
      BY <2>1, WorkerMoves DEF mainVars, adminVars
    <3>2. \A x \in Workers : worker[x] = "none" => worker'[x] = "none"
      BY <2>1, WorkerMoves DEF Ended
    <3> QED
      BY <3>1, <3>2 DEF Phase
  <2>2. ASSUME NEW p \in Producers, Producer(p)
        PROVE  Phase'
    <3>1. UNCHANGED <<mainPc, mainI, shutdown, adminPc>>
      BY <2>2 DEF Producer, CallAddTask, SpuriousNotFull, AddTask, mainVars, adminVars
    <3>2. \A x \in Workers : worker[x] = "none" => worker'[x] = "none"
      <4>1. UNCHANGED worker \/ SignalNotEmpty
        BY <2>2 DEF Producer, CallAddTask, SpuriousNotFull, AddTask, WaitNotFull, Refused, Enqueue, threads
      <4> QED
        BY <4>1, SignalMoves
    <3> QED
      BY <3>1, <3>2 DEF Phase
  <2>3. CASE Admin
    <3>1. UNCHANGED mainVars
      BY <2>3 DEF Admin, AdminTest, AdminSample, AdminCountBusy, AdminGrow, AdminShrink,
         AdminSignal
    <3>2. adminPc # "none"
      BY <2>3 DEF Admin, AdminTest, AdminSample, AdminCountBusy, AdminGrow, AdminShrink,
         AdminSignal
    <3> QED
      BY <3>1, <3>2 DEF Phase, mainVars
  <2>4. CASE SpawnWorker
    <3>1. \A w \in Workers : w # mainI => worker'[w] = worker[w]
      BY <2>4 DEF SpawnWorker, StartThreads
    <3> QED
      BY <2>4, <3>1, PoolAssumption DEF SpawnWorker, Phase, TypeOK, adminVars, Workers
  <2>5. CASE SpawnAdmin
    BY <2>5 DEF SpawnAdmin, Phase
  <2>6. CASE Destroy
    BY <2>6 DEF Destroy, Phase
  <2>7. CASE Finalize
    BY <2>7 DEF Finalize, JoinAdmin, DestroyBroadcast, JoinWorker, Free, Phase
  <2>8. CASE UNCHANGED vars
    BY <2>8 DEF vars, threads, adminVars, mainVars, Phase
  <2> QED
    BY <2>1, <2>2, <2>3, <2>4, <2>5, <2>6, <2>7, <2>8 DEF Next, Main
<1> QED
  BY <1>1, <1>2, TypeCorrect, PTL DEF Spec

\* The slot of the worker that threadpool_create starts is still empty.
LEMMA SpawnFree ==
  ASSUME TypeOK, Phase, SpawnWorker
  PROVE  worker[mainI] = "none"
  BY PoolAssumption DEF SpawnWorker, Phase, Workers, TypeOK

\* busy_thr_num counts the workers that run a task and those a task has ended.
THEOREM BusyCorrect == Spec => []BusyExact
<1> DEFINE R == {"running"}
<1>0. Cardinality(In({"running"})) = Count(worker, R)
  BY DEF In, Count
<1>p. Cardinality(In({"running"}))' = Count(worker', R)
  BY DEF In, Count
<1> HIDE DEF R
<1>1. Init => BusyExact
  <2> SUFFICES ASSUME Init PROVE BusyExact
    OBVIOUS
  <2>1. In({"running"}) = {}
    BY DEF Init, In
  <2> QED
    BY <2>1, FS_EmptySet DEF Init, BusyExact
<1>2. TypeOK /\ Phase /\ BusyExact /\ [Next]_vars => BusyExact'
  <2> SUFFICES ASSUME TypeOK, Phase, BusyExact, [Next]_vars
               PROVE  BusyExact'
    OBVIOUS
  <2>1. ASSUME NEW w \in Workers, Worker(w)
        PROVE  BusyExact'
    <3>0. \A x \in Workers \ {w} : worker'[x] = worker[x]
      BY <2>1, WorkerMoves
    <3>1. /\ Count(worker, R) \in Nat /\ Count(worker', R) \in Nat
          /\ worker[w] \notin R /\ worker'[w] \notin R => Count(worker', R) = Count(worker, R)
          /\ worker[w] \notin R /\ worker'[w] \in R => Count(worker', R) = Count(worker, R) + 1
          /\ worker[w] \in R /\ worker'[w] \notin R => Count(worker', R) = Count(worker, R) - 1
      <4>1. Count(worker, R) \in Nat /\ Count(worker', R) \in Nat
        BY <3>0, CountMove
      <4>2. worker[w] \notin R /\ worker'[w] \notin R => Count(worker', R) = Count(worker, R)
        BY <3>0, CountSame
      <4>3. worker[w] \notin R /\ worker'[w] \in R => Count(worker', R) = Count(worker, R) + 1
        BY <3>0, CountMove
      <4>4. worker[w] \in R /\ worker'[w] \notin R => Count(worker', R) = Count(worker, R) - 1
        BY <3>0, CountMove
      <4> QED
        BY <4>1, <4>2, <4>3, <4>4
    <3>r. /\ worker[w] \in R <=> worker[w] = "running"
          /\ worker'[w] \in R <=> worker'[w] = "running"
      BY DEF R
    <3>2. CASE WorkerLock(w) \/ WorkerWait(w) \/ WorkerWake(w) \/ SpuriousWake(w)
      <4>1. worker[w] # "running" /\ worker'[w] # "running"
        BY <3>2 DEF WorkerLock, WorkerWait, WorkerWake, SpuriousWake, Proceed, FindEmpty,
           LeaveShutDown, TakeTask, Suicide, TypeOK
      <4>2. UNCHANGED <<busy_thr_num, lost>>
        BY <3>2 DEF WorkerLock, WorkerWait, WorkerWake, SpuriousWake, counts, history
      <4> QED
        BY <1>0, <1>p, <3>1, <3>r, <4>1, <4>2 DEF BusyExact
    <3>3. CASE WorkerStart(w)
      BY <1>0, <1>p, <3>1, <3>r, <3>3 DEF WorkerStart, history, BusyExact, TypeOK
    <3>4. CASE WorkerEnd(w)
      BY <1>0, <1>p, <3>1, <3>r, <3>4 DEF WorkerEnd, history, BusyExact, TypeOK
    <3>5. CASE TaskExits(w)
      BY <1>0, <1>p, <3>1, <3>r, <3>5 DEF TaskExits, BusyExact, TypeOK
    <3> QED
      BY <2>1, <3>2, <3>3, <3>4, <3>5 DEF Worker
  <2>2. ASSUME UNCHANGED <<busy_thr_num, lost>>,
               \A x \in Workers : worker'[x] = "running" <=> worker[x] = "running"
        PROVE  BusyExact'
    <3>1. In({"running"})' = In({"running"})
      BY <2>2 DEF In
    <3> QED
      BY <2>2, <3>1 DEF BusyExact
  <2>3. CASE UNCHANGED <<worker, live_thr_num, busy_thr_num, lost>>
    BY <2>2, <2>3
  <2>4. CASE AdminGrow
    BY <2>2, <2>4, GrowMoves DEF Starts, Ended
  <2>5. CASE SpawnWorker
    BY <2>2, <2>5, SpawnMoves, SpawnFree DEF Starts, Ended
  <2>6. CASE SignalNotEmpty /\ UNCHANGED <<busy_thr_num, lost>>
    BY <2>2, <2>6, SignalMoves
  <2>7. CASE BroadcastNotEmpty /\ UNCHANGED <<busy_thr_num, lost>>
    BY <2>2, <2>7 DEF BroadcastNotEmpty
  <2> QED
    BY <2>1, <2>3, <2>4, <2>5, <2>6, <2>7, MoveStep
<1> QED
  BY <1>1, <1>2, TypeCorrect, PhaseCorrect, PTL DEF Spec

\* live_thr_num counts the threads there are, until the pool is shut down.
THEOREM LiveCorrect == Spec => []LiveExact
<1> DEFINE A == WorkerState \ Ended
<1>0. Cardinality(Live) = Count(worker, A)
  BY DEF Live, In, Count
<1>p. Cardinality(Live)' = Count(worker', A)
  BY DEF Live, In, Count
<1>a. \A s : s \in A <=> s \in {"top", "prewait", "waiting", "woken", "taken", "running"}
  BY DEF WorkerState, Ended
<1> HIDE DEF A
<1>1. Init => LiveExact
  <2> SUFFICES ASSUME Init PROVE LiveExact
    OBVIOUS
  <2>1. Live = {}
    BY DEF Init, Live, In, Ended
  <2>2. Unspawned = MinThr
    BY PoolAssumption DEF Init, Unspawned
  <2> QED
    BY <2>1, <2>2, FS_EmptySet, PoolAssumption DEF Init, LiveExact
<1>2. TypeOK /\ Phase /\ PoolSize /\ LiveExact /\ [Next]_vars => LiveExact'
  <2> SUFFICES ASSUME TypeOK, Phase, PoolSize, LiveExact, [Next]_vars, ~shutdown'
               PROVE  (live_thr_num = Cardinality(Live) + Unspawned + lost + failed)'
    BY DEF LiveExact
  <2>0. ASSUME UNCHANGED <<live_thr_num, lost, failed, mainVars>>,
               \A x \in Workers : worker'[x] \in A <=> worker[x] \in A
        PROVE  (live_thr_num = Cardinality(Live) + Unspawned + lost + failed)'
    <3>1. Count(worker', A) = Count(worker, A)
      BY <2>0, CountSame
    <3> QED
      BY <1>0, <1>p, <2>0, <3>1 DEF LiveExact, Unspawned, mainVars
  <2>1. ASSUME NEW w \in Workers, Worker(w)
        PROVE  (live_thr_num = Cardinality(Live) + Unspawned + lost + failed)'
    <3>0. /\ \A x \in Workers \ {w} : worker'[x] = worker[x]
          /\ UNCHANGED <<mainPc, mainI, shutdown>>
      BY <2>1, WorkerMoves DEF mainVars
    <3>1. worker[w] \in A
      BY <1>a, <2>1, WorkerMoves DEF TypeOK, WorkerState, Ended
    <3>2. CASE worker'[w] \in A /\ UNCHANGED <<live_thr_num, lost, failed>>
      BY <2>0, <3>0, <3>1, <3>2 DEF mainVars
    <3>3. worker'[w] \notin A => Count(worker', A) = Count(worker, A) - 1
      BY <3>0, <3>1, CountMove
    <3>4. Count(worker, A) \in Nat
      BY <3>0, CountMove
    <3>5. live_thr_num = Count(worker, A) + Unspawned + lost + failed /\ Unspawned' = Unspawned
      BY <1>0, <3>0 DEF LiveExact, Unspawned
    <3>6. CASE worker'[w] \notin A /\ UNCHANGED <<lost, failed>> /\ live_thr_num' = live_thr_num - 1
      <4>1. Unspawned \in Int
        BY PoolAssumption DEF Unspawned, TypeOK
      <4> QED
        BY <1>p, <3>3, <3>4, <3>5, <3>6, <4>1 DEF TypeOK
    <3>7. CASE worker'[w] \notin A /\ lost' = lost + 1 /\ failed' = failed /\ live_thr_num' = live_thr_num
      <4>1. Unspawned \in Int
        BY PoolAssumption DEF Unspawned, TypeOK
      <4> QED
        BY <1>p, <3>3, <3>4, <3>5, <3>7, <4>1 DEF TypeOK
    <3>8. CASE WorkerLock(w)
      BY <1>a, <3>0, <3>2, <3>8 DEF WorkerLock, Proceed, FindEmpty, LeaveShutDown, TakeTask,
         counts, history, TypeOK
    <3>9. CASE WorkerWait(w) \/ SpuriousWake(w) \/ WorkerStart(w) \/ WorkerEnd(w)
      BY <1>a, <3>2, <3>9 DEF WorkerWait, SpuriousWake, WorkerStart, WorkerEnd, counts, history, TypeOK
    <3>10. CASE WorkerWake(w)
      <4>1. CASE Suicide(w)
        BY <1>a, <3>6, <3>10, <4>1 DEF WorkerWake, history, Suicide, TypeOK
      <4>2. CASE Proceed(w) /\ UNCHANGED live_thr_num
        BY <1>a, <3>0, <3>2, <3>10, <4>2 DEF WorkerWake, history, Proceed, FindEmpty, LeaveShutDown,
           TakeTask, TypeOK
      <4> QED
        BY <3>10, <4>1, <4>2 DEF WorkerWake
    <3>11. CASE TaskExits(w)
      BY <1>a, <3>7, <3>11 DEF TaskExits, TypeOK
    <3> QED
      BY <2>1, <3>8, <3>9, <3>10, <3>11 DEF Worker
  <2>2. ASSUME NEW p \in Producers, Producer(p)
        PROVE  (live_thr_num = Cardinality(Live) + Unspawned + lost + failed)'
    <3>1. UNCHANGED <<live_thr_num, lost, failed, mainVars>> /\ (UNCHANGED worker \/ SignalNotEmpty)
      BY <2>2 DEF Producer, CallAddTask, SpuriousNotFull, AddTask, WaitNotFull, Refused, Enqueue, counts, history, threads
    <3> QED
      BY <1>a, <2>0, <3>1, SignalMoves
  <2>3. CASE Admin /\ ~AdminGrow
    <3>1. UNCHANGED <<live_thr_num, lost, failed, mainVars>> /\ (UNCHANGED worker \/ SignalNotEmpty)
      BY <2>3 DEF Admin, AdminTest, AdminSample, AdminCountBusy, AdminShrink, AdminSignal,
         counts, history, threads
    <3> QED
      BY <1>a, <2>0, <3>1, SignalMoves
  <2>4. CASE AdminGrow
    <3>1. CASE UNCHANGED <<worker, live_thr_num, failed>>
      BY <2>0, <2>4, <3>1 DEF AdminGrow
    <3>2. ASSUME NEW F \in Fillings, StartThreads(F),
                 live_thr_num' = live_thr_num + Cardinality(F)
          PROVE  (live_thr_num = Cardinality(Live) + Unspawned + lost + failed)'
      <4>1. /\ F \in SUBSET Workers /\ Cardinality(F) \in Nat
            /\ \A w \in F : worker[w] \in Ended
        BY FillingSize DEF PoolSize
      <4>2. /\ Cardinality(Live)' + failed' = Cardinality(Live) + Cardinality(F) + failed
            /\ Cardinality(Live) \in Nat /\ Cardinality(Live)' \in Nat /\ failed' \in Nat
        BY <3>2, <4>1, StartMoves, StartType
      <4>3. Unspawned' = Unspawned /\ Unspawned \in Int /\ lost' = lost /\ shutdown' = shutdown
        BY <2>4, PoolAssumption DEF AdminGrow, mainVars, Unspawned, TypeOK
      <4> QED
        BY <3>2, <4>1, <4>2, <4>3 DEF LiveExact, TypeOK
    <3> QED
      BY <2>4, <3>1, <3>2 DEF AdminGrow
  <2>5. CASE SpawnWorker
    <3>1. worker[mainI] = "none"
      BY <2>5, SpawnFree
    <3>2. /\ Cardinality(Live)' + failed' = Cardinality(Live) + 1 + failed
          /\ Cardinality(Live) \in Nat /\ Cardinality(Live)' \in Nat /\ failed' \in Nat
          /\ UNCHANGED <<live_thr_num, lost, shutdown>>
      BY <2>5, <3>1, SpawnMoves
    <3>3. Unspawned' = Unspawned - 1 /\ Unspawned \in Int
      BY <2>5, PoolAssumption DEF SpawnWorker, Unspawned, TypeOK
    <3> QED
      BY <3>2, <3>3 DEF LiveExact, TypeOK
  <2>6. CASE SpawnAdmin
    <3>1. Unspawned' = 0 /\ Unspawned = 0
      BY <2>6, PoolAssumption DEF SpawnAdmin, Unspawned
    <3>2. Live' = Live
      BY <2>6 DEF SpawnAdmin, threads, Live, In
    <3> QED
      BY <2>6, <3>1, <3>2 DEF SpawnAdmin, counts, history, LiveExact
  <2>7. CASE Destroy
    BY <2>7 DEF Destroy
  <2>8. CASE Finalize
    BY <2>8 DEF Finalize, JoinAdmin, DestroyBroadcast, JoinWorker, Free, Phase
  <2>9. CASE UNCHANGED vars
    BY <2>0, <2>9 DEF vars, counts, history, threads
  <2> QED
    BY <2>1, <2>2, <2>3, <2>4, <2>5, <2>6, <2>7, <2>8, <2>9 DEF Next, Main
<1> QED
  BY <1>1, <1>2, TypeCorrect, PhaseCorrect, PoolSizeCorrect, PTL DEF Spec

-------------------------------------------------------------------------------
(* Wake-ups in a pool of fixed size *)

\* The worker between its test of the queue and its wait holds the lock, so the
\* queue is still empty when it waits (lines 86-89).
PrewaitEmpty == \A w \in Workers : worker[w] = "prewait" => queue_size = 0

\* No task is queued behind the back of a worker about to wait.
THEOREM PrewaitCorrect == Spec => []PrewaitEmpty
<1>1. Init => PrewaitEmpty
  BY DEF Init, PrewaitEmpty
<1>2. TypeOK /\ Phase /\ PrewaitEmpty /\ [Next]_vars => PrewaitEmpty'
  <2> SUFFICES ASSUME TypeOK, Phase, PrewaitEmpty, [Next]_vars
               PROVE  PrewaitEmpty'
    OBVIOUS
  <2>0. ASSUME UNCHANGED queue_size,
               \A x \in Workers : worker'[x] = "prewait" => worker[x] = "prewait"
        PROVE  PrewaitEmpty'
    BY <2>0 DEF PrewaitEmpty
  <2>1. ASSUME NEW w \in Workers, Worker(w)
        PROVE  PrewaitEmpty'
    <3>0. \A x \in Workers \ {w} : worker'[x] = worker[x]
      BY <2>1, WorkerMoves
    <3>1. CASE LockAvailable /\ Proceed(w)
      <4>1. CASE FindEmpty(w)
        BY <4>1 DEF FindEmpty, PrewaitEmpty, ring
      <4>2. CASE LeaveShutDown(w) \/ TakeTask(w)
        BY <3>0, <3>1, <4>2 DEF LeaveShutDown, TakeTask, LockAvailable, PrewaitEmpty, TypeOK
      <4> QED
        BY <3>1, <4>1, <4>2 DEF Proceed
    <3>2. CASE UNCHANGED queue_size /\ worker'[w] # "prewait"
      BY <2>0, <3>0, <3>2
    <3>3. CASE WorkerWake(w) /\ Suicide(w)
      BY <3>2, <3>3 DEF Suicide, ring, TypeOK
    <3>4. CASE WorkerWait(w) \/ SpuriousWake(w) \/ WorkerStart(w) \/ WorkerEnd(w) \/ TaskExits(w)
      BY <3>2, <3>4 DEF WorkerWait, SpuriousWake, WorkerStart, WorkerEnd, TaskExits, ring, TypeOK
    <3> QED
      BY <2>1, <3>1, <3>3, <3>4 DEF Worker, WorkerLock, WorkerWake
  <2>2. ASSUME NEW p \in Producers, Producer(p)
        PROVE  PrewaitEmpty'
    <3>1. CASE UNCHANGED <<queue_size, worker>>
      BY <2>0, <3>1
    <3>2. CASE LockAvailable /\ SignalNotEmpty
      BY <3>2, SignalMoves DEF LockAvailable, PrewaitEmpty
    <3> QED
      BY <2>2, <3>1, <3>2 DEF Producer, CallAddTask, SpuriousNotFull, AddTask, WaitNotFull, Refused, Enqueue,
         ring, threads
  <2>3. CASE AdminGrow
    <3>1. \A x \in Workers : worker'[x] = "prewait" => worker[x] = "prewait"
      BY <2>3, GrowMoves DEF Starts, Ended
    <3> QED
      BY <2>0, <2>3, <3>1 DEF AdminGrow, ring
  <2>4. CASE Admin /\ ~AdminGrow
    <3>1. UNCHANGED queue_size /\ (UNCHANGED worker \/ SignalNotEmpty)
      BY <2>4 DEF Admin, AdminTest, AdminSample, AdminCountBusy, AdminShrink, AdminSignal,
         ring, threads
    <3> QED
      BY <2>0, <3>1, SignalMoves
  <2>5. CASE SpawnWorker
    <3>1. \A x \in Workers : worker'[x] = "prewait" => worker[x] = "prewait"
      BY <2>5, SpawnMoves, SpawnFree DEF Starts, Ended
    <3> QED
      BY <2>0, <2>5, <3>1 DEF SpawnWorker, ring
  <2>6. CASE DestroyBroadcast
    <3>1. \A x \in Workers : worker'[x] = "prewait" => worker[x] = "prewait"
      BY <2>6 DEF DestroyBroadcast, BroadcastNotEmpty
    <3> QED
      BY <2>0, <2>6, <3>1 DEF DestroyBroadcast, ring
  <2>7. CASE UNCHANGED <<queue_size, worker>>
    BY <2>0, <2>7
  <2> QED
    BY <2>1, <2>2, <2>3, <2>4, <2>5, <2>6, <2>7 DEF Next, Main, Finalize, SpawnAdmin, Destroy,
       JoinAdmin, JoinWorker, Free, vars, ring, threads
<1> QED
  BY <1>1, <1>2, TypeCorrect, PhaseCorrect, PTL DEF Spec

\* In a pool of fixed size, while a worker sleeps there is another on its way to
\* the queue for every queued task: no wake-up is lost.
THEOREM TasksCoveredCorrect ==
  ASSUME MinThr = MaxThr
  PROVE  Spec => []TasksCovered
<1> DEFINE R == {"top", "woken"}
<1>0. Cardinality(In({"top", "woken"})) = Count(worker, R)
  BY DEF In, Count
<1>p. Cardinality(In({"top", "woken"}))' = Count(worker', R)
  BY DEF In, Count
<1>a. \A s : s \in R <=> s \in {"top", "woken"}
  OBVIOUS
<1> HIDE DEF R
<1>1. Init => TasksCovered
  BY DEF Init, TasksCovered, Waiting, In
<1>2. TypeOK /\ Phase /\ PoolSize /\ PrewaitEmpty /\ TasksCovered /\ [Next]_vars
        => TasksCovered'
  <2> SUFFICES ASSUME TypeOK, Phase, PoolSize, PrewaitEmpty, TasksCovered, [Next]_vars,
                      Waiting' # {}, ~shutdown'
               PROVE  queue_size' <= Count(worker', R)
    BY <1>p DEF TasksCovered
  <2>0. ASSUME queue_size' = queue_size, Waiting # {}, ~shutdown,
               \A x \in Workers : worker[x] \in R => worker'[x] \in R
        PROVE  queue_size' <= Count(worker', R)
    <3>1. /\ Count(worker, R) \in Nat /\ Count(worker', R) \in Nat
          /\ Count(worker, R) <= Count(worker', R)
      BY <2>0, CountMono
    <3> QED
      BY <1>0, <2>0, <3>1 DEF TasksCovered, TypeOK
  <2>e. ASSUME queue_size' = 0
        PROVE  queue_size' <= Count(worker', R)
    <3>1. Count(worker', R) \in Nat
      BY CountMono
    <3> QED
      BY <2>e, <3>1
  <2>1. ASSUME NEW w \in Workers, Worker(w)
        PROVE  queue_size' <= Count(worker', R)
    <3>0. /\ \A x \in Workers \ {w} : worker'[x] = worker[x]
          /\ ~shutdown
      BY <2>1, WorkerMoves DEF mainVars
    <3>1. CASE worker[w] \in R /\ TakeTask(w)
      <4>1. Waiting # {}
        BY <3>0, <3>1 DEF Waiting, In, TakeTask, TypeOK
      <4>2. worker'[w] \notin R
        BY <1>a, <3>1 DEF TakeTask, TypeOK
      <4>3. Count(worker', R) = Count(worker, R) - 1 /\ Count(worker, R) \in Nat
        <5>1. Count(worker', R) = Count(worker, R) - 1
          BY <3>0, <3>1, <4>2, CountMove
        <5>2. Count(worker, R) \in Nat
          BY <3>0, CountMove
        <5> QED
          BY <5>1, <5>2
      <4> QED
        BY <1>0, <3>0, <3>1, <4>1, <4>3 DEF TasksCovered, TakeTask, TypeOK
    <3>2. CASE FindEmpty(w)
      BY <2>e, <3>2 DEF FindEmpty, ring
    <3>3. CASE LeaveShutDown(w)
      BY <3>0, <3>3 DEF LeaveShutDown
    <3>4. CASE Suicide(w)
      BY <3>4, PoolAssumption DEF Suicide, PoolSize, TypeOK
    <3>5. CASE WorkerLock(w)
      BY <1>a, <3>1, <3>2, <3>3, <3>5 DEF WorkerLock, Proceed
    <3>6. CASE WorkerWake(w)
      BY <1>a, <3>1, <3>2, <3>3, <3>4, <3>6 DEF WorkerWake, Proceed
    <3>7. CASE WorkerWait(w)
      BY <2>e, <3>7 DEF WorkerWait, PrewaitEmpty, ring
    <3>8. CASE WorkerStart(w) \/ WorkerEnd(w) \/ TaskExits(w) \/ SpuriousWake(w)
      <4>1. queue_size' = queue_size /\ worker'[w] # "waiting"
        BY <3>8 DEF WorkerStart, WorkerEnd, TaskExits, SpuriousWake, ring, TypeOK
      <4>2. Waiting # {}
        BY <3>0, <4>1 DEF Waiting, In
      <4>3. \A x \in Workers : worker[x] \in R => worker'[x] \in R
        BY <1>a, <3>0, <3>8 DEF WorkerStart, WorkerEnd, TaskExits, SpuriousWake, TypeOK
      <4> QED
        BY <2>0, <3>0, <4>1, <4>2, <4>3
    <3> QED
      BY <2>1, <3>5, <3>6, <3>7, <3>8 DEF Worker
  <2>2. ASSUME NEW p \in Producers, Enqueue(p), ~shutdown
        PROVE  queue_size' <= Count(worker', R)
    <3>1. PICK w \in Waiting : worker' = [worker EXCEPT ![w] = "woken"]
      BY <2>2 DEF Enqueue, SignalNotEmpty, Waiting, In
    <3>2. w \in Workers /\ worker[w] = "waiting" /\ Waiting # {}
      BY <3>1 DEF Waiting, In
    <3>3. /\ \A x \in Workers \ {w} : worker'[x] = worker[x]
          /\ worker[w] \notin R /\ worker'[w] \in R
      BY <1>a, <3>1, <3>2 DEF TypeOK
    <3>4. Count(worker', R) = Count(worker, R) + 1
      BY <3>2, <3>3, CountMove
    <3>5. Count(worker, R) \in Nat
      BY CountMono
    <3> QED
      BY <1>0, <2>2, <3>2, <3>4, <3>5 DEF TasksCovered, Enqueue, Fill, TypeOK
  <2>3. CASE SignalNotEmpty /\ UNCHANGED <<queue_size, shutdown>>
    <3>1. Waiting # {}
      BY <2>3, SignalMoves DEF Waiting, In
    <3>2. \A x \in Workers : worker[x] \in R => worker'[x] \in R
      BY <1>a, <2>3, SignalMoves
    <3> QED
      BY <2>0, <2>3, <3>1, <3>2
  <2>4. CASE AdminGrow
    <3>1. Waiting # {} /\ queue_size' = queue_size /\ ~shutdown
      BY <2>4, GrowMoves DEF Starts, Ended, Waiting, In, ring, mainVars
    <3>2. \A x \in Workers : worker[x] \in R => worker'[x] \in R
      BY <1>a, <2>4, GrowMoves DEF Starts, Ended
    <3> QED
      BY <2>0, <3>1, <3>2
  <2>5. CASE SpawnWorker
    <3>1. Waiting # {} /\ queue_size' = queue_size /\ ~shutdown
      BY <2>5, SpawnMoves, SpawnFree DEF Starts, Ended, Waiting, In, ring
    <3>2. \A x \in Workers : worker[x] \in R => worker'[x] \in R
      BY <1>a, <2>5, SpawnMoves, SpawnFree DEF Starts, Ended
    <3> QED
      BY <2>0, <3>1, <3>2
  <2>6. CASE Finalize
    BY <2>6 DEF Finalize, JoinAdmin, DestroyBroadcast, JoinWorker, Free, Phase
  <2>7. CASE UNCHANGED <<worker, queue_size, shutdown>>
    BY <2>0, <2>7 DEF Waiting, In
  <2>8. CASE Destroy
    BY <2>8 DEF Destroy
  <2>9. ASSUME NEW p \in Producers, Producer(p)
        PROVE  queue_size' <= Count(worker', R)
    <3>1. UNCHANGED <<worker, queue_size, shutdown>> \/ (Enqueue(p) /\ ~shutdown)
      BY <2>9 DEF Producer, CallAddTask, SpuriousNotFull, AddTask, WaitNotFull, Refused, Enqueue, ring, threads,
         mainVars
    <3> QED
      BY <2>2, <2>7, <3>1
  <2>10. CASE Admin
    <3>1. AdminGrow \/ UNCHANGED <<worker, queue_size, shutdown>>
          \/ (SignalNotEmpty /\ UNCHANGED <<queue_size, shutdown>>)
      BY <2>10 DEF Admin, AdminTest, AdminSample, AdminCountBusy, AdminShrink, AdminSignal,
         ring, threads, mainVars
    <3> QED
      BY <2>3, <2>4, <2>7, <3>1
  <2>11. CASE SpawnAdmin \/ UNCHANGED vars
    BY <2>7, <2>11 DEF SpawnAdmin, vars, ring, threads, mainVars
  <2> QED
    BY <2>1, <2>5, <2>6, <2>8, <2>9, <2>10, <2>11 DEF Next, Main
<1> QED
  BY <1>1, <1>2, TypeCorrect, PhaseCorrect, PoolSizeCorrect, PrewaitCorrect, PTL DEF Spec

-------------------------------------------------------------------------------
(* What the queue holds, and the refinement of TaskQueue *)

Pos(k) == (queue_front + k) % QueueMax
Holding == {"taken", "running"}

\* The queued tasks are the last queue_size ones added, in order around the
\* ring; every other slot still holds the argument of an older task.
Contents ==
    /\ queue_size <= added
    /\ \A k \in 0 .. queue_size-1 : task_queue[Pos(k)] = added - queue_size + 1 + k
    /\ \A k \in queue_size .. QueueMax-1 : task_queue[Pos(k)] <= added - queue_size

\* Each task that has left the queue is held by at most one worker.
HeldOnce ==
    /\ \A w \in Workers : worker[w] \in Holding => task[w] \in 1 .. added - queue_size
    /\ \A w, x \in Workers :
         w # x /\ worker[w] \in Holding /\ worker[x] \in Holding => task[w] # task[x]

\* The slots of the ring, counted from the front and from the next slot.
LEMMA PosFacts ==
  ASSUME TypeOK
  PROVE  /\ \A k \in 0 .. QueueMax-1 : Pos(k) \in Slots
         /\ \A k \in 0 .. QueueMax-1 :
              Pos(k) = IF queue_front + k < QueueMax THEN queue_front + k
                       ELSE queue_front + k - QueueMax
<1>1. queue_front \in 0 .. QueueMax-1
  BY DEF TypeOK, Slots
<1>2. ASSUME NEW k \in 0 .. QueueMax-1
      PROVE  Pos(k) = IF queue_front + k < QueueMax THEN queue_front + k
                      ELSE queue_front + k - QueueMax
  <2>1. k \in 0 .. QueueMax
    BY PoolAssumption
  <2> QED
    BY <1>1, <2>1, ModSum, PoolAssumption DEF Pos
<1>3. ASSUME NEW k \in 0 .. QueueMax-1
      PROVE  Pos(k) \in Slots
  BY <1>1, <1>2, PoolAssumption DEF Slots
<1> QED
  BY <1>2, <1>3

\* The rear is the first free slot of the ring, if there is one.
LEMMA RearIsFree ==
  ASSUME TypeOK, RingConsistent, queue_size # QueueMax
  PROVE  /\ queue_size \in 0 .. QueueMax-1
         /\ queue_rear = Pos(queue_size)
         /\ \A k \in 0 .. QueueMax-1 : k # queue_size => Pos(k) # queue_rear
<1>1. queue_size \in 0 .. QueueMax-1 /\ queue_front \in 0 .. QueueMax-1
  BY PoolAssumption DEF RingConsistent, TypeOK, Slots
<1>2. queue_rear = Pos(queue_size)
  BY DEF RingConsistent, Pos
<1>3. ASSUME NEW k \in 0 .. QueueMax-1, k # queue_size
      PROVE  Pos(k) # Pos(queue_size)
  BY <1>1, <1>3, PosFacts, PoolAssumption
<1> QED
  BY <1>1, <1>2, <1>3

\* The ring holds the last tasks added, in order.
THEOREM ContentsCorrect == Spec => []Contents
<1> USE PoolAssumption
<1>1. Init => Contents
  <2> SUFFICES ASSUME Init PROVE Contents
    OBVIOUS
  <2>1. TypeOK
    BY InitType
  <2> QED
    BY <2>1, PosFacts DEF Init, Contents, Null, Wild
<1>2. TypeOK /\ RingConsistent /\ RingConsistent' /\ TypeOK' /\ Contents /\ [Next]_vars
        => Contents'
  <2> SUFFICES ASSUME TypeOK, RingConsistent, RingConsistent', TypeOK', Contents, [Next]_vars
               PROVE  Contents'
    OBVIOUS
  <2>0. /\ queue_front \in 0 .. QueueMax-1 /\ queue_rear \in 0 .. QueueMax-1
        /\ queue_size \in 0 .. QueueMax /\ added \in Nat
        /\ task_queue \in [Slots -> Int]
    BY DEF TypeOK, RingConsistent, Slots
  <2>1. CASE UNCHANGED ring
    BY <2>1 DEF ring, Contents, Pos
  <2>2. ASSUME NEW w \in Workers, TakeTask(w)
        PROVE  Contents'
    <3>1. /\ queue_size' = queue_size - 1 /\ queue_size' \in 0 .. QueueMax-1
          /\ queue_size \in 1 .. QueueMax
          /\ UNCHANGED <<task_queue, added>>
      BY <2>0, <2>2 DEF TakeTask
    <3>2. queue_front' = IF queue_front + 1 < QueueMax THEN queue_front + 1 ELSE 0
      BY <2>0, <2>2, ModNext DEF TakeTask
    <3>3. queue_front' \in 0 .. QueueMax-1
      BY <2>0, <3>2
    <3>4. ASSUME NEW k \in 0 .. QueueMax-1
          PROVE  Pos(k)' = IF k + 1 < QueueMax THEN Pos(k + 1) ELSE Pos(0)
      <4>1. Pos(k)' = IF queue_front' + k < QueueMax THEN queue_front' + k
                      ELSE queue_front' + k - QueueMax
        <5>1. k \in 0 .. QueueMax
          BY <2>0
        <5> QED
          BY <3>3, <5>1, ModSum DEF Pos
      <4> QED
        BY <2>0, <3>2, <4>1, PosFacts
    <3>5. queue_size' <= added'
      BY <2>0, <3>1 DEF Contents
    <3>6. ASSUME NEW k \in 0 .. queue_size'-1
          PROVE  task_queue[Pos(k)'] = added - queue_size' + 1 + k
      <4>1. k \in 0 .. QueueMax-1 /\ k + 1 \in 0 .. queue_size-1 /\ k + 1 < QueueMax
        BY <2>0, <3>1
      <4>2. Pos(k)' = Pos(k + 1)
        BY <3>4, <4>1
      <4>3. task_queue[Pos(k + 1)] = added - queue_size + 1 + (k + 1)
        BY <4>1 DEF Contents
      <4> QED
        BY <2>0, <3>1, <4>2, <4>3
    <3>7. ASSUME NEW k \in queue_size' .. QueueMax-1
          PROVE  task_queue[Pos(k)'] <= added - queue_size'
      <4>1. CASE k + 1 < QueueMax
        <5>1. k \in 0 .. QueueMax-1 /\ k + 1 \in queue_size .. QueueMax-1
          BY <2>0, <3>1, <4>1
        <5>2. Pos(k)' = Pos(k + 1) /\ Pos(k + 1) \in Slots
          BY <2>0, <3>4, <4>1, <5>1, PosFacts
        <5>3. task_queue[Pos(k + 1)] <= added - queue_size
          BY <5>1 DEF Contents
        <5>4. task_queue[Pos(k + 1)] \in Int
          BY <2>0, <5>2
        <5> QED
          BY <2>0, <3>1, <5>2, <5>3, <5>4
      <4>2. CASE ~(k + 1 < QueueMax)
        <5>1. k \in 0 .. QueueMax-1 /\ Pos(k)' = Pos(0)
          BY <2>0, <3>1, <3>4, <4>2
        <5>2. task_queue[Pos(0)] = added - queue_size + 1 + 0
          BY <3>1 DEF Contents
        <5> QED
          BY <2>0, <3>1, <5>1, <5>2
      <4> QED
        BY <4>1, <4>2
    <3> QED
      BY <3>1, <3>5, <3>6, <3>7 DEF Contents
  <2>3. ASSUME NEW p \in Producers, Enqueue(p)
        PROVE  Contents'
    <3>1. /\ queue_size' = queue_size + 1 /\ queue_front' = queue_front /\ added' = added + 1
          /\ task_queue' = [task_queue EXCEPT ![queue_rear] = added + 1]
          /\ queue_size # QueueMax
      BY <2>3 DEF Enqueue, Fill
    <3>2. /\ queue_size \in 0 .. QueueMax-1
          /\ queue_rear = Pos(queue_size)
          /\ \A k \in 0 .. QueueMax-1 : k # queue_size => Pos(k) # queue_rear
      BY <3>1, RearIsFree
    <3>3. \A k : Pos(k)' = Pos(k)
      BY <3>1 DEF Pos
    <3>4. \A k \in 0 .. QueueMax-1 :
            task_queue'[Pos(k)] = IF k = queue_size THEN added + 1 ELSE task_queue[Pos(k)]
      BY <2>0, <3>1, <3>2, PosFacts
    <3>5. ASSUME NEW k \in 0 .. queue_size'-1
          PROVE  task_queue'[Pos(k)'] = added' - queue_size' + 1 + k
      <4>1. k \in 0 .. QueueMax-1
        BY <3>1, <3>2
      <4>2. task_queue'[Pos(k)'] = IF k = queue_size THEN added + 1 ELSE task_queue[Pos(k)]
        BY <3>3, <3>4, <4>1
      <4>3. k # queue_size => task_queue[Pos(k)] = added - queue_size + 1 + k
        BY <2>0, <3>1 DEF Contents
      <4> QED
        BY <2>0, <3>1, <4>2, <4>3
    <3>6. ASSUME NEW k \in queue_size' .. QueueMax-1
          PROVE  task_queue'[Pos(k)'] <= added' - queue_size'
      <4>1. k \in 0 .. QueueMax-1 /\ k # queue_size /\ k \in queue_size .. QueueMax-1
        BY <2>0, <3>1
      <4>2. task_queue'[Pos(k)'] = task_queue[Pos(k)]
        BY <3>3, <3>4, <4>1
      <4>3. task_queue[Pos(k)] <= added - queue_size
        BY <4>1 DEF Contents
      <4>4. added' - queue_size' = added - queue_size
        BY <2>0, <3>1
      <4> QED
        BY <4>2, <4>3, <4>4
    <3>7. queue_size' <= added'
      BY <2>0, <3>1 DEF Contents
    <3> QED
      BY <3>5, <3>6, <3>7 DEF Contents
  <2> QED
    BY <2>1, <2>2, <2>3, RingStep
<1> QED
  BY <1>1, <1>2, TypeCorrect, RingCorrect, PTL DEF Spec

\* In the first round through the ring the rear goes up with the tasks; only
\* slots that it has not reached hold what malloc left there.
FirstRound ==
    /\ added < QueueMax => queue_rear = added
    /\ \A k \in Slots : task_queue[k] = Wild => added <= k

\* After the first round no slot is uninitialised.
THEOREM FirstRoundCorrect == Spec => []FirstRound
<1> USE PoolAssumption
<1>1. Init => FirstRound
  BY DEF Init, FirstRound, Slots
<1>2. TypeOK /\ FirstRound /\ [Next]_vars => FirstRound'
  <2> SUFFICES ASSUME TypeOK, FirstRound, [Next]_vars
               PROVE  FirstRound'
    OBVIOUS
  <2>1. ASSUME NEW p \in Producers, Enqueue(p)
        PROVE  FirstRound'
    <3>1. /\ added' = added + 1 /\ added \in Nat
          /\ queue_rear \in Slots /\ queue_rear' = (queue_rear + 1) % QueueMax
          /\ task_queue' = [task_queue EXCEPT ![queue_rear] = added + 1]
      BY <2>1 DEF Enqueue, Fill, TypeOK
    <3>2. queue_rear' = IF queue_rear + 1 < QueueMax THEN queue_rear + 1 ELSE 0
      BY <3>1, ModNext DEF Slots
    <3>3. added' < QueueMax => queue_rear' = added'
      BY <3>1, <3>2 DEF FirstRound
    <3>4. ASSUME NEW k \in Slots, task_queue'[k] = Wild
          PROVE  added' <= k
      <4>1. k # queue_rear /\ task_queue[k] = Wild
        BY <3>1, <3>4 DEF TypeOK, Wild
      <4>2. added <= k /\ k \in Nat /\ k < QueueMax
        BY <4>1 DEF FirstRound, Slots
      <4> QED
        BY <3>1, <4>1, <4>2 DEF FirstRound
    <3> QED
      BY <3>3, <3>4 DEF FirstRound
  <2>2. ASSUME NEW w \in Workers, TakeTask(w)
        PROVE  FirstRound'
    BY <2>2 DEF TakeTask, FirstRound
  <2>3. CASE UNCHANGED ring
    BY <2>3 DEF ring, FirstRound
  <2> QED
    BY <2>1, <2>2, <2>3, RingStep
<1> QED
  BY <1>1, <1>2, TypeCorrect, PTL DEF Spec

\* The argument that add_task frees is that of a task that has left the queue,
\* or, in the first round only, what malloc left in the slot.
THEOREM FreedArgCorrect == Spec => FreedArgNotQueued
<1>1. TypeOK /\ RingConsistent /\ Contents /\ FirstRound /\ [Next]_vars
        => [task_queue' # task_queue =>
              /\ task_queue[queue_rear] \notin Queued
              /\ added >= QueueMax => task_queue[queue_rear] # Wild]_vars
  <2> SUFFICES ASSUME TypeOK, RingConsistent, Contents, FirstRound, [Next]_vars,
                      task_queue' # task_queue
               PROVE  /\ task_queue[queue_rear] \notin Queued
                      /\ added >= QueueMax => task_queue[queue_rear] # Wild
    OBVIOUS
  <2>0. queue_size \in Nat /\ added \in Nat
    BY DEF TypeOK
  <2>1. PICK p \in Producers : Enqueue(p)
    BY RingStep DEF ring, TakeTask
  <2>2. queue_size # QueueMax
    BY <2>1 DEF Enqueue
  <2>3. task_queue[queue_rear] <= added - queue_size
    BY <2>2, RearIsFree DEF Contents
  <2>4. \A k \in 0 .. queue_size-1 : task_queue[Pos(k)] > added - queue_size
    BY <2>0 DEF Contents
  <2>5. \A k \in 0 .. queue_size-1 : task_queue[Pos(k)] # task_queue[queue_rear]
    BY <2>0, <2>2, <2>3, RearIsFree DEF Contents
  <2>6. task_queue[queue_rear] \notin Queued
    BY <2>5 DEF Queued, Pos
  <2>7. added >= QueueMax => task_queue[queue_rear] # Wild
    BY <2>0, PoolAssumption DEF FirstRound, TypeOK, Slots
  <2> QED
    BY <2>6, <2>7
<1> QED
  BY <1>1, TypeCorrect, RingCorrect, ContentsCorrect, FirstRoundCorrect, PTL
     DEF Spec, FreedArgNotQueued

\* No task is in the hands of two workers, or both queued and held.
THEOREM HeldCorrect == Spec => []HeldOnce
<1>1. Init => HeldOnce
  BY DEF Init, HeldOnce, Holding
<1>2. TypeOK /\ RingConsistent /\ Contents /\ HeldOnce /\ [Next]_vars => HeldOnce'
  <2> SUFFICES ASSUME TypeOK, RingConsistent, Contents, HeldOnce, [Next]_vars
               PROVE  HeldOnce'
    OBVIOUS
  <2>t. queue_size \in Nat /\ added \in Nat /\ queue_size <= added
    BY DEF TypeOK, Contents
  <2>0. ASSUME added' - queue_size' = added - queue_size,
               \A x \in Workers : worker'[x] \in Holding =>
                                    worker[x] \in Holding /\ task'[x] = task[x]
        PROVE  HeldOnce'
    BY <2>0 DEF HeldOnce
  <2>1. ASSUME NEW w \in Workers, TakeTask(w)
        PROVE  HeldOnce'
    <3>1. /\ queue_size # 0 /\ queue_size' = queue_size - 1 /\ added' = added
          /\ task' = [task EXCEPT ![w] = task_queue[queue_front]]
          /\ worker' = [worker EXCEPT ![w] = "taken"]
      BY <2>1 DEF TakeTask
    <3>2. Pos(0) = queue_front
      <4>1. queue_front \in 0 .. QueueMax-1 /\ 0 \in 0 .. QueueMax-1
        BY PoolAssumption DEF TypeOK, Slots
      <4> QED
        BY <4>1, PosFacts, PoolAssumption
    <3>3. task_queue[queue_front] = added - queue_size + 1
      <4>1. task_queue[Pos(0)] = added - queue_size + 1 + 0
        BY <2>t, <3>1 DEF Contents
      <4> QED
        BY <2>t, <3>2, <4>1
    <3>4. task'[w] = added' - queue_size' /\ task'[w] \in 1 .. added' - queue_size'
      BY <2>t, <3>1, <3>3 DEF TypeOK
    <3>5. ASSUME NEW x \in Workers, x # w, worker'[x] \in Holding
          PROVE  /\ task'[x] = task[x] /\ worker[x] \in Holding
                 /\ task'[x] \in 1 .. added' - queue_size' /\ task'[x] # task'[w]
      <4>1. task'[x] = task[x] /\ worker[x] \in Holding
        BY <3>1, <3>5 DEF TypeOK
      <4>2. task[x] \in 1 .. added - queue_size
        BY <4>1 DEF HeldOnce
      <4> QED
        BY <2>t, <3>1, <3>4, <4>1, <4>2
    <3> QED
      BY <3>4, <3>5 DEF HeldOnce
  <2>2. ASSUME NEW w \in Workers, Worker(w), ~TakeTask(w)
        PROVE  HeldOnce'
    <3>1. UNCHANGED <<added, queue_size>>
      BY <2>2 DEF Worker, WorkerLock, WorkerWait, WorkerWake, WorkerStart, WorkerEnd, TaskExits,
         SpuriousWake, Proceed, FindEmpty, LeaveShutDown, Suicide, ring
    <3>2. \A x \in Workers : worker'[x] \in Holding =>
                               worker[x] \in Holding /\ task'[x] = task[x]
      BY <2>2 DEF Worker, WorkerLock, WorkerWait, WorkerWake, WorkerStart, WorkerEnd, TaskExits,
         SpuriousWake, Proceed, FindEmpty, LeaveShutDown, Suicide, TypeOK, Holding
    <3> QED
      BY <2>0, <3>1, <3>2
  <2>3. CASE SignalNotEmpty /\ UNCHANGED task /\ added' - queue_size' = added - queue_size
    BY <2>0, <2>3, SignalMoves DEF Holding
  <2>4. ASSUME NEW p \in Producers, Producer(p)
        PROVE  HeldOnce'
    <3>1. CASE UNCHANGED <<added, queue_size, worker, task>>
      BY <2>0, <3>1
    <3>2. CASE Enqueue(p) /\ UNCHANGED task
      BY <2>t, <2>3, <3>2 DEF Enqueue, Fill
    <3> QED
      BY <2>4, <3>1, <3>2 DEF Producer, CallAddTask, SpuriousNotFull, AddTask, WaitNotFull, Refused, ring, threads
  <2>5. CASE Admin
    <3>1. UNCHANGED <<added, queue_size, task>>
      BY <2>5 DEF Admin, AdminTest, AdminSample, AdminCountBusy, AdminGrow, AdminShrink,
         AdminSignal, ring, threads
    <3>2. \A x \in Workers : worker'[x] \in Holding => worker[x] \in Holding
      <4>1. CASE AdminGrow
        BY <4>1, GrowMoves DEF Starts, Ended, Holding
      <4>2. CASE ~AdminGrow
        <5>1. UNCHANGED worker \/ SignalNotEmpty
          BY <2>5, <4>2 DEF Admin, AdminTest, AdminSample, AdminCountBusy, AdminShrink,
             AdminSignal, threads
        <5> QED
          BY <5>1, SignalMoves DEF Holding
      <4> QED
        BY <4>1, <4>2
    <3> QED
      BY <2>0, <3>1, <3>2
  <2>6. CASE Main
    <3>1. UNCHANGED <<added, queue_size, task>>
      BY <2>6 DEF Main, SpawnWorker, SpawnAdmin, Destroy, Finalize, JoinAdmin,
         DestroyBroadcast, JoinWorker, Free, ring, threads
    <3>2. \A x \in Workers : worker'[x] \in Holding => worker[x] \in Holding
      <4>1. CASE SpawnWorker
        BY <4>1 DEF SpawnWorker, StartThreads, Holding
      <4>2. CASE ~SpawnWorker
        BY <2>6, <4>2 DEF Main, SpawnAdmin, Destroy, Finalize, JoinAdmin, Holding,
           DestroyBroadcast, BroadcastNotEmpty, JoinWorker, Free, threads, TypeOK
      <4> QED
        BY <4>1, <4>2
    <3> QED
      BY <2>0, <3>1, <3>2
  <2>7. CASE UNCHANGED vars
    BY <2>0, <2>7 DEF vars, ring, threads
  <2> QED
    BY <2>1, <2>2, <2>4, <2>5, <2>6, <2>7 DEF Next
<1> QED
  BY <1>1, <1>2, TypeCorrect, RingCorrect, ContentsCorrect, PTL DEF Spec

\* The queue as a sequence: consecutive task numbers, the newest last.
PendingIs == Pending = [k \in 1 .. queue_size |-> added - queue_size + k]

\* The queue is always such a sequence.
THEOREM PendingCorrect == Spec => []PendingIs
<1>1. TypeOK /\ Contents => PendingIs
  <2> SUFFICES ASSUME TypeOK, Contents
               PROVE  PendingIs
    OBVIOUS
  <2>1. queue_size \in Nat /\ added \in Nat /\ queue_front \in Nat
    BY PoolAssumption DEF TypeOK, Slots
  <2>2. ASSUME NEW k \in 1 .. queue_size
        PROVE  task_queue[(queue_front + k-1) % QueueMax] = added - queue_size + k
    <3>1. k-1 \in 0 .. queue_size-1 /\ queue_front + k-1 = queue_front + (k-1)
      BY <2>1
    <3>2. task_queue[Pos(k-1)] = added - queue_size + 1 + (k-1)
      BY <3>1 DEF Contents
    <3>3. Pos(k-1) = (queue_front + k-1) % QueueMax
      BY <3>1 DEF Pos
    <3> QED
      BY <2>1, <3>2, <3>3
  <2> QED
    BY <2>2 DEF PendingIs, Pending
<1> QED
  BY <1>1, TypeCorrect, ContentsCorrect, PTL

\* What queueing does to such a sequence.
LEMMA RunAppend ==
  ASSUME NEW n \in Nat, NEW a \in Nat
  PROVE  /\ Len([k \in 1 .. n |-> a - n + k]) = n
         /\ Append([k \in 1 .. n |-> a - n + k], a + 1)
              = [k \in 1 .. n+1 |-> (a + 1) - (n + 1) + k]
<1> DEFINE s == [k \in 1 .. n |-> a - n + k]
           t == [k \in 1 .. n+1 |-> (a + 1) - (n + 1) + k]
<1>1. s \in Seq(Int) /\ Len(s) = n
  OBVIOUS
<1>2. t \in Seq(Int) /\ Len(t) = n + 1
  OBVIOUS
<1>3. Append(s, a + 1) \in Seq(Int) /\ Len(Append(s, a + 1)) = n + 1
  BY <1>1
<1>4. ASSUME NEW k \in 1 .. n+1
      PROVE  Append(s, a + 1)[k] = t[k]
  <2>1. CASE k = n + 1
    BY <1>1, <2>1
  <2>2. CASE k \in 1 .. n
    BY <1>1, <2>2
  <2> QED
    BY <2>1, <2>2
<1>5. Append(s, a + 1) = t
  BY <1>2, <1>3, <1>4
<1> QED
  BY <1>1, <1>5

\* What is left of a queue when its head is taken.
LEMMA TailLength ==
  ASSUME NEW s \in Seq(Int), s # <<>>
  PROVE  /\ Tail(s) \in Seq(Int)
         /\ Len(Tail(s)) = Len(s) - 1
         /\ \A k \in 1 .. Len(s)-1 : Tail(s)[k] = s[k+1]
  BY HeadTailProperties

\* What taking does to such a sequence.
LEMMA RunTail ==
  ASSUME NEW n \in Nat \ {0}, NEW a \in Nat
  PROVE  /\ [k \in 1 .. n |-> a - n + k] # <<>>
         /\ Head([k \in 1 .. n |-> a - n + k]) = a - n + 1
         /\ Tail([k \in 1 .. n |-> a - n + k]) = [k \in 1 .. n-1 |-> a - (n - 1) + k]
<1> DEFINE s == [k \in 1 .. n |-> a - n + k]
           t == [k \in 1 .. n-1 |-> a - (n - 1) + k]
<1>1. s \in Seq(Int) /\ Len(s) = n
  OBVIOUS
<1>2. t \in Seq(Int) /\ Len(t) = n - 1
  OBVIOUS
<1>3. s # <<>> /\ Head(s) = s[1]
  BY <1>1
<1> HIDE DEF s
<1>4. /\ Tail(s) \in Seq(Int) /\ Len(Tail(s)) = n - 1
      /\ \A k \in 1 .. n-1 : Tail(s)[k] = s[k+1]
  BY <1>1, <1>3, TailLength
<1> USE DEF s
<1>5. ASSUME NEW k \in 1 .. n-1
      PROVE  Tail(s)[k] = t[k]
  <2>1. s[k+1] = t[k]
    OBVIOUS
  <2> QED
    BY <1>4, <2>1
<1>6. Tail(s) = t
  BY <1>2, <1>4, <1>5
<1>7. s[1] = a - n + 1
  OBVIOUS
<1> QED
  BY <1>3, <1>6, <1>7

\* The pool's queue implements the abstract one: bounded, first in first out,
\* each task handed out once, nothing accepted or handed out after shutdown.
THEOREM RefinementCorrect == Spec => RefinesTaskQueue
<1>1. Init => TQ!Init
  <2> SUFFICES ASSUME Init PROVE TQ!Init
    OBVIOUS
  <2>1. Pending = <<>>
    BY DEF Init, Pending
  <2>2. Held = {}
    BY DEF Init, Held, In
  <2>3. added = 0
    BY DEF Init
  <2>4. shutdown = FALSE
    BY Zenon DEF Init
  <2> QED
    BY <2>1, <2>2, <2>3, <2>4 DEF TQ!Init
<1>2. TypeOK /\ TypeOK' /\ Phase /\ RingConsistent /\ Contents /\ HeldOnce /\ PendingIs /\ PendingIs'
        /\ [Next]_vars => [TQ!Next]_(TQ!vars)
  <2> SUFFICES ASSUME TypeOK, TypeOK', Phase, RingConsistent, Contents, HeldOnce, PendingIs,
                      PendingIs', [Next]_vars
               PROVE  [TQ!Next]_(TQ!vars)
    OBVIOUS
  <2>t. /\ queue_size \in Nat /\ added \in Nat /\ queue_size <= added
        /\ queue_size' \in Nat /\ added' \in Nat
    BY DEF TypeOK, Contents
  <2>h. ASSUME \A x \in Workers : (worker'[x] \in Holding <=> worker[x] \in Holding),
               \A x \in Workers : worker'[x] \in Holding => task'[x] = task[x]
        PROVE  Held' = Held
    BY <2>h DEF Held, In, Holding
  <2>0. ASSUME UNCHANGED <<added, queue_size, shutdown>>, Held' = Held
        PROVE  [TQ!Next]_(TQ!vars)
    <3>1. Pending' = Pending
      BY <2>0 DEF PendingIs
    <3> QED
      BY <2>0, <3>1 DEF TQ!vars
  <2>1. ASSUME NEW w \in Workers, Worker(w)
        PROVE  [TQ!Next]_(TQ!vars)
    <3>0. /\ \A x \in Workers \ {w} : worker'[x] = worker[x]
          /\ UNCHANGED shutdown
      BY <2>1, WorkerMoves DEF mainVars
    <3>1. CASE TakeTask(w) /\ worker[w] \in {"top", "woken"}
      <4>1. /\ queue_size # 0 /\ queue_size' = queue_size - 1 /\ added' = added /\ ~shutdown
            /\ task' = [task EXCEPT ![w] = task_queue[queue_front]]
            /\ worker' = [worker EXCEPT ![w] = "taken"]
        BY <3>1 DEF TakeTask
      <4>2. /\ Pending # <<>> /\ Head(Pending) = added - queue_size + 1
            /\ Pending' = Tail(Pending)
        <5>1. queue_size \in Nat \ {0}
          BY <2>t, <4>1
        <5>2. Pending = [k \in 1 .. queue_size |-> added - queue_size + k]
          BY DEF PendingIs
        <5>3. Pending' = [k \in 1 .. queue_size - 1 |-> added - (queue_size - 1) + k]
          BY <4>1 DEF PendingIs
        <5> QED
          BY <2>t, <5>1, <5>2, <5>3, RunTail
      <4>3. task_queue[queue_front] = added - queue_size + 1
        <5>1. queue_front \in 0 .. QueueMax-1 /\ 0 \in 0 .. QueueMax-1
          BY PoolAssumption DEF TypeOK, Slots
        <5>2. Pos(0) = queue_front
          BY <5>1, PosFacts, PoolAssumption
        <5>3. task_queue[Pos(0)] = added - queue_size + 1 + 0
          BY <2>t, <4>1 DEF Contents
        <5> QED
          BY <2>t, <5>2, <5>3
      <4>4. Held' = Held \union {task_queue[queue_front]}
        <5>1. task'[w] = task_queue[queue_front] /\ worker'[w] = "taken"
          BY <4>1 DEF TypeOK
        <5>2. \A x \in Workers : x # w => task'[x] = task[x] /\ worker'[x] = worker[x]
          BY <4>1 DEF TypeOK
        <5>3. worker[w] \notin {"taken", "running"}
          BY <3>1
        <5> QED
          BY <5>1, <5>2, <5>3 DEF Held, In
      <4>5. TQ!HandOut
        BY <3>0, <4>1, <4>2, <4>3, <4>4 DEF TQ!HandOut
      <4> QED
        BY <4>5 DEF TQ!Next
    <3>2. CASE (WorkerEnd(w) \/ TaskExits(w))
      <4>1. UNCHANGED <<added, queue_size>>
        BY <3>2 DEF WorkerEnd, TaskExits, ring
      <4>2. /\ worker[w] = "running" /\ worker'[w] \notin Holding
            /\ \A x \in Workers : x # w => task'[x] = task[x] /\ worker'[x] = worker[x]
        BY <3>2 DEF WorkerEnd, TaskExits, TypeOK, Holding
      <4>3. task[w] \in Held
        BY <4>2 DEF Held, In
      <4>4. Held' = Held \ {task[w]}
        <5>1. \A x \in Workers : x # w /\ worker[x] \in Holding => task[x] # task[w]
          BY <4>2 DEF HeldOnce, Holding
        <5> QED
          BY <4>2, <5>1 DEF Held, In, Holding
      <4>5. Pending' = Pending
        BY <4>1 DEF PendingIs
      <4>6. TQ!Finish
        BY <3>0, <4>1, <4>3, <4>4, <4>5 DEF TQ!Finish
      <4> QED
        BY <4>6 DEF TQ!Next
    <3>3. CASE ~TakeTask(w) /\ ~WorkerEnd(w) /\ ~TaskExits(w)
      <4>1. UNCHANGED <<added, queue_size, task>>
        BY <2>1, <3>3 DEF Worker, WorkerLock, WorkerWait, WorkerWake, WorkerStart,
           SpuriousWake, Proceed, FindEmpty, LeaveShutDown, Suicide, ring
      <4>2. worker'[w] \in Holding <=> worker[w] \in Holding
        BY <2>1, <3>3 DEF Worker, WorkerLock, WorkerWait, WorkerWake, WorkerStart,
           SpuriousWake, Proceed, FindEmpty, LeaveShutDown, Suicide, TypeOK, Holding
      <4>3. Held' = Held
        BY <2>h, <3>0, <4>1, <4>2
      <4> QED
        BY <2>0, <3>0, <4>1, <4>3
    <3> QED
      BY <2>1, <3>1, <3>2, <3>3 DEF Worker, WorkerLock, WorkerWait, WorkerWake, WorkerStart,
         SpuriousWake, TakeTask, TypeOK
  <2>2. CASE SignalNotEmpty /\ UNCHANGED <<added, queue_size, shutdown, task>>
    <3>1. Held' = Held
      BY <2>2, <2>h, SignalMoves DEF Holding
    <3> QED
      BY <2>0, <2>2, <3>1
  <2>3. ASSUME NEW p \in Producers, Enqueue(p), UNCHANGED <<task, shutdown>>
        PROVE  [TQ!Next]_(TQ!vars)
    <3>1. /\ ~shutdown /\ queue_size' = queue_size + 1 /\ added' = added + 1
          /\ queue_size # QueueMax /\ SignalNotEmpty
      BY <2>3 DEF Enqueue, Fill
    <3>2. Held' = Held
      BY <2>3, <2>h, <3>1, SignalMoves DEF Holding
    <3>3. Len(Pending) = queue_size /\ Pending' = Append(Pending, added + 1)
      <4>1. Pending = [k \in 1 .. queue_size |-> added - queue_size + k]
        BY DEF PendingIs
      <4>2. Pending' = [k \in 1 .. queue_size+1 |-> (added + 1) - (queue_size + 1) + k]
        BY <3>1 DEF PendingIs
      <4> QED
        BY <2>t, <4>1, <4>2, RunAppend
    <3>4. queue_size < QueueMax
      BY <3>1, PoolAssumption DEF RingConsistent
    <3>5. TQ!Accept
      BY <2>3, <3>1, <3>2, <3>3, <3>4 DEF TQ!Accept
    <3> QED
      BY <3>5 DEF TQ!Next
  <2>4. ASSUME NEW p \in Producers, Producer(p)
        PROVE  [TQ!Next]_(TQ!vars)
    <3>1. UNCHANGED <<added, queue_size, shutdown, worker, task>>
          \/ (Enqueue(p) /\ UNCHANGED <<task, shutdown>>)
      BY <2>4 DEF Producer, CallAddTask, SpuriousNotFull, AddTask, WaitNotFull, Refused, ring, threads, mainVars
    <3> QED
      BY <2>0, <2>h, <2>3, <3>1
  <2>5. CASE AdminGrow
    <3>1. UNCHANGED <<added, queue_size, shutdown, task>>
      BY <2>5 DEF AdminGrow, ring, mainVars
    <3>2. \A x \in Workers : worker'[x] \in Holding <=> worker[x] \in Holding
      BY <2>5, GrowMoves DEF Starts, Ended, Holding
    <3> QED
      BY <2>0, <2>h, <3>1, <3>2
  <2>6. CASE Admin /\ ~AdminGrow
    <3>1. UNCHANGED <<added, queue_size, shutdown, task>> /\ (UNCHANGED worker \/ SignalNotEmpty)
      BY <2>6 DEF Admin, AdminTest, AdminSample, AdminCountBusy, AdminShrink, AdminSignal,
         ring, threads, mainVars
    <3> QED
      BY <2>0, <2>h, <2>2, <3>1
  <2>7. CASE SpawnWorker
    <3>1. UNCHANGED <<added, queue_size, shutdown, task>>
      BY <2>7 DEF SpawnWorker, ring
    <3>2. \A x \in Workers : worker'[x] \in Holding <=> worker[x] \in Holding
      BY <2>7, SpawnMoves, SpawnFree DEF Starts, Ended, Holding
    <3> QED
      BY <2>0, <2>h, <3>1, <3>2
  <2>8. CASE Destroy
    <3>1. UNCHANGED <<added, queue_size, task, worker>> /\ shutdown' = TRUE
      BY <2>8 DEF Destroy, ring, threads
    <3>2. Held' = Held
      BY <2>h, <3>1
    <3>3. Pending' = Pending
      BY <3>1 DEF PendingIs
    <3> QED
      BY <3>1, <3>2, <3>3 DEF TQ!Close, TQ!Next
  <2>9. CASE Finalize \/ SpawnAdmin
    <3>1. UNCHANGED <<added, queue_size, shutdown, task>>
      BY <2>9 DEF Finalize, SpawnAdmin, JoinAdmin, DestroyBroadcast, JoinWorker, Free, ring, threads
    <3>2. \A x \in Workers : worker'[x] \in Holding <=> worker[x] \in Holding
      BY <2>9 DEF Finalize, SpawnAdmin, JoinAdmin, DestroyBroadcast, BroadcastNotEmpty, JoinWorker,
         Free, threads, Holding
    <3> QED
      BY <2>0, <2>h, <3>1, <3>2
  <2>10. CASE UNCHANGED vars
    BY <2>0, <2>h, <2>10 DEF vars, ring, threads, mainVars
  <2> QED
    BY <2>1, <2>4, <2>5, <2>6, <2>7, <2>8, <2>9, <2>10 DEF Next, Main
<1> QED
  BY <1>1, <1>2, TypeCorrect, PhaseCorrect, RingCorrect, ContentsCorrect, HeldCorrect,
     PendingCorrect, PTL DEF Spec, RefinesTaskQueue, TQ!Spec

-------------------------------------------------------------------------------
(* The slots that threadpool_destroy joins *)

\* The slots that destroy has passed hold no live thread, and no admin is left
\* that could start one in them.
Joined ==
    /\ mainPc \in {"broadcast", "join", "freed"} => adminPc \in {"none", "exited"}
    /\ mainPc \in {"join", "freed"} => \A w \in Workers : w < mainI => worker[w] = "exited"
    /\ mainPc = "freed" => mainI >= live_thr_num

\* destroy passes a slot only when its thread has ended (line 306), and a
\* thread that has ended is started again by the admin alone.
THEOREM JoinedCorrect == Spec => []Joined
<1>1. Init => Joined
  BY DEF Init, Joined
<1>2. TypeOK /\ Joined /\ [Next]_vars => Joined'
  <2> SUFFICES ASSUME TypeOK, Joined, [Next]_vars
               PROVE  Joined'
    OBVIOUS
  <2>0. ASSUME UNCHANGED <<mainPc, mainI, adminPc>>,
               mainPc = "freed" => UNCHANGED live_thr_num,
               \A x \in Workers : worker[x] = "exited" => worker'[x] = "exited"
        PROVE  Joined'
    BY <2>0 DEF Joined
  <2>1. ASSUME NEW w \in Workers, Worker(w)
        PROVE  Joined'
    <3>1. /\ UNCHANGED <<mainPc, mainI, adminPc>>
          /\ \A x \in Workers : worker[x] = "exited" => worker'[x] = "exited"
      BY <2>1, WorkerMoves DEF mainVars, adminVars, Ended
    <3>2. mainPc = "freed" => UNCHANGED live_thr_num
      BY <2>1 DEF Worker, WorkerLock, WorkerWait, WorkerWake, WorkerStart, WorkerEnd, TaskExits,
         SpuriousWake, counts, history, LockAvailable, Allocated
    <3> QED
      BY <2>0, <3>1, <3>2
  <2>2. ASSUME NEW p \in Producers, Producer(p)
        PROVE  Joined'
    <3>1. /\ UNCHANGED <<mainPc, mainI, adminPc, live_thr_num>>
          /\ UNCHANGED worker \/ SignalNotEmpty
      BY <2>2 DEF Producer, CallAddTask, SpuriousNotFull, AddTask, WaitNotFull, Refused,
         Enqueue, counts, history, threads, adminVars, mainVars
    <3> QED
      BY <2>0, <3>1, SignalMoves
  <2>3. CASE Admin
    <3>1. mainPc \notin {"broadcast", "join", "freed"} /\ UNCHANGED mainVars
      BY <2>3 DEF Admin, AdminTest, AdminSample, AdminCountBusy, AdminGrow, AdminShrink,
         AdminSignal, Joined
    <3> QED
      BY <3>1 DEF Joined, mainVars
  <2>4. CASE SpawnWorker \/ SpawnAdmin \/ Destroy
    BY <2>4 DEF SpawnWorker, SpawnAdmin, Destroy, Joined
  <2>5. CASE JoinAdmin
    BY <2>5 DEF JoinAdmin, adminVars, Joined
  <2>6. CASE DestroyBroadcast
    BY <2>6 DEF DestroyBroadcast, adminVars, Joined, Workers, TypeOK
  <2>7. CASE JoinWorker
    BY <2>7 DEF JoinWorker, adminVars, threads, counts, history, Joined, Workers, TypeOK
  <2>8. CASE Free
    BY <2>8 DEF Free, adminVars, threads, counts, history, Joined
  <2>9. CASE UNCHANGED vars
    BY <2>0, <2>9 DEF vars, counts, history, threads, adminVars, mainVars
  <2> QED
    BY <2>1, <2>2, <2>3, <2>4, <2>5, <2>6, <2>7, <2>8, <2>9 DEF Next, Main, Finalize
<1> QED
  BY <1>1, <1>2, TypeCorrect, PTL DEF Spec

\* In a pool of fixed size live_thr_num is the number of slots, so the slots
\* that destroy joins are all of them: nothing runs when the pool is freed.
THEOREM AllJoinedCorrect ==
  ASSUME MinThr = MaxThr
  PROVE  Spec => []AllWorkersJoined
<1>1. TypeOK /\ PoolSize /\ Joined => AllWorkersJoined
  <2> SUFFICES ASSUME TypeOK, PoolSize, Joined, mainPc = "freed"
               PROVE  Live = {}
    BY DEF AllWorkersJoined
  <2>1. mainI >= MaxThr
    BY PoolAssumption DEF PoolSize, Joined, TypeOK
  <2>2. \A w \in Workers : worker[w] = "exited"
    BY <2>1, PoolAssumption DEF Joined, Workers, TypeOK
  <2> QED
    BY <2>2 DEF Live, In, Ended
<1> QED
  BY <1>1, TypeCorrect, PoolSizeCorrect, JoinedCorrect, PTL
===============================================================================
