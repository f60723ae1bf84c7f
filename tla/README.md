# Verification of learn_c_linux

TLA+ models of the programs of this repository that keep state across steps or
run more than one thread or process, TLC runs that check them on small
instances, and machine-checked proofs that each safety property of those runs
holds for every value of the constants.

The repository is a collection of C programs for learning Linux. Most files are
a few lines that call one function and print what it returns. What has
behaviour worth verifying is a pthread pool, seven network servers with their
clients, a ping with two threads, two linked lists, a sort, and the examples of
threads, pipes and message queues.

## 1. Inventory

| Component | Source | State it keeps | Operations |
|---|---|---|---|
| Thread pool | `practise/thread_pool.c/.h` | ring of tasks with front, rear, size; live, busy and wait-exit counts; thread table; `shutdown` | create, worker loop, add_task, admin loop, destroy, free |
| Select server | `socket/io_model/select.c`, `client.c` | table `fds`, `connections`, what `select` reported | select, serve, broadcast, accept, notify |
| Fork chat | `practise/chat/server.c` | list of descriptors in shared memory, `count`; descriptor table of each process | accept, push_fd, fork; child: read, broadcast |
| Threaded chat | `practise/chat/thread_server.c` | array `cs_fds`, `count`; pointer of each thread into it | accept, store, pthread_create; thread: read, broadcast |
| Epoll server | `socket/io_model/epoll.c` | kernel's interest list, reported events, `cur_fd` | wait, accept, receive, drop, answer |
| Fork echo | `socket/exmaple/TCP/server.c`, `client.c` | which process holds which descriptor | accept, fork, close, read, reply |
| Ping | `socket/socket_raw/ping.c` | table of packets, two wrapping counters, `dest`, `alive` | send thread, receive thread, SIGINT, statistics |
| Phone book | `practise/contacts.c` | linked list in the heap | add, delete, change, exit |
| Linked list | `practise/link_list.c/.h` | linked list in the heap | Insert, Delete, DeleteList |
| Mutex example | `thread/thread_lock.c` | counter, mutex, `running` | two loops, stop and join |
| Epoll server on the pool | `practise/epoll_thread_model.c`; its client `practise/chat/client.c` | events array shared with the workers, `cur_fd`; the pool's queue | wait, accept, add_task; task: recv, send, exit |
| Semaphore example | `thread/thread_sem.c` | semaphore, `running` | post, wait, stop and join |
| Pipes | `process/communication/pipe/*.c` | bytes in the pipe, who has its write end open | write, read, close |
| Message queue | `process/communication/msg/msg.c` | the kernel's queue, which outlives its processes | create, send, receive, remove |
| UDP echo | `socket/exmaple/UDP/server.c`, `client.c` | datagrams on the way, the one being answered | recvfrom, sendto |
| Quick sort | `learn_c/quick_sort.c` | array, stack of recursive calls | partition, exchange |
| The rest | see `PROJECT.json` | none, or the kernel's | not modelled, section 7 |

### How they interact, what is hard, what makes each correct

**Thread pool.** Workers, admin thread, producers and the creating thread share one
structure under `lock` and `thread_counter`. Hard: `shutdown` is written and both
broadcasts and the admin's signals are sent without the lock; the admin decides to
grow or shrink on samples that are stale when it acts; a request to shrink
(`wait_exit_thr_num`) is a count that any waking worker may consume, at any later
time; a task may end its thread with `pthread_exit` (`server_handle` of
`epoll_thread_model.c` does); nobody looks at the result of `pthread_create`, and
`live_thr_num` counts the thread all the same. Correct means: tasks leave in the
order they came, each for one worker, none after shutdown; the counters differ from
what they count by a known number of threads; the pool keeps its size; no task waits
for a signal that will not come; destroy returns and frees nothing that is in use.

**Servers.** A server and its clients interact through the kernel: connection
queues, one stream of bytes each way, and descriptor numbers, which are given
out again after `close`. Hard: what `select` or `epoll_wait` reported is old
when it is used, a number kept in a table may mean another connection later, a
peer that has gone answers the next write with a reset and the one after it
with SIGPIPE. Correct means: tables and counters agree with the open
connections; a message goes to whom it was meant for; what clients send is read.

**Epoll server on the pool.** The main thread gives each task the address of an
entry of `events`, which the next `epoll_wait` overwrites; a worker reads it
twice, in `recv` and in `send`. A descriptor is reported again until a worker has
read it, so several tasks are made of one event, and those that find nothing end
their worker. `add_task` frees what the ring's slot held, which in its second
round is a pointer into that array. Correct means what is left: whatever a task
finds in its entry is an open descriptor that is watched (`HandlesOpen`). That it
is still the client the task was made for does not hold, and nobody says it does: a
task may report the disconnection of a client that is there. No
liveness is stated: `pool_lost_task` shows that a pool that grows and shrinks may
leave a task, and the server ends with the task after the last free slot.

**Fork chat.** Parent and children share a segment of System V memory without a
lock, and it outlives them. The parent's descriptor numbers are stored in it,
and each child reads them through its own descriptor table, each entry twice: to
test it and to write to it. Correct means: the
list always ends, a number never means another client than the one stored, and
every listed client hears a message. The last fails (`fork_late`).

**Ping.** The sender and the receiver share the packet table, the destination
address and `alive` without a lock; the network delays, repeats and loses. Correct
means: sequence numbers are consecutive although sends fail and the short they are
kept in wraps, answered slots become free, the printed counters are final, SIGINT
ends the program.

**Lists, quick sort.** Sequential: hard are long sequences of legal calls,
pointers read after `free`, and a pivot `arr[middle]` that a partition moves.

**Threads, pipes, queues, UDP.** A flag read without a lock, an end of file that
depends on every process closing what it inherited, a queue that survives its
process, datagrams that are lost or overtake each other. Correct means: nothing
is lost or read twice, and who waits for ever is known.

## 2. Modules

| Module | What it models |
|---|---|
| `ThreadPool` | all of `thread_pool.c` after the allocations, as one state machine |
| `TaskQueue` | what the pool promises a producer: a bounded FIFO queue that is closed once; `ThreadPool` implements it |
| `Sockets` | connections and descriptor numbers as a server sees them, and the client program `socket/io_model/client.c`; extended by the three servers that follow and by `EpollPool` |
| `SelectServer`, `EpollServer`, `ThreadChat` | the servers of `select.c`, `epoll.c`, `thread_server.c` |
| `ForkChat`, `ForkEcho` | the servers that fork, each process with its own descriptor table |
| `Ping` | the two threads, the signal handler, the network |
| `Cells` | a linked list in memory: the walk from the head cell; extended by `Contacts` and `LinkList` |
| `Contacts`, `PhoneBook` | the phone book program, and the map from names to numbers that it implements |
| `LinkList`, `SeqList` | the list module, and the sequence that it implements |
| `EpollPool` | `epoll_thread_model.c` on `TaskQueue`, with `chat/client.c` |
| `ThreadLock`, `ThreadSem` | the mutex and the semaphore example |
| `Pipes`, `MsgQueue`, `UdpEcho` | the two processes at a pipe; runs of `msg.c` at one queue; the UDP server and its clients |
| `QuickSort` | the recursion, one action per loop or exchange |
| `Programs` | the smaller programs composed as a choice: a behaviour picks one of the twelve and runs it alone |
| `MCThreadPool`, `MCSelectServer`, `MCForkChat`, `MCPing`, `MCPrograms` | model values, small sets and symmetry for TLC |
| `ThreadPoolProofs`, `SelectServerProofs`, `ForkChatProofs`, `PingProofs` | the theorems about these four |
| `SocketsProofs` | lemmas on the kernel's descriptors; extended by the proofs about the servers |
| `EpollServerProofs`, `ThreadChatProofs`, `ProgramsProofs` | the theorems about `Programs`; the first two prove what the third carries over |

Names follow the source: a variable is the C variable of the same name, an
action the function or the part of it that it models. A `pc` variable says
where a thread is; a step of a thread that touches only its own variables is
merged with the next one that touches something shared. A critical section is
one action, when everything it touches is touched under that lock only, or when
it reads once what others write without the lock: the action then stands at that
read.

**ThreadPool.** `lock` is held over two steps in one place: between the test at
line 86 and the wait at line 89. There a worker is in state `"prewait"`, and no
other action that takes the lock is enabled (`LockAvailable`). All that destroy
and the admin do without the lock is enabled then. The one thing that the critical
sections read and that is written without the lock is `shutdown` (292). Each
branch of one reads it once (86, 107, 152, 156) before it acts, so the action is
where that read is: the dequeue at 114 may come after destroy has set `shutdown`,
if 107 read it before. "None after shutdown" of `TaskQueue` means just that.
`pthread_create` may fail at every call (60, 63, 215), `MaxFailures` times in a
behaviour: `StartThreads` then leaves the slot as it was, or with a value that is
no thread, as POSIX does not say what a failed call stores. Without an admin
thread, `pthread_join` of an `admin_tid` that nobody wrote (`JoinAdmin`) returns,
crashes or waits. `pthread_join` of a slot that is 0 ends the process
(`mainPc = "crashed"`). Waiters of a condition
variable are the workers (producers) in state `"waiting"`; a signal moves any
one of them to `"woken"`, or none if there is none, and a spurious wake-up is an
action. The admin loop is four actions (test, sample under `lock`, sample under
`thread_counter`, grow and shrink), and one for each signal. Tasks are numbers,
0 is NULL and -1 is what malloc left in a slot. A task may end its thread if
`TasksMayExit`. History variables: `added` (tasks ever queued), `lost`
(threads ended by tasks) and `failed` (workers that `pthread_create` did not create).

**Sockets.** `sock[c]` is a connection as the server has it, `peer[c]` what the
client has done, `fd[c]` its descriptor number, the smallest that is free, and
`inbox`, `outbox` the bytes on the way, counted in messages up to a capacity.
`Readable`, `AtEnd` and `Broken` are what `select`, `read` and `write` tell the
server. Each server adds its own table and `pc`.

**EpollPool.** The pool's state is `TaskQueue`'s: `Queue!Accept`, `Queue!HandOut`
and `Queue!Finish` are add_task, a worker's dequeue and the end of a task, and
`ThreadPool` implements them (`RefinesTaskQueue`). `arg[t]` is the entry of
`events` that task t points to and `Fd(t)` what that entry holds now. Tasks are
numbered up to the length of the ring: the one after them frees a pointer that
malloc did not return (`AddFrees`), and the process ends.

**ForkChat.** The two reads of an entry are two steps (`Test`, then `Deliver` or what
else comes of the number read second). The second may read a 0 that the first did
not: the message goes to the terminal, and the loop goes on over entries behind
the terminator, which earlier servers left. So the list starts as any list that
servers before can have left (`LeftOver`), and `restarts` adds more of them.

**ThreadChat.** `memset(readbuf, 0, sizeof(writebuf))` (76) clears 512 bytes too many.
Which variables lie behind `readbuf` is the compiler's choice, so `Overrun` may end
the process at each pass of the loop, or nothing happens when `writebuf` lies there;
everything that is proved and checked holds up to that end.

**Ping.** `packet_send` and the number in a packet count modulo `ShortRange`; `Total` is
the number of packets that have gone out, and `wire` keeps them all with the number
they carry.

**MsgQueue, UdpEcho, Pipes.** The kernel's part is data: the queue with who sent
which message, sets of datagrams (lost and reordered, as nothing orders a set),
and the number of bytes in the pipe. A process may be killed before any call, and
a write of more than `PipeBuf` bytes is cut up in every way.

**QuickSort.** `calls` is the stack of the recursion; `given` remembers the input.
Indexes are those of C, and `InBounds` says that they stay in the part.

**Lists.** Memory is a set of cells with a `next` pointer and a set `allocated`.
`Walk[k]` is the cell that k steps lead to. A freed cell can be handed out again
by the next malloc, which `\E p \in Cells \ allocated` says.

## 3. Runs

Deadlock checking is off in all of them, because every one of these programs
really stops: a pool that has been freed or whose destroy hangs, a server that
SIGPIPE killed or whose clients have all left, a program that has returned.

| Run | Instance | What it shows |
|---|---|---|
| `pool_safety` | 1 to 3 workers, ring of 2, growth by 2, 2 producers (symmetric), 3 tasks that may call `pthread_exit`, up to 2 failures of `pthread_create`; 1.9 million states | counters, ring, freed arguments and the refinement to `TaskQueue`, while the pool grows, shrinks and is destroyed |
| `pool_fixed` | 2 workers of which one may not be created, ring of 2, 1 producer, 3 tasks, `FairSpec`; 50 thousand states | with min = max every task is served, a blocked producer gets on, the admin ends, and the pool is freed after its threads have ended |
| `pool_lost_task` | 1 to 2 workers, `FairSpec` | finding: a stale request to shrink eats the signal of a task, which is never served |
| `pool_free_early` | 1 to 2 workers | finding: destroy frees the pool under a thread that it has not joined |
| `pool_destroy_hang` | 1 worker, `FairSpec` | finding: destroy's broadcast is lost between a worker's test and its wait |
| `select_server` | 3 clients, table of 3, buffers of 1, `FairSpec`; 265 thousand states | the table holds open descriptors only, `connections` is exact when it is tested, it stays below the limit, a pending connection is answered |
| `select_forgets` | the same | finding: a new client overwrites the slot of a connected one |
| `fork_chat` | 3 clients, list of 3, 1 restart, symmetric; 2.6 million states | the list ends, a number means one client, whoever was inherited hears |
| `fork_late` | the same | finding: earlier children never reach later clients |
| `ping` | table of 2, 2 hosts, 3 packets, counters modulo 2; 1.5 million states, `FairSpec` | consecutive numbers, final statistics, SIGINT ends the program |
| `ping_flag` | table of 2, 2 hosts, 2 packets, counters modulo 3 | finding: `seq = -1` assigns, and answered slots stay taken |
| `programs` | 306 thousand states, `FairSpec`; instances below | the properties of the twelve programs, which are independent of each other |

`programs` gives each program an instance of its own:

| Program | Instance |
|---|---|
| epoll server | 3 clients, room for 2, buffers of 1 |
| epoll server on the pool | 2 clients, `MaxClient` 3 (`cur_fd` starts at 1, so both are accepted), ring of 2, 2 workers, buffers of 1 |
| threaded chat | 2 clients, `cs_fds` of 3, buffers of 1 |
| TCP echo | 2 clients, 2 children |
| UDP echo | 3 clients |
| phone book | 3 names, 2 numbers, cells for 3 |
| linked list | up to 4 elements of 2 values |
| mutex, semaphore | 3 rounds each; a semaphore from 1 up to 3 |
| pipes | 5 bytes, a pipe of 3, `PIPE_BUF` 2, reads of 2 |
| message queue | 2 processes, 4 runs in all |
| quick sort | every array of length 5 over 1 .. 3, and the array of `main` |

### Why the bounds are enough

*Pool.* Three slots and two producers are the least with which a worker can be
replaced while another sleeps, the ring wraps, and a producer is blocked while
another fills the slot. Two failures of `pthread_create` are enough for both a
thread of `threadpool_create` and one of the admin thread not to exist. With three
tasks on a ring of two the third needs a slot that has been used. `MinWaitTaskNum` 1
and `DefaultThreadNum` 2 make the pool grow and shrink with so few tasks, by more
than one thread at a time. `pool_fixed` has one producer, so that nobody fills the
ring again before it has woken up: that case is `BlockedOnlyWhenFull`'s in
`pool_safety`. Nor does its admin grow or shrink anything; the steps in which it
does are `pool_safety`'s. *Select and epoll.* Three clients let one leave, one take
its number, and one be reported in the same call; the tables of three (and room for
two in epoll) are full with that. *Epoll on the pool.* Two accepted clients let an
entry be overwritten by the other client's descriptor while a task that points to it
waits, between its `recv` and its `send`, and while a second task points to the same
entry. That the listening socket becomes a task when `cur_fd` has reached the limit
needs a third client: the theorem `HandlesCorrect` covers it, for any number, and
the run does not. *Pipes.* What is written does not fit into the pipe, a write does
not fit into what is free, and the last read is shorter than the buffer. *Message
queue.* Four runs are one that is killed, two at once and one after them. *Fork
chat.* The list of three keeps room for two clients and the terminator, so it is
full with three. It starts as every list that earlier servers can leave, and one
restart lets children of the old server run beside the new one; the terminator is
stored between the two reads of a child. Behind it such a list has at most one old
entry: for longer ways the theorems stand. *Ping.* Two packets fill the table, and
with the third the counters have wrapped. *Counters:* `MaxTasks`, `MaxSent`,
`NetCap`, `MaxRestarts`, `MaxRounds`, `MaxFailures`, `MaxRuns`, `MaxSem`, `RecvCap`
and `SendCap` bound what is unbounded in the code; each is named where it is used,
and `MaxTasks`, `MaxFailures` and `MaxSent` are parameters of the proofs, not
numbers.

### Fairness

`ThreadPool!Fairness` says that every thread is scheduled. Taking a mutex is
strongly fair: other threads take it again and again, and it is free
infinitely often. The waits themselves are fair only once they have been
signalled. Producers need not call `add_task`, and nothing forces a spurious
wake-up. `SelectServer` adds that clients read what they are sent: the server
waits in `send` for a client that does not, so `PendingAnswered` cannot hold
without it. `EpollServer` asks nothing of its clients, since its sockets do not
block, and `DataRead` holds whatever they do. `ForkEcho`, `ThreadLock`,
`ThreadSem`, `Pipes` and `UdpEcho` ask that processes and threads run (in
`UdpEcho` a client takes an answer that is there), `Ping` the same of its three
threads; nothing is asked of the network or of the user. In `ThreadSem` the
producer rests at the bound of the semaphore, and the consumer or the end of the
second lets it go on. In `Programs!FairSpec` each conjunct is
the fairness of one program, restricted to the behaviours that run it.

## 4. Properties

Each is stated with a comment in its module. The ones that relate most:

- `RefinesTaskQueue`: pending tasks, the tasks that workers hold and `shutdown`
  together behave as a FIFO queue, however the ring wraps and threads interleave.
- `LiveExact`, `BusyExact`: what the two counters equal, including the drift
  that tasks ending their threads and threads that were not created cause.
- `AllWorkersJoined`: in a pool of fixed size the slots below `live_thr_num` are all
  threads there are, so that destroy frees nothing in use; `pool_free_early` shows
  that this is lost when the pool grows and shrinks.
- `TasksCovered`: in a pool of fixed size, no queued task depends on a sleeping
  worker. `Served` is what follows from it, and `pool_lost_task` shows that it
  is lost when the pool may shrink.
- `FreedArgNotQueued`: `add_task` frees the old argument of the slot that it
  fills; that argument is never one that is still queued, and uninitialised
  memory at most in the first round through the ring.
- `BlockedOnlyWhenFull`: a producer sleeps only while the ring is full; since
  destroy wakes no producer, those are the ones a shutdown can strand.
- `SlotsOpen`, `CountExact`, `BelowCapacity` (select), `EventsTrue` (epoll), `OwnSlot`
  (threaded chat): tables of reused numbers.
- `SameMeaning`, `ListEnds` (fork chat): the list read at any moment, in any
  process, before and after a restart of the server, also by a child that walks on
  behind a terminator that was stored after it had tested the entry.
- `ChildrenApart`, `Answered` (fork echo): children that return
  into the accept loop of their parent do no harm there.
- `SeqsConsecutive`, `StatisticsFinal`, `Stops` (ping). `Stops` allows one end
  other than the regular one: if no packet was counted as sent, the percentage
  of lost ones (line 85) divides by zero.
- `HandlesOpen` (epoll on the pool): see section 1.
- `FreshQueue` (message queue): no process gets the message of another one or of
  an earlier run, whatever ended that run. It holds since `IPC_EXCL` makes a
  later run give up, which is what happens for ever after a kill. The mode 0x0666,
  where 0666 is meant, contains that bit too, so that both would have to change.
- `AllRead`, `NoneLost`, `OwnEcho`, together `ResultsRight`: what programs print.
- `DataSound`, `Ends`: for every array the indexes of the sort stay in their part
  and the recursion ends, with the array of `main` in order (`MainSorted`; other
  arrays are not always, as the pivot moves, and no text says they are); the
  semaphore example ends unless its consumer has emptied the semaphore when the
  producer stops; the reader of a pipe sees the
  end of the data, which needs both processes to close the ends they do not use.
- `RefinesBook`, `RefinesSequence`, and `ListWellFormed` in `DataSound`: lists in
  the heap as a map and as a sequence; no cell leaks, none is used after it was
  freed.

Every property of a passing run has a mutant in `PROJECT.json`, the change of
the code that would break it. The mutated operators stand beside the originals,
marked `mutant`, and are used by no specification.

## 5. Findings

Six runs show a comment of the repository violated; `PROJECT.json` quotes each.

1. `pool_lost_task` (thread_pool.c:92): a count of threads that should exit,
   left over from an earlier round of the admin, makes the worker that was
   woken for a task exit instead of taking it.
2. `pool_free_early` (304): destroy joins slots `0 .. live_thr_num-1`, which
   need not be the slots of the live threads.
3. `pool_destroy_hang` (292): a wake-up is lost, as `shutdown` is written and
   broadcast without the mutex of the condition variable.
4. `select_forgets` (select.c:101): a count is used as the index of a free slot.
5. `fork_late` (chat/server.c:96): numbers of descriptors opened after the fork
   mean nothing in the child.
6. `ping_flag` (ping.c:61): `=` for `==`.

## 6. What is proved

Every invariant and every action property that a passing run checks is also a
theorem, and so are the three refinements (`RefinesTaskQueue`, `RefinesBook`,
`RefinesSequence`). The runs show them on small instances; the theorems hold for
any number of threads, clients, processes, slots, cells and messages, for any
array of integers, and for every bound.

They rest on the assumptions on the constants and on nothing else. `PoolAssumption`
says that the arguments are those `threadpool_create` is meant for.
`SocketsAssumption`, `ServerAssumption`, `ChatAssumption` and `EpollAssumption` ask
for finite sets of clients and for tables and buffers that are not empty.
`PingAssumption` asks for a table, a target among the hosts and a short of one value
or more; how many packets are sent is not restricted. `ThreadChatAssumption` asks
that `cs_fds` is longer than the number of clients (the code does not test it; see
section 7).
`PipesAssumption` says that the string that `pipe.c` and `read_clog.c` write fits in
their reader's buffer and in the pipe. The constants of the lists are a
finite set of cells with the header and without NULL. TLC evaluates all of them.

### The thread pool

| Theorem | Statement |
|---|---|
| `TypeCorrect`, `PoolSizeCorrect` | `[]TypeOK`, `[]PoolSize` |
| `RingCorrect` | `[]RingConsistent` |
| `BlockedCorrect` | `[]BlockedOnlyWhenFull` |
| `BusyCorrect`, `LiveCorrect` | `[]BusyExact`, `[]LiveExact` |
| `TasksCoveredCorrect` | `[]TasksCovered`, assuming `MinThr = MaxThr` |
| `FreedArgCorrect` | `FreedArgNotQueued`, from `FirstRoundCorrect` and the contents of the ring |
| `RefinementCorrect` | `Spec => TQ!Spec` |
| `AllJoinedCorrect` | `[]AllWorkersJoined`, assuming `MinThr = MaxThr` |

The argument goes in layers, each an invariant that the next one uses:

1. `TypeAndSize`: types, `PoolSize`, and `SignalsLeft` (the admin's signals left
   to send agree with its `pc`) are inductive together. `PoolSize` is not by
   itself: `live_thr_num--` at line 95 is guarded by the same test that takes
   it, but `AdminGrow` adds `Fillings`, whose size must be bounded by `Room`.
2. `RingCorrect`: the two indexes and the size. `BlockedCorrect` and
   `FirstRoundCorrect` (only slots that the rear has not reached yet are
   uninitialised) need no more than types and sizes.
3. `PhaseCorrect`: which threads may exist in which phase of `main`. With it and
   counting lemmas on the sets of workers in a state (`CountSame`, `CountMove`,
   `CountMono`) follow `BusyCorrect` and `LiveCorrect`. `pthread_create` may fail any
   number of times in them: `StartMoves` says that each slot to be filled gets a
   thread or is one more failure.
4. `PrewaitCorrect`: a worker about to wait has seen an empty queue, and nobody
   can have filled it since. It and `LiveCorrect` give `TasksCoveredCorrect`: a
   new task signals a sleeper, if there is one; in a pool of fixed size the
   worker that is woken cannot leave instead of looking at the queue.
5. `ContentsCorrect`: the slots between front and rear hold the last
   `queue_size` of the tasks `1 .. added`, in order. No argument is in the ring
   twice, which gives `FreedArgCorrect`; with `HeldCorrect` (no task with two
   workers) and `PendingCorrect` (the abstract sequence is an interval of
   numbers), each step of the pool is a step of `TaskQueue` or a stutter.
6. `JoinedCorrect`: destroy passes a slot only when its thread has ended, and it
   does so after the admin has ended or never ran, so that nobody starts another
   there. In a pool of fixed size `PoolSizeCorrect` makes these slots the whole table.

### The servers and ping

| Module | Theorems |
|---|---|
| `SelectServerProofs` | `TypeCorrect`, `SlotsCorrect` (`SlotsOpen`), `CountCorrect` (`CountExact`), `CapacityCorrect` (`BelowCapacity`) |
| `ForkChatProofs` | `TypeCorrect`, `ListCorrect` (`ListEnds`), `MeaningCorrect` (`SameMeaning`), `HearCorrect` (`InheritedHear`) |
| `PingProofs` | `TypeCorrect`, `SeqsCorrect` (`SeqsConsecutive`), `StatisticsCorrect` (`StatisticsFinal`) |
| `EpollServerProofs` | `TypeCorrect`, `EventsCorrect` (`EventsTrue`, `RoomForEvents`) |
| `ThreadChatProofs` | `TypeCorrect`, `SlotCorrect` (`OwnSlot`), `HearCorrect` (`AllHear`) |

*Descriptors.* `SocketsProofs` shows once what the servers need of the kernel:
a connection has a descriptor from `accept` to `close`, and no two have the same
(`KernelInv`). `accept` keeps it because the smallest free number exists and
belongs to nobody (`NewFdFree`, from `SmallestOf` and the finiteness of the set
of clients), and a client's steps do not touch it.

*Select.* `SlotsOpen`, `CountExact` and `BelowCapacity` are inductive only together
with `KernelInv` (`ServerInv`). That a slot that is overwritten was empty cannot be
proved, and `select_forgets` shows why; the three survive an overwriting because
`connections` is below the number of slots when it is the index, and is
recomputed by the loop over the table before it is tested again.

*Epoll.* `EventsTrue` needs that the descriptor that is being answered is open, and
that `cur_fd` counts at least what is watched (`ServerInv`): what was reported
stays readable because only the server reads, and it closes only the descriptor
that it has just taken from the events.

*Threaded chat.* `OwnSlot` says that the entry behind a thread's pointer is not
written again. It needs where the main thread is (`MainInv`), that the array is
filled up to `count`, or one further while a thread is created (`ArrayInv`), and
that a thread's slot is below `count` (`ThreadInv`). A failing `pthread_create`
closes a client without counting it, so that `count` is at most the number of
clients stored, not equal to it. `AllHear` needs in addition that each client
who should hear the message has heard it or is still to come (`HearInv`).

*Fork chat.* The invariant (`ChatInv`) says why nothing goes wrong although nobody
locks and a restarted server finds the old list: the parent never closes a client's
descriptor, so its numbers are 4, 5, ..., and slot k holds 4+k or 0 in every list
that any server ever wrote (`ListInv`). What a child has open it inherited from that
parent, and it lies in the part of the list that is filled (`ChildInv`). Between its
two reads of an entry a child is before the last slot, even if the entry has become
0 meanwhile (`HearInv`, `TestKeeps`). Without `NothingFrom`, that the parent has
nothing open from the next number on, the next descriptor would not be known.

*Ping.* `SeqsConsecutive` is inductive once fewer than `MaxSent` packets are known to
have gone out while one is on its way (`SendInv`). That the short stays the remainder
of their number over a wrap is not inductive as it stands for the provers: `Wrapped`
says how often it has wrapped, and `Remainder` and `RemainderStep` do the arithmetic.
`StatisticsFinal` follows from
`ThreadsInv`: who is past a join has joined a thread that has ended.

### The smaller programs

`ProgramsProofs` proves each property of `programs` for its twelve programs. Exactly
one program runs (`OneRuns`), so each has an invariant of its own. For the epoll
server and the threaded chat the proofs are those of their modules: every step
of the instance is a step of the module that was proved about (`EpollRuns`,
`ChatRuns`).

| Theorem | Property | Invariant and why it is needed |
|---|---|---|
| `TypeCorrect` | `TypeOK` | from the invariants below |
| `EventsCorrect` | `EventsTrue` | carried over |
| `SlotCorrect`, `HearCorrect` | `OwnSlot`, `AllHear` | carried over |
| `HandlesCorrect` | `HandlesOpen` | `PoolInv`: every entry that an event was ever put in holds a watched descriptor; those that tasks point to are among them, however often they are overwritten, as this server closes nothing |
| `ChildrenCorrect` | `ChildrenApart` | `EchoInv`: a child that comes back to the accept loop has closed the listening socket |
| `QueueCorrect` | `FreshQueue` | `MsgInv`: one process at a time has got past `msgget` |
| `ResultsCorrect` | `ResultsRight` | `LockInv`: who stores holds the mutex and has loaded what the counter still is; `PipeInv`: bytes written, in the pipe and read add up; `UdpInv`: every datagram is for the client that made it |
| `DataCorrect` | `DataSound` | `ListInv`, `BookInv` and `SortInv`, below |
| `ListImplements` | `RefinesSequence` | `ListInv` |
| `BookImplements` | `RefinesBook` | `BookInv` |

*Lists.* `Listing(s, n, ...)` says that s is the list: it starts with the header,
follows the pointers, ends with NULL, has each cell once, and contains exactly
the cells that are allocated. The programs walk with a recursive function
(`Cells!Walk`); `WalkListing` proves that the walk is s, by the least index where it
would differ. `ListingInsert` and `ListingDelete` say what linking in and unlinking a
cell does to s, and serve both programs. `BookInv` adds that no two cells have
the same name, without which `findPerson` would not determine a number.
For the refinement `ListStands` and `BookStands` say what sequence and what function a
list stands for (`Deleted` and `Inserted` describe the two operations on
sequences), and each step of the program is a step of `SeqList` or `PhoneBook`, or
leaves it as it is (`ListRefines`, `BookRefines`).

*Quick sort.* The inner loops have no test of the bounds. They stay inside since
an element stops them: at first the pivot itself, and when the index has passed
the middle, an element that an exchange has put there (`UpStops`, `DownStops` in
`SortInv`). The exchange may move the pivot, and the two must hold for the new one.

### Only model-checked

Liveness, as the prover can treat neither fairness nor ENABLED: `Served`,
`ProducerProgress`, `AdminTerminates`, `PendingAnswered`, `Stops`, `DataRead`,
`Answered` and `Ends`. With `Ends` goes that `main`'s array is sorted
(`MainSorted`), which is one computation. What a recursive definition computes is
proved where a least counterexample leads to a contradiction, as for the walk; the
induction theorems of the library cannot be used.


## 7. What is not modelled

- The path of `threadpool_create` on which `malloc` or a `pthread_*_init` fails
  (69-71): it calls `threadpool_free` on a structure that is partly initialised.
  A failing `pthread_create` is modelled, `MaxFailures` times.
- What a thread does with the memory of a pool after it was freed. The state
  `"freed"` and `AllWorkersJoined` say that it can happen.
- A task's argument that is freed while the task runs: the callers decide.
- The threaded chat with more clients than `cs_fds` has room for (undefined). The
  `memset` of line 76, which clears 512 bytes behind `readbuf`, is modelled by two
  outcomes, nothing and the end of the process; a build that places another variable
  there is not.
- The contents of messages and packets, addresses, times, printing.
- The size of the pool in `EpollPool`: a fixed number of workers, so that what the
  admin thread does there is `ThreadPool`'s part. Which words clients type.
- `sem/*.c`, `share_mem/main.c`: `semget` is asked for a set of 0 semaphores, and
  `Sem_P` adds while `Sem_V` subtracts, without waiting. The child may read the
  shared memory before the parent has written it; no text promises otherwise.
  `share_mem/main.c` computes the key of its segment from the same path and number as
  `chat/server.c`, with the same size, so that it writes its 13 bytes over the chat's
  list when both are used on one machine. `ForkChat` lets only its servers write.
  `signal/main.c` ends at its first `signal()`, refused for `SIGSTOP`.
- `socket_opt/example.c` ends when its first `setsockopt` succeeds (the test
  `err != -1` is inverted), so that its server is never reached.
- `CRC.c`: a CRC-16/MODBUS stored where ICMP has the Internet checksum. Hosts
  that verify it do not answer; in `Ping` any host may not answer.
- Programs that only show a system call, a library function or an expression:
  most of `learn_c/`, `linux_file/`, `makefile/`, `gcc/`, `kernel/`, the rest of
  `process/`, `thread/example.c`, broadcast, ARP and UNIX socket examples. They
  keep no state of their own.

## 8. Plan

Done: the models of all programs that keep state, their runs, and a theorem for
every safety property that a run checks. To come, in order:

1. Proofs: more that is true and no run asks, such as `NoneForgotten` of the select
   server under the condition that nobody has left, and the least that liveness
   needs: that `pool_fixed` has no state in which every thread waits.
2. Growth of the models: more clients than slots in the threaded chat up to the
   write behind the array; full buffers in `ForkChat`.
