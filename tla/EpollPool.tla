------------------------------ MODULE EpollPool ------------------------------
(***************************************************************************)
(* The server of practise/epoll_thread_model.c: the main thread waits with *)
(* epoll_wait and hands each event to the thread pool as a task, whose     *)
(* argument is the address of a slot of events.  The next epoll_wait       *)
(* overwrites the slots, whether their tasks have run or not: a worker     *)
(* reads its slot when it calls recv, and again when it calls send.        *)
(*                                                                         *)
(* The pool is the bounded queue that ThreadPool implements.  A client is  *)
(* practise/chat/client.c, which connects to this server's port.           *)
(*                                                                         *)
(* No descriptor is ever closed.  A task that finds nothing to read ends   *)
(* its worker with pthread_exit, and the pool does not learn of it.        *)
(***************************************************************************)
EXTENDS Sockets, Sequences

CONSTANTS
    MaxClient,    \* MAX_CLIENT
    QueueMax,     \* queue_max_num of threadpool_create
    Workers       \* how many threads the pool comes to have

EpollPoolAssumption ==
    MaxClient \in Nat \ {0} /\ QueueMax \in Nat \ {0} /\ Workers \in Nat \ {0}

Slots == 0 .. MaxClient-1     \* cur_fd <= MAX_CLIENT: no more are filled
Tasks == 1 .. QueueMax        \* the ring goes round once: see AddFrees

VARIABLES
    pc,                    \* where main is, "ended" when the process has
    watch,                 \* the interest list of epollfd
    events, i, wait_fds,   \* what epoll_wait returned
    cur_fd,
    arg,                   \* the slot that each task's argument points to
    stage,                 \* what server_handle will do next in each task
    pending, held, accepted, closed    \* the pool

Queue == INSTANCE TaskQueue WITH Capacity <- QueueMax

loop == <<watch, events, i, wait_fds, cur_fd>>
pool == <<arg, stage, pending, held, accepted, closed>>
vars == <<pc, loop, pool, kernel>>

Up == pc # "ended"

TypeOK ==
    /\ pc \in {"wait", "events", "ended"}
    /\ watch \subseteq Fds \union {ss}
    /\ events \in [Slots -> Fds \union {ss, NoFd}]
    /\ i \in 0 .. MaxClient /\ wait_fds \in 0 .. MaxClient /\ cur_fd \in 1 .. MaxClient
    /\ arg \in [Tasks -> Slots]
    /\ stage \in [Tasks -> {"none", "recv", "send", "sent", "exited"}]
    /\ pending \in Seq(Tasks) /\ held \subseteq Tasks /\ accepted \in 0 .. QueueMax
    /\ KernelTypeOK

Init ==
    /\ pc = "wait" /\ watch = {ss} /\ cur_fd = 1
    /\ events = [k \in Slots |-> NoFd] /\ i = 0 /\ wait_fds = 0
    /\ arg = [t \in Tasks |-> 0] /\ stage = [t \in Tasks |-> "none"]
    /\ Queue!Init
    /\ KernelInit

-------------------------------------------------------------------------------
(* The main thread *)

Ready == {f \in watch : Readable(f)}

\* epoll_wait fills the first slots with ready descriptors, cur_fd at most;
\* with none it times out and is called again.
Wait ==
    /\ pc = "wait" /\ Ready # {}
    /\ wait_fds' = Smallest({cur_fd, Cardinality(Ready)})
    /\ \E reported \in [0 .. wait_fds'-1 -> Ready] :
         /\ \A j, k \in DOMAIN reported : reported[j] = reported[k] => j = k
         /\ events' = [k \in Slots |-> IF k < wait_fds' THEN reported[k] ELSE events[k]]
    /\ i' = 0 /\ pc' = "events"
    /\ UNCHANGED <<watch, cur_fd, pool, kernel>>

\* A signal that stops and continues the process makes epoll_wait fail.
WaitFails ==
    /\ pc = "wait" /\ pc' = "ended"
    /\ UNCHANGED <<loop, pool, kernel>>

EventsDone ==
    /\ pc = "events" /\ i = wait_fds /\ pc' = "wait"
    /\ UNCHANGED <<loop, pool, kernel>>

NewClient == events[i] = ss /\ cur_fd < MaxClient
Event     == pc = "events" /\ i < wait_fds /\ i' = i + 1

add_fd_epoll(f) == watch' = watch \union {f}

Accept ==
    /\ Event /\ NewClient
    /\ \E c \in Pending : AcceptFrom(c)
    /\ add_fd_epoll(NewFd) /\ cur_fd' = cur_fd + 1
    /\ UNCHANGED <<pc, events, wait_fds, pool>>

\* accept() fails: the loop goes on.
AcceptFails ==
    /\ Event /\ NewClient
    /\ UNCHANGED <<pc, watch, events, wait_fds, cur_fd, pool, kernel>>

\* Once cur_fd is MAX_CLIENT a connection request is a task like any other.
AddTask ==
    /\ Event /\ ~NewClient
    /\ Queue!Accept /\ accepted < QueueMax
    /\ arg' = [arg EXCEPT ![accepted + 1] = i]
    /\ UNCHANGED <<pc, watch, events, wait_fds, cur_fd, stage, kernel>>

\* threadpool_add_task frees the argument it finds in the slot of the ring: an
\* uninitialised one in the first round, which may be NULL, then a pointer
\* into main's array, which glibc does not survive.
AddFrees ==
    /\ pc = "events" /\ i < wait_fds /\ ~NewClient
    /\ Len(pending) < QueueMax
    /\ pc' = "ended"
    /\ UNCHANGED <<loop, pool, kernel>>

-------------------------------------------------------------------------------
(* The workers: a task that has exited keeps its worker. *)

At(t, s) == Up /\ stage[t] = s
Fd(t)    == events[arg[t]]               \* *cs

TakeTask ==
    /\ Up /\ Cardinality(held) < Workers
    /\ Queue!HandOut
    /\ stage' = [stage EXCEPT ![Head(pending)] = "recv"]
    /\ UNCHANGED <<pc, loop, arg, kernel>>

Recv(t) ==
    /\ At(t, "recv") /\ Fd(t) # ss
    /\ RecvFrom(ClientOf(Fd(t)))
    /\ stage' = [stage EXCEPT ![t] = "send"]
    /\ UNCHANGED <<pc, loop, arg, pending, held, accepted, closed>>

RecvCloses(t) == \* mutant: the descriptor is closed before pthread_exit
    /\ At(t, "recv") /\ Fd(t) # ss /\ inbox[ClientOf(Fd(t))] = 0
    /\ Close(ClientOf(Fd(t)))
    /\ stage' = [stage EXCEPT ![t] = "exited"]
    /\ UNCHANGED <<pc, loop, arg, pending, held, accepted, closed>>

\* size <= 0: the end of the input, an error, EAGAIN, or a listening socket.
RecvNothing(t) ==
    /\ At(t, "recv") /\ (Fd(t) # ss => inbox[ClientOf(Fd(t))] = 0)
    /\ stage' = [stage EXCEPT ![t] = "exited"]
    /\ UNCHANGED <<pc, loop, arg, pending, held, accepted, closed, kernel>>

\* set_noblock: send() does not wait, what does not fit is lost.
Lost(c) == peer[c] = "up" /\ outbox[c] = SendCap

Send(t) ==
    /\ At(t, "send") /\ Fd(t) # ss
    /\ \/ SendTo(ClientOf(Fd(t)))
       \/ Lost(ClientOf(Fd(t))) /\ UNCHANGED kernel
    /\ Queue!Finish /\ held' = held \ {t}
    /\ stage' = [stage EXCEPT ![t] = "sent"]
    /\ UNCHANGED <<pc, loop, arg>>

\* A connection that was reset, or by now a listening socket: SIGPIPE.
SendKills(t) ==
    /\ At(t, "send") /\ (Fd(t) # ss => Broken(ClientOf(Fd(t))))
    /\ pc' = "ended"
    /\ UNCHANGED <<loop, pool, kernel>>

-------------------------------------------------------------------------------
(* The clients: practise/chat/client.c, which reads and writes in two threads *)

Connects(c)  == Connect(c)
Types(c)     == ClientSend(c)
Displays(c)  == ClientRead(c)
Interrupt(c) == HangUp(c) \/ ResetArrives(c)

Client(c) ==
    /\ Up
    /\ Connects(c) \/ Types(c) \/ Displays(c) \/ Interrupt(c)
    /\ UNCHANGED <<pc, loop, pool>>

-------------------------------------------------------------------------------
Main      == Wait \/ WaitFails \/ EventsDone \/ Accept \/ AcceptFails \/ AddTask \/ AddFrees
Worker(t) == Recv(t) \/ RecvNothing(t) \/ Send(t) \/ SendKills(t)

Next ==
    \/ Main \/ TakeTask
    \/ \E t \in Tasks : Worker(t)
    \/ \E c \in Clients : Client(c)

Spec == Init /\ [][Next]_vars

-------------------------------------------------------------------------------
\* However often a slot has been overwritten since, by the descriptor of
\* another client or by the listening socket, a task that is queued or runs
\* finds an open descriptor in it that epollfd watches: not the number of a
\* client that another worker has closed, nor one no slot was given.
HandlesOpen == Up =>
    \A t \in Tasks :
        (t <= accepted /\ stage[t] \in {"none", "recv", "send"}) =>
            Fd(t) \in watch /\ (Fd(t) = ss \/ Fd(t) \in OpenFds)
===============================================================================
