------------------------------ MODULE EpollServer ------------------------------
(***************************************************************************)
(* The epoll server of socket/io_model/epoll.c: one thread, nonblocking    *)
(* sockets, level-triggered events, and an answer to each message for the  *)
(* client that sent it.                                                    *)
(*                                                                         *)
(* The clients act between any two of its system calls, so an event may be *)
(* old when the loop comes to it.  cur_fd only grows: the server accepts   *)
(* MAX_EVENTS - 1 clients in its life, and takes the next connection       *)
(* request for a message, whose failing recv() makes it close its own      *)
(* listening socket.                                                       *)
(***************************************************************************)
EXTENDS Sockets

CONSTANT MaxEvents    \* MAX_EVENTS of epoll.c

EpollAssumption == MaxEvents \in Nat \ {0}

VARIABLES
    pc,           \* "wait": in epoll_wait; "events", "answer": in the loop
    watch,        \* the kernel's interest list of epoll_fd
    events,       \* the events that the loop has not come to
    cur_fd,
    cs,           \* the descriptor that server_handle answers
    listening     \* is ss open?

server == <<pc, watch, events, cur_fd, cs, listening>>
vars   == <<server, kernel>>

TypeOK ==
    /\ pc \in {"wait", "events", "answer", "ended"}
    /\ watch \subseteq Fds \union {ss} /\ events \subseteq Fds \union {ss}
    /\ cur_fd \in 1 .. MaxEvents
    /\ cs \in Fds \union {NoFd}
    /\ listening \in BOOLEAN
    /\ KernelTypeOK

Init ==
    /\ pc = "wait"
    /\ watch = {ss} /\ events = {} /\ cur_fd = 1
    /\ cs = NoFd /\ listening = TRUE
    /\ KernelInit

-------------------------------------------------------------------------------
(* epoll_wait returns at most cur_fd of the descriptors that are ready; with *)
(* none it times out and is called again.  A signal makes it fail.           *)

Ready == {f \in watch : Readable(f)}

Wait ==
    /\ pc = "wait" /\ Ready # {}
    /\ \E E \in SUBSET Ready :
         /\ Cardinality(E) = IF Cardinality(Ready) < cur_fd THEN Cardinality(Ready) ELSE cur_fd
         /\ events' = E
    /\ pc' = "events"
    /\ UNCHANGED <<watch, cur_fd, cs, listening, kernel>>

WaitFails ==
    /\ pc = "wait"
    /\ pc' = "ended"
    /\ UNCHANGED <<watch, events, cur_fd, cs, listening, kernel>>

-------------------------------------------------------------------------------
(* The loop over the events *)

EventsDone ==
    /\ pc = "events" /\ events = {}
    /\ pc' = "wait"
    /\ UNCHANGED <<watch, events, cur_fd, cs, listening, kernel>>

Request   == pc = "events" /\ ss \in events
NewClient == Request /\ cur_fd < MaxEvents

AcceptThen(next) ==
    /\ \E c \in Pending : AcceptFrom(c)
    /\ watch' = watch \union {NewFd}
    /\ cur_fd' = cur_fd + 1
    /\ events' = next
    /\ UNCHANGED <<pc, cs, listening>>

AcceptUnbounded == \* mutant: cur_fd is not compared with MAX_EVENTS
    Request /\ AcceptThen(events \ {ss})

AcceptAtOnce == \* mutant: continue is missing, the next event is taken for read
    NewClient /\ AcceptThen((events \ {ss}) \union {NewFd})

Accept == NewClient /\ AcceptThen(events \ {ss})

\* accept() fails: the program ends.
AcceptFails ==
    /\ NewClient
    /\ pc' = "ended"
    /\ UNCHANGED <<watch, events, cur_fd, cs, listening, kernel>>

\* server_handle(ss): recv() fails on a listening socket, which is closed;
\* the clients that wait for an accept are reset.
CloseListening ==
    /\ Request /\ cur_fd >= MaxEvents
    /\ listening' = FALSE
    /\ watch' = watch \ {ss} /\ events' = events \ {ss}
    /\ sock' = [c \in Clients |-> IF c \in Pending THEN "closed" ELSE sock[c]]
    /\ peer' = [c \in Clients |-> IF c \in Pending THEN "up" ELSE peer[c]]
    /\ inbox' = [c \in Clients |-> IF c \in Pending THEN 0 ELSE inbox[c]]
    /\ UNCHANGED <<pc, cur_fd, cs, fd, outbox>>

\* server_handle(f): recv returns 0 or an error, EAGAIN if there is nothing to
\* read.
Drop(f) ==
    /\ inbox[ClientOf(f)] = 0
    /\ Close(ClientOf(f))
    /\ watch' = watch \ {f}
    /\ UNCHANGED <<pc, cur_fd, cs, listening>>

\* server_handle(f): a message; it is answered next.
Receive(f) ==
    /\ RecvFrom(ClientOf(f))
    /\ cs' = f /\ pc' = "answer"
    /\ UNCHANGED <<watch, cur_fd, listening>>

\* The message is "bye": the descriptor is closed, the answer sent to it fails.
Bye(f) ==
    /\ inbox[ClientOf(f)] > 0
    /\ Close(ClientOf(f))
    /\ watch' = watch \ {f}
    /\ UNCHANGED <<pc, cur_fd, cs, listening>>

Handle ==
    /\ pc = "events"
    /\ \E f \in events \ {ss} :
         /\ events' = events \ {f}
         /\ Receive(f) \/ Bye(f) \/ Drop(f)

\* send() does not block: what does not fit is lost.
Lost(c) == peer[c] = "up" /\ outbox[c] = SendCap

AnswerWhen(gone) ==
    /\ pc = "answer"
    /\ \/ SendTo(ClientOf(cs)) /\ pc' = "events"
       \/ gone /\ pc' = "events" /\ UNCHANGED kernel
       \/ Broken(ClientOf(cs)) /\ pc' \in {"events", "ended"} /\ UNCHANGED kernel
    /\ cs' = NoFd
    /\ UNCHANGED <<watch, events, cur_fd, listening>>

AnswerBlocks == AnswerWhen(FALSE) \* mutant: set_no_blocking is not called
Answer       == AnswerWhen(Lost(ClientOf(cs)))

-------------------------------------------------------------------------------
Server ==
    \/ Wait \/ WaitFails \/ EventsDone \/ Accept \/ AcceptFails
    \/ CloseListening \/ Handle \/ Answer

Client(c) ==
    /\ \/ pc # "ended" /\ listening /\ Connect(c)
       \/ ClientStep(c)
    /\ UNCHANGED server

Next == Server \/ \E c \in Clients : Client(c)

Spec == Init /\ [][Next]_vars

\* The server's thread runs.  Nothing is asked of the clients.
Fairness == WF_vars(Server)
FairSpec == Spec /\ Fairness

-------------------------------------------------------------------------------
(* Safety *)

\* cur_fd, the size that epoll_wait is given, leaves room for an event of
\* every watched descriptor, so that none is put off by the others.
RoomForEvents == pc # "ended" => Cardinality(watch) <= cur_fd

\* What epoll_wait reported is still true when the loop comes to it: the
\* descriptor is open, means the same connection, and recv() has an answer.
\* A client is therefore never closed (line 112) because its recv() would
\* have had to wait.
EventsTrue == pc # "ended" => \A f \in events : Readable(f)

-------------------------------------------------------------------------------
(* Liveness, of FairSpec *)

\* What a client sends is read, whatever the other clients do: no client that
\* does not read can stop this server, which never waits in send().
DataRead ==
    \A c \in Clients :
        sock[c] = "accepted" /\ inbox[c] > 0 ~> inbox[c] = 0 \/ pc = "ended"
===============================================================================
