-------------------------- MODULE EpollServerProofs --------------------------
(***************************************************************************)
(* Theorems about EpollServer, for every set of clients, every MAX_EVENTS  *)
(* and buffers of any size.                                                *)
(***************************************************************************)
EXTENDS EpollServer, SocketsProofs

\* The descriptor that is being answered is open, and cur_fd counts at least
\* what is watched.
ServerInv ==
    /\ TypeOK /\ KernelInv
    /\ pc = "answer" => cs \in OpenFds
    /\ Cardinality(watch) <= cur_fd
    /\ EventsTrue

-------------------------------------------------------------------------------
(* Descriptors *)

\* What is watched can be counted.
LEMMA WatchFinite ==
  ASSUME ServerInv, EpollAssumption
  PROVE  /\ IsFiniteSet(watch) /\ Cardinality(watch) \in Nat
         /\ cur_fd \in Nat /\ MaxEvents \in Nat
<1>1. IsFiniteSet(Fds \union {ss})
  BY FdsType, FS_AddElement
<1>2. watch \in SUBSET (Fds \union {ss})
  BY DEF ServerInv, TypeOK
<1> QED
  BY <1>1, <1>2, FS_Subset, FS_CardinalityType DEF ServerInv, TypeOK, EpollAssumption

\* A descriptor that stays open means the same client.
LEMMA SameClient ==
  ASSUME KernelInv, KernelInv', NEW f \in OpenFds, fd'[ClientOf(f)] = f
  PROVE  ClientOf(f)' = ClientOf(f) /\ f \in OpenFds'
<1>1. ClientOf(f) \in Clients /\ f # NoFd
  BY OpenFdClient DEF OpenFds
<1>2. \A c \in Clients : fd'[c] = f => c = ClientOf(f)
  BY <1>1 DEF KernelInv
<1> QED
  BY <1>1, <1>2 DEF ClientOf, OpenFds

\* Whatever waits to be read, or accepted, waits until it is.
LEMMA ReadableStays ==
  ASSUME ServerInv, KernelInv', NEW f \in Fds, Readable(f),
         fd'[ClientOf(f)] = f,
         inbox'[ClientOf(f)] >= inbox[ClientOf(f)],
         peer[ClientOf(f)] # "up" => peer'[ClientOf(f)] # "up"
  PROVE  Readable(f)'
<1>1. f # ss /\ f \in OpenFds
  BY FdsType DEF Readable
<1>2. ClientOf(f)' = ClientOf(f) /\ f \in OpenFds' /\ ClientOf(f) \in Clients
  BY <1>1, SameClient, OpenFdClient DEF ServerInv
<1>3. inbox[ClientOf(f)] \in Nat /\ inbox'[ClientOf(f)] \in Nat
  BY <1>2, SocketsAssumption DEF ServerInv, KernelInv, KernelTypeOK
<1>4. inbox[ClientOf(f)] > 0 \/ peer[ClientOf(f)] # "up"
  BY <1>1 DEF Readable
<1>5. inbox'[ClientOf(f)] > 0 \/ peer'[ClientOf(f)] # "up"
  BY <1>3, <1>4
<1> QED
  BY <1>1, <1>2, <1>5 DEF Readable

\* What is reported about the clients is reported about open descriptors.
LEMMA ReportedOpen ==
  ASSUME ServerInv, pc # "ended", NEW f \in events, f # ss
  PROVE  /\ f \in Fds /\ f \in OpenFds /\ Readable(f)
         /\ ClientOf(f) \in Clients /\ fd[ClientOf(f)] = f
<1>1. Readable(f) /\ f \in Fds
  BY DEF ServerInv, EventsTrue, TypeOK
<1>2. f \in OpenFds
  BY <1>1 DEF Readable
<1> QED
  BY <1>1, <1>2, OpenFdClient DEF ServerInv

-------------------------------------------------------------------------------
(* The steps *)

\* epoll_wait reports what is ready.
LEMMA WaitKeeps ==
  ASSUME ServerInv, Wait \/ WaitFails \/ EventsDone \/ AcceptFails
  PROVE  ServerInv'
<1>1. /\ UNCHANGED <<watch, cur_fd, cs, listening, sock, peer, fd, inbox, outbox>>
      /\ pc' \in {"events", "ended", "wait"}
      /\ events' \subseteq watch \union events
  BY DEF Wait, WaitFails, EventsDone, AcceptFails, kernel, Ready, NewClient, Request
<1>2. \A f \in events' : pc' # "ended" => Readable(f)
  BY DEF Wait, WaitFails, EventsDone, AcceptFails, Ready
<1>3. KernelInv' /\ TypeOK'
  BY <1>1 DEF KernelInv, KernelTypeOK, ServerInv, TypeOK
<1>4. \A f : Readable(f)' = Readable(f)
  BY <1>1 DEF Readable, OpenFds, ClientOf, Pending
<1> QED
  BY <1>1, <1>2, <1>3, <1>4 DEF ServerInv, EventsTrue

\* A client is accepted: nobody else has its descriptor, and its event is done.
LEMMA AcceptStepKeeps ==
  ASSUME ServerInv, EpollAssumption, Accept
  PROVE  ServerInv'
<1>1. PICK c \in Pending : AcceptFrom(c)
  BY DEF Accept, AcceptThen
<1>2. /\ pc = "events" /\ cur_fd < MaxEvents
      /\ watch' = watch \union {NewFd} /\ cur_fd' = cur_fd + 1
      /\ events' = events \ {ss}
      /\ UNCHANGED <<pc, cs, listening>>
  BY DEF Accept, AcceptThen, NewClient, Request
<1>3. c \in Clients /\ sock[c] = "pending" /\ fd[c] = NoFd
  BY <1>1 DEF Pending, ServerInv, KernelInv
<1>4. KernelInv' /\ OpenFds' = OpenFds \union {NewFd} /\ NewFd \in Fds
  BY <1>1, <1>3, AcceptKeeps, NewFdFree DEF ServerInv
<1>5. cur_fd' \in 1 .. MaxEvents /\ Cardinality(watch') <= cur_fd'
  <2>1. Cardinality(watch') <= Cardinality(watch) + 1 /\ Cardinality(watch') \in Nat
    <3>1. Cardinality(watch \union {NewFd}) =
             IF NewFd \in watch THEN Cardinality(watch) ELSE Cardinality(watch) + 1
      BY WatchFinite, FS_AddElement
    <3> QED
      BY <1>2, <3>1, WatchFinite
  <2> QED
    BY <1>2, <2>1, WatchFinite DEF ServerInv, TypeOK
<1>6. TypeOK'
  BY <1>2, <1>4, <1>5 DEF ServerInv, TypeOK, KernelInv
<1>7. \A f \in events' : Readable(f)'
  <2> SUFFICES ASSUME NEW f \in events \ {ss}
               PROVE  Readable(f)'
    BY <1>2
  <2>1. /\ f \in Fds /\ Readable(f) /\ f \in OpenFds
        /\ ClientOf(f) \in Clients /\ fd[ClientOf(f)] = f
    BY <1>2, ReportedOpen
  <2>2. ClientOf(f) # c
    BY <1>3, <2>1 DEF OpenFds
  <2>3. fd'[ClientOf(f)] = f /\ UNCHANGED <<inbox, peer>>
    BY <1>1, <2>1, <2>2 DEF AcceptFrom, ServerInv, KernelInv, KernelTypeOK
  <2>4. inbox'[ClientOf(f)] >= inbox[ClientOf(f)]
    BY <2>1, <2>3, SocketsAssumption DEF ServerInv, KernelInv, KernelTypeOK
  <2> QED
    BY <1>4, <2>1, <2>3, <2>4, ReadableStays
<1> QED
  BY <1>2, <1>4, <1>5, <1>6, <1>7 DEF ServerInv, EventsTrue

\* The listening socket is closed: no descriptor of a client is.
LEMMA CloseListeningKeeps ==
  ASSUME ServerInv, EpollAssumption, CloseListening
  PROVE  ServerInv'
<1>1. /\ pc = "events" /\ listening' = FALSE
      /\ watch' = watch \ {ss} /\ events' = events \ {ss}
      /\ UNCHANGED <<pc, cur_fd, cs, fd, outbox>>
      /\ sock' = [c \in Clients |-> IF c \in Pending THEN "closed" ELSE sock[c]]
      /\ peer' = [c \in Clients |-> IF c \in Pending THEN "up" ELSE peer[c]]
      /\ inbox' = [c \in Clients |-> IF c \in Pending THEN 0 ELSE inbox[c]]
  BY DEF CloseListening, Request
<1>2. KernelInv' /\ OpenFds' = OpenFds
  <2>1. KernelTypeOK'
    BY <1>1, SocketsAssumption DEF ServerInv, KernelInv, KernelTypeOK
  <2>2. \A c \in Clients : sock'[c] = "accepted" <=> sock[c] = "accepted"
    BY <1>1 DEF Pending
  <2> QED
    BY <1>1, <2>1, <2>2, KernelSame DEF ServerInv
<1>3. TypeOK'
  BY <1>1, <1>2 DEF ServerInv, TypeOK, KernelInv
<1>4. Cardinality(watch') <= cur_fd
  <2>1. Cardinality(watch \ {ss}) <= Cardinality(watch) /\ Cardinality(watch \ {ss}) \in Nat
    BY WatchFinite, FS_Subset, FS_CardinalityType
  <2> QED
    BY <1>1, <2>1, WatchFinite DEF ServerInv
<1>5. \A f \in events' : Readable(f)'
  <2> SUFFICES ASSUME NEW f \in events \ {ss}
               PROVE  Readable(f)'
    BY <1>1
  <2>1. /\ f \in Fds /\ Readable(f) /\ f \in OpenFds
        /\ ClientOf(f) \in Clients /\ fd[ClientOf(f)] = f
    BY <1>1, ReportedOpen
  <2>2. ClientOf(f) \notin Pending
    BY <2>1 DEF Pending, OpenFds, ServerInv, KernelInv
  <2>3. /\ fd'[ClientOf(f)] = f
        /\ inbox'[ClientOf(f)] = inbox[ClientOf(f)] /\ peer'[ClientOf(f)] = peer[ClientOf(f)]
    BY <1>1, <2>1, <2>2
  <2>4. inbox'[ClientOf(f)] >= inbox[ClientOf(f)]
    BY <2>1, <2>3, SocketsAssumption DEF ServerInv, KernelInv, KernelTypeOK
  <2> QED
    BY <1>2, <2>1, <2>3, <2>4, ReadableStays
<1> QED
  BY <1>1, <1>2, <1>3, <1>4, <1>5 DEF ServerInv, EventsTrue

\* The event of one client is handled: those of the others stay true.
LEMMA HandleKeeps ==
  ASSUME ServerInv, EpollAssumption, Handle
  PROVE  ServerInv'
<1>1. PICK f \in events \ {ss} : events' = events \ {f} /\ (Receive(f) \/ Bye(f) \/ Drop(f))
  BY DEF Handle
<1>2. pc = "events"
  BY DEF Handle
<1> DEFINE c == ClientOf(f)
<1>3. f \in Fds /\ f \in OpenFds /\ c \in Clients /\ fd[c] = f
  BY <1>1, <1>2, ReportedOpen
<1>4. /\ RecvFrom(c) \/ Close(c)
      /\ KernelInv' /\ OpenFds' \subseteq OpenFds
      /\ RecvFrom(c) => OpenFds' = OpenFds
  <2>1. RecvFrom(c) => KernelInv' /\ OpenFds' = OpenFds
    BY <1>3, TransferKeeps DEF ServerInv
  <2>2. Close(c) => KernelInv' /\ OpenFds' = OpenFds \ {f}
    BY <1>3, CloseKeeps DEF ServerInv
  <2>3. RecvFrom(c) \/ Close(c)
    BY <1>1 DEF Receive, Bye, Drop
  <2> QED
    BY <2>1, <2>2, <2>3
<1>5. /\ watch' \in {watch, watch \ {f}} /\ UNCHANGED <<cur_fd, listening>>
      /\ \/ RecvFrom(c) /\ cs' = f /\ pc' = "answer"
         \/ cs' = cs /\ pc' = pc
  BY <1>1 DEF Receive, Bye, Drop
<1>6. TypeOK'
  BY <1>1, <1>3, <1>4, <1>5 DEF ServerInv, TypeOK, KernelInv
<1>7. Cardinality(watch') <= cur_fd'
  <2>1. Cardinality(watch \ {f}) <= Cardinality(watch) /\ Cardinality(watch \ {f}) \in Nat
    BY WatchFinite, FS_Subset, FS_CardinalityType
  <2> QED
    BY <1>5, <2>1, WatchFinite DEF ServerInv
<1>8. \A g \in events' : Readable(g)'
  <2>1. ASSUME ss \in events
        PROVE  Readable(ss)'
    <3>1. Pending' = Pending
      <4>1. \A d \in Clients : sock'[d] = "pending" <=> sock[d] = "pending"
        <5>1. sock[c] = "accepted"
          BY <1>3, FdsType DEF ServerInv, KernelInv
        <5> QED
          BY <1>3, <1>4, <5>1 DEF RecvFrom, Close, ServerInv, KernelInv, KernelTypeOK
      <4> QED
        BY <4>1 DEF Pending
    <3> QED
      BY <1>2, <2>1, <3>1 DEF Readable, ServerInv, EventsTrue
  <2>2. ASSUME NEW g \in events \ {ss, f}
        PROVE  Readable(g)'
    <3>1. g \in Fds /\ Readable(g) /\ ClientOf(g) \in Clients /\ fd[ClientOf(g)] = g
      BY <1>2, ReportedOpen
    <3>2. ClientOf(g) # c
      BY <1>3, <3>1
    <3>3. /\ fd'[ClientOf(g)] = g
          /\ inbox'[ClientOf(g)] = inbox[ClientOf(g)] /\ peer'[ClientOf(g)] = peer[ClientOf(g)]
      BY <1>3, <1>4, <3>1, <3>2 DEF RecvFrom, Close, ServerInv, KernelInv, KernelTypeOK
    <3>4. inbox'[ClientOf(g)] >= inbox[ClientOf(g)]
      BY <3>1, <3>3, SocketsAssumption DEF ServerInv, KernelInv, KernelTypeOK
    <3> QED
      BY <1>4, <3>1, <3>3, <3>4, ReadableStays
  <2> QED
    BY <1>1, <2>1, <2>2
<1>9. pc' = "answer" => cs' \in OpenFds'
  BY <1>2, <1>3, <1>4, <1>5
<1> QED
  BY <1>4, <1>6, <1>7, <1>8, <1>9 DEF ServerInv, EventsTrue

\* send() never makes a client unreadable.
LEMMA AnswerKeeps ==
  ASSUME ServerInv, Answer
  PROVE  ServerInv'
<1> DEFINE c == ClientOf(cs)
<1>1. /\ pc = "answer" /\ pc' \in {"events", "ended"} /\ cs' = NoFd
      /\ SendTo(c) \/ UNCHANGED kernel
      /\ UNCHANGED <<watch, events, cur_fd, listening>>
  BY DEF Answer, AnswerWhen
<1>2. c \in Clients
  BY <1>1, OpenFdClient DEF ServerInv
<1>3. /\ KernelInv' /\ OpenFds' = OpenFds /\ UNCHANGED <<sock, fd, inbox>>
      /\ \A d \in Clients : peer[d] # "up" => peer'[d] # "up"
  <2>1. CASE SendTo(c)
    BY <1>2, <2>1, TransferKeeps DEF ServerInv, SendTo, KernelInv, KernelTypeOK
  <2>2. CASE UNCHANGED kernel
    BY <2>2 DEF kernel, ServerInv, KernelInv, KernelTypeOK, OpenFds
  <2> QED
    BY <1>1, <2>1, <2>2
<1>4. TypeOK'
  BY <1>1, <1>3 DEF ServerInv, TypeOK, KernelInv
<1>5. \A f \in events : Readable(f)'
  <2>1. ASSUME ss \in events
        PROVE  Readable(ss)'
    BY <1>1, <1>3, <2>1 DEF Readable, Pending, ServerInv, EventsTrue
  <2>2. ASSUME NEW f \in events \ {ss}
        PROVE  Readable(f)'
    <3>1. f \in Fds /\ Readable(f) /\ ClientOf(f) \in Clients /\ fd[ClientOf(f)] = f
      BY <1>1, ReportedOpen
    <3>2. inbox'[ClientOf(f)] >= inbox[ClientOf(f)]
      BY <1>3, <3>1, SocketsAssumption DEF ServerInv, KernelInv, KernelTypeOK
    <3> QED
      BY <1>3, <3>1, <3>2, ReadableStays
  <2> QED
    BY <2>1, <2>2
<1> QED
  BY <1>1, <1>3, <1>4, <1>5 DEF ServerInv, EventsTrue

\* Nothing that a client does takes back what epoll_wait reported.
LEMMA ClientStepKeeps ==
  ASSUME ServerInv, NEW c \in Clients, Client(c)
  PROVE  ServerInv'
<1>1. UNCHANGED <<pc, watch, events, cur_fd, cs, listening>>
  BY DEF Client, server
<1>2. KernelInv' /\ OpenFds' = OpenFds
  BY ClientKeeps DEF Client, ServerInv
<1>3. TypeOK'
  BY <1>1, <1>2 DEF ServerInv, TypeOK, KernelInv
<1>4. /\ fd' = fd
      /\ \A d \in Clients : sock[d] = "pending" => sock'[d] = "pending"
      /\ \A d \in Clients : peer[d] # "up" => peer'[d] # "up"
      /\ \A d \in Clients : inbox'[d] >= inbox[d]
  <2>1. \A d \in Clients : inbox[d] \in Nat
    BY SocketsAssumption DEF ServerInv, KernelInv, KernelTypeOK
  <2>2. CASE Connect(c)
    BY <2>1, <2>2 DEF Connect, ServerInv, KernelInv, KernelTypeOK
  <2>3. CASE ClientStep(c)
    BY <2>1, <2>3 DEF ClientStep, ClientSend, ClientRead, HangUp, ResetArrives, Connected,
                      ServerInv, KernelInv, KernelTypeOK
  <2> QED
    BY <2>2, <2>3 DEF Client
<1>5. ASSUME pc # "ended", NEW f \in events
      PROVE  Readable(f)'
  <2>1. CASE f = ss
    BY <1>4, <1>5, <2>1 DEF Readable, Pending, ServerInv, EventsTrue
  <2>2. CASE f # ss
    <3>1. f \in Fds /\ Readable(f) /\ ClientOf(f) \in Clients /\ fd[ClientOf(f)] = f
      BY <1>5, <2>2, ReportedOpen
    <3> QED
      BY <1>2, <1>4, <3>1, ReadableStays
  <2> QED
    BY <2>1, <2>2
<1> QED
  BY <1>1, <1>2, <1>3, <1>5 DEF ServerInv, EventsTrue

-------------------------------------------------------------------------------
(* The theorems *)

\* What is watched, reported and open agree in every reachable state.
THEOREM ServerCorrect ==
  ASSUME EpollAssumption
  PROVE  Spec => []ServerInv
<1>1. Init => ServerInv
  <2> SUFFICES ASSUME Init PROVE ServerInv
    OBVIOUS
  <2>1. KernelInv
    BY KernelStarts DEF Init
  <2>2. Cardinality(watch) = 1
    BY FS_EmptySet, FS_AddElement DEF Init
  <2>3. TypeOK
    BY <2>1, EpollAssumption DEF Init, TypeOK, KernelInv, EpollAssumption
  <2> QED
    BY <2>1, <2>2, <2>3 DEF Init, ServerInv, EventsTrue
<1>2. ServerInv /\ [Next]_vars => ServerInv'
  <2> SUFFICES ASSUME ServerInv, [Next]_vars
               PROVE  ServerInv'
    OBVIOUS
  <2>1. CASE Server
    BY <2>1, WaitKeeps, AcceptStepKeeps, CloseListeningKeeps, HandleKeeps, AnswerKeeps
       DEF Server
  <2>2. ASSUME NEW c \in Clients, Client(c)
        PROVE  ServerInv'
    BY <2>2, ClientStepKeeps
  <2>3. CASE UNCHANGED vars
    BY <2>3 DEF vars, server, kernel, ServerInv, TypeOK, KernelInv, KernelTypeOK, EventsTrue,
                Readable, OpenFds, ClientOf, Pending
  <2> QED
    BY <2>1, <2>2, <2>3 DEF Next
<1> QED
  BY <1>1, <1>2, PTL DEF Spec

\* Every variable keeps its type, and cur_fd stays within MAX_EVENTS.
THEOREM TypeCorrect ==
  ASSUME EpollAssumption
  PROVE  Spec => []TypeOK
<1>1. ServerInv => TypeOK
  BY DEF ServerInv
<1> QED
  BY <1>1, ServerCorrect, PTL

\* A reported event is true when the loop comes to it, and cur_fd leaves room
\* for all events (epoll.c: epoll_wait(epoll_fd, events, cur_fd, -1)).
THEOREM EventsCorrect ==
  ASSUME EpollAssumption
  PROVE  Spec => [](EventsTrue /\ RoomForEvents)
<1>1. ServerInv => EventsTrue /\ RoomForEvents
  BY DEF ServerInv, RoomForEvents
<1> QED
  BY <1>1, ServerCorrect, PTL
===============================================================================
