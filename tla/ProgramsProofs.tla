---------------------------- MODULE ProgramsProofs ----------------------------
(***************************************************************************)
(* Theorems about Programs, for every value of its constants.  What the    *)
(* modules of two servers prove is carried over; the smaller programs are  *)
(* proved about here, one invariant each.                                  *)
(***************************************************************************)
EXTENDS Programs, Sequences, FiniteSetTheorems, TLAPS

EpollP == INSTANCE EpollServerProofs WITH
    pc <- epollPc, watch <- epollWatch, events <- epollEvents, cur_fd <- epollCurFd,
    cs <- epollCs, listening <- epollListening,
    sock <- epollSock, peer <- epollPeer, fd <- epollFd, inbox <- epollIn, outbox <- epollOut

ChatP == INSTANCE ThreadChatProofs WITH
    Clients <- FewClients, MaxClient <- ChatLength,
    cs_fds <- chatFds, count <- chatCount, mainPc <- chatMainPc, cs <- chatCs,
    thread <- chatThread, slot <- chatSlot, i <- chatI, due <- chatDue, got <- chatGot,
    killed <- chatKilled,
    sock <- chatSock, peer <- chatPeer, fd <- chatFd, inbox <- chatIn, outbox <- chatOut

-------------------------------------------------------------------------------
(* Sequences *)

LEMMA ElementOf ==
  ASSUME NEW S, NEW s \in Seq(S), NEW k \in 1 .. Len(s)
  PROVE  s[k] \in S
  OBVIOUS

LEMMA NoElement == \A S : <<>> \in Seq(S) /\ Len(<<>>) = 0
  OBVIOUS

LEMMA FirstElement ==
  ASSUME NEW S, NEW x \in S
  PROVE  /\ Append(<<>>, x) \in Seq(S)
         /\ \A k \in 1 .. Len(Append(<<>>, x)) : Append(<<>>, x)[k] = x
  OBVIOUS

LEMMA WiderSeq ==
  ASSUME NEW S, NEW T, S \subseteq T, NEW s \in Seq(S)
  PROVE  s \in Seq(T)
  OBVIOUS

LEMMA LongerSeq ==
  ASSUME NEW S, NEW s \in Seq(S), NEW x \in S
  PROVE  Append(s, x) \in Seq(S)
  OBVIOUS

LEMMA SequenceParts ==
  ASSUME NEW S, NEW s \in Seq(S), s # <<>>
  PROVE  Head(s) \in S /\ Tail(s) \in Seq(S)
  OBVIOUS

LEMMA JoinedParts ==
  ASSUME NEW S, NEW s \in Seq(S), NEW t \in Seq(S)
  PROVE  s \o t \in Seq(S)
  OBVIOUS

LEMMA SinglePart ==
  ASSUME NEW S, NEW x \in S
  PROVE  <<x>> \in Seq(S)
  OBVIOUS

LEMMA Joined ==
  ASSUME NEW S, NEW a \in Seq(S), NEW b \in Seq(S)
  PROVE  /\ a \o b \in Seq(S) /\ Len(a) \in Nat /\ Len(b) \in Nat
         /\ Len(a \o b) = Len(a) + Len(b)
         /\ \A j \in 1 .. Len(a) + Len(b) :
              (a \o b)[j] = IF j <= Len(a) THEN a[j] ELSE b[j-Len(a)]
  OBVIOUS

LEMMA SameSequence ==
  ASSUME NEW S, NEW a \in Seq(S), NEW b \in Seq(S), Len(a) = Len(b),
         \A j \in 1 .. Len(a) : a[j] = b[j]
  PROVE  a = b
  OBVIOUS

\* What an insertion and a deletion make of a sequence.
LEMMA Inserted ==
  ASSUME NEW S, NEW c \in Seq(S), NEW d \in Seq(S), NEW x \in S, NEW k \in 0 .. Len(c),
         Len(d) = Len(c) + 1,
         \A j \in 1 .. Len(c)+1 :
           d[j] = IF j <= k THEN c[j] ELSE IF j = k+1 THEN x ELSE c[j-1]
  PROVE  d = SubSeq(c, 1, k) \o <<x>> \o SubSeq(c, k+1, Len(c))
<1>1. PICK n \in Nat : n = Len(c)
  OBVIOUS
<1>2. PICK a, b, e :
         /\ a = SubSeq(c, 1, k) /\ b = SubSeq(c, k+1, Len(c)) /\ e = <<x>>
  OBVIOUS
<1>3. /\ a \in Seq(S) /\ Len(a) = k /\ \A j \in 1 .. k : a[j] = c[j]
      /\ b \in Seq(S) /\ Len(b) = n - k /\ \A j \in 1 .. n-k : b[j] = c[k+j]
      /\ e \in Seq(S) /\ Len(e) = 1 /\ e[1] = x
  BY <1>1, <1>2
<1>4. PICK f : f = a \o e
  OBVIOUS
<1>5. /\ f \in Seq(S) /\ Len(f) = k+1
      /\ \A j \in 1 .. k+1 : f[j] = IF j <= k THEN c[j] ELSE x
  <2>1. a \in Seq(S) /\ e \in Seq(S)
    BY <1>3
  <2>2. /\ f \in Seq(S) /\ Len(f) = Len(a) + Len(e)
        /\ \A j \in 1 .. Len(a) + Len(e) :
             f[j] = IF j <= Len(a) THEN a[j] ELSE e[j-Len(a)]
    BY <1>4, <2>1, Joined
  <2>3. ASSUME NEW j \in 1 .. k+1 PROVE f[j] = IF j <= k THEN c[j] ELSE x
    <3>1. f[j] = IF j <= k THEN a[j] ELSE e[j-k]
      BY <1>1, <1>3, <2>2
    <3>2. j > k => j-k = 1
      BY <1>1
    <3> QED
      BY <1>1, <1>3, <3>1, <3>2
  <2> QED
    BY <1>1, <1>3, <2>2, <2>3
<1>6. PICK g : g = f \o b
  OBVIOUS
<1>7. g \in Seq(S) /\ Len(g) = n+1
  <2>1. f \in Seq(S) /\ b \in Seq(S)
    BY <1>3, <1>5
  <2>2. g \in Seq(S) /\ Len(g) = Len(f) + Len(b)
    BY <1>6, <2>1, Joined
  <2> QED
    BY <1>1, <1>3, <1>5, <2>2
<1>8. ASSUME NEW j \in 1 .. n+1 PROVE g[j] = d[j]
  <2>1. g[j] = IF j <= k+1 THEN f[j] ELSE b[j-(k+1)]
    <3>1. (k+1) + (n-k) = n+1
      BY <1>1
    <3> QED
      BY <1>3, <1>5, <1>6, <3>1, Joined
  <2>2. CASE j <= k+1
    BY <1>1, <1>5, <2>1, <2>2
  <2>3. CASE j > k+1
    <3>1. PICK m \in 1 .. n-k : m = j-(k+1) /\ k+m = j-1
      <4>1. j-(k+1) \in 1 .. n-k /\ k+(j-(k+1)) = j-1
        BY <1>1, <2>3
      <4> QED
        BY <4>1
    <3>2. g[j] = c[j-1]
      BY <1>3, <2>1, <2>3, <3>1
    <3> QED
      BY <1>1, <2>3, <3>2
  <2> QED
    BY <1>1, <2>2, <2>3
<1>9. g = d
  BY <1>1, <1>7, <1>8, SameSequence
<1> QED
  BY <1>2, <1>4, <1>6, <1>9

LEMMA Deleted ==
  ASSUME NEW S, NEW c \in Seq(S), NEW d \in Seq(S), NEW k \in 0 .. Len(c)-1,
         Len(d) = Len(c) - 1,
         \A j \in 1 .. Len(c)-1 : d[j] = IF j <= k THEN c[j] ELSE c[j+1]
  PROVE  d = SubSeq(c, 1, (k+1)-1) \o SubSeq(c, (k+1)+1, Len(c))
<1>1. PICK n \in Nat : n = Len(c)
  OBVIOUS
<1>2. PICK a, b : a = SubSeq(c, 1, (k+1)-1) /\ b = SubSeq(c, (k+1)+1, Len(c))
  OBVIOUS
<1>3. /\ a \in Seq(S) /\ Len(a) = k /\ \A j \in 1 .. k : a[j] = c[j]
      /\ b \in Seq(S) /\ Len(b) = n - (k+1) /\ \A j \in 1 .. n-(k+1) : b[j] = c[k+1+j]
  BY <1>1, <1>2
<1>4. PICK g : g = a \o b
  OBVIOUS
<1>5. g \in Seq(S) /\ Len(g) = n-1
  <2>1. a \in Seq(S) /\ b \in Seq(S)
    BY <1>3
  <2>2. g \in Seq(S) /\ Len(g) = Len(a) + Len(b)
    BY <1>4, <2>1, Joined
  <2> QED
    BY <1>1, <1>3, <2>2
<1>6. ASSUME NEW j \in 1 .. n-1 PROVE g[j] = d[j]
  <2>1. g[j] = IF j <= k THEN a[j] ELSE b[j-k]
    <3>1. k + (n-(k+1)) = n-1
      BY <1>1
    <3> QED
      BY <1>3, <1>4, <3>1, Joined
  <2>2. CASE j <= k
    BY <1>1, <1>3, <2>1, <2>2
  <2>3. CASE j > k
    <3>1. PICK m \in 1 .. n-(k+1) : m = j-k /\ k+1+m = j+1
      <4>1. j-k \in 1 .. n-(k+1) /\ k+1+(j-k) = j+1
        BY <1>1, <2>3
      <4> QED
        BY <4>1
    <3>2. g[j] = c[j+1]
      BY <1>3, <2>1, <2>3, <3>1
    <3> QED
      BY <1>1, <2>3, <3>2
  <2> QED
    BY <1>1, <2>2, <2>3
<1>7. g = d
  BY <1>1, <1>5, <1>6, SameSequence
<1> QED
  BY <1>2, <1>4, <1>7

\* What is below a count is one of the numbers from 0 on.
LEMMA BelowCount == \A n, k \in Nat : k < n => k \in 0 .. n-1
  OBVIOUS

-------------------------------------------------------------------------------
(* One program runs *)

Programs == {"epoll", "thread_server", "TCP/server", "contacts", "link_list",
             "thread_lock", "thread_sem", "epoll_thread_model", "pipe", "msg",
             "UDP/server", "quick_sort"}

\* To each program a step of all of them is one of its own, or none.
LEMMA OneRuns ==
  ASSUME [Next]_vars
  PROVE  /\ program' = program
         /\ Epoll!Next  \/ UNCHANGED epollVars
         /\ Chat!Next   \/ UNCHANGED chatVars
         /\ Echo!Next   \/ UNCHANGED echoVars
         /\ Book!Next   \/ UNCHANGED bookVars
         /\ List!Next   \/ UNCHANGED listVars
         /\ Locked!Next \/ UNCHANGED lockVars
         /\ Sem!Next    \/ UNCHANGED semVars
         /\ Pool!Next   \/ UNCHANGED poolVars
         /\ Pipe!Next   \/ UNCHANGED pipeVars
         /\ Msg!Next    \/ UNCHANGED msgVars
         /\ Udp!Next    \/ UNCHANGED udpVars
         /\ Sorted!Next \/ UNCHANGED sortVars
<1>1. CASE UNCHANGED vars
  BY <1>1 DEF vars
<1>2. CASE Next
  BY <1>2 DEF Next, RunEpoll, RunChat, RunEcho, RunBook, RunList, RunLocked, RunSem,
              RunPool, RunPipe, RunMsg, RunUdp, RunSorted, Only
<1> QED
  BY <1>1, <1>2

\* The program that was started is the one that runs.
THEOREM ProgramCorrect == Spec => [](program \in Programs)
<1>1. Init => program \in Programs
  BY DEF Init, Programs
<1>2. program \in Programs /\ [Next]_vars => (program \in Programs)'
  BY OneRuns
<1> QED
  BY <1>1, <1>2, PTL DEF Spec

-------------------------------------------------------------------------------
(* The epoll server *)

LEMMA EpollConstants ==
  /\ EpollP!SocketsAssumption /\ EpollP!EpollAssumption
  BY ProgramsAssumption
     DEF EpollP!SocketsAssumption, EpollP!EpollAssumption, Epoll!EpollAssumption,
         EpollP!IsFiniteSet, IsFiniteSet

LEMMA EpollStarts == Epoll!Init => EpollP!Init
  BY DEF Epoll!Init, Epoll!KernelInit, Epoll!ss, Epoll!NoFd,
         EpollP!Init, EpollP!KernelInit, EpollP!ss, EpollP!NoFd

LEMMA EpollKernel ==
  /\ Epoll!ss = EpollP!ss /\ Epoll!NoFd = EpollP!NoFd
  /\ Epoll!OpenFds = EpollP!OpenFds
  /\ \A f : Epoll!ClientOf(f) = EpollP!ClientOf(f)
  /\ Epoll!Pending = EpollP!Pending
  /\ Epoll!NewFd = EpollP!NewFd
  /\ \A f : Epoll!Readable(f) = EpollP!Readable(f)
<1>1. Epoll!ss = EpollP!ss /\ Epoll!NoFd = EpollP!NoFd
  BY DEF Epoll!ss, EpollP!ss, Epoll!NoFd, EpollP!NoFd
<1>2. Epoll!OpenFds = EpollP!OpenFds
  BY <1>1 DEF Epoll!OpenFds, EpollP!OpenFds
<1>3. \A f : Epoll!ClientOf(f) = EpollP!ClientOf(f)
  BY DEF Epoll!ClientOf, EpollP!ClientOf
<1>4. Epoll!Pending = EpollP!Pending
  BY DEF Epoll!Pending, EpollP!Pending
<1>5. Epoll!NewFd = EpollP!NewFd
  BY <1>1, <1>2 DEF Epoll!NewFd, EpollP!NewFd, Epoll!Fds, EpollP!Fds,
     Epoll!Smallest, EpollP!Smallest, Epoll!Cardinality, EpollP!Cardinality
<1>6. \A f : Epoll!Readable(f) = EpollP!Readable(f)
  BY <1>1, <1>2, <1>3, <1>4 DEF Epoll!Readable, EpollP!Readable
<1> QED
  BY <1>1, <1>2, <1>3, <1>4, <1>5, <1>6

LEMMA EpollSteps == Epoll!Next => EpollP!Next
<1>1. Epoll!Wait => EpollP!Wait
  <2>1. Epoll!Ready = EpollP!Ready
    BY EpollKernel DEF Epoll!Ready, EpollP!Ready
  <2>2. \A S : Epoll!Cardinality(S) = EpollP!Cardinality(S)
    BY DEF Epoll!Cardinality, EpollP!Cardinality
  <2> QED
    BY <2>1, <2>2 DEF Epoll!Wait, EpollP!Wait, Epoll!kernel, EpollP!kernel
<1>2. Epoll!WaitFails \/ Epoll!EventsDone => EpollP!WaitFails \/ EpollP!EventsDone
  BY DEF Epoll!WaitFails, EpollP!WaitFails, Epoll!EventsDone, EpollP!EventsDone,
     Epoll!kernel, EpollP!kernel
<1>3. Epoll!Accept => EpollP!Accept
  BY EpollKernel DEF Epoll!Accept, EpollP!Accept, Epoll!AcceptThen, EpollP!AcceptThen,
     Epoll!NewClient, EpollP!NewClient, Epoll!Request, EpollP!Request,
     Epoll!AcceptFrom, EpollP!AcceptFrom
<1>4. Epoll!AcceptFails => EpollP!AcceptFails
  BY EpollKernel DEF Epoll!AcceptFails, EpollP!AcceptFails,
     Epoll!NewClient, EpollP!NewClient, Epoll!Request, EpollP!Request, Epoll!kernel, EpollP!kernel
<1>5. Epoll!CloseListening => EpollP!CloseListening
  BY EpollKernel DEF Epoll!CloseListening, EpollP!CloseListening, Epoll!Request, EpollP!Request
<1>6. Epoll!Handle => EpollP!Handle
  BY EpollKernel DEF Epoll!Handle, EpollP!Handle, Epoll!Receive, EpollP!Receive,
     Epoll!Bye, EpollP!Bye, Epoll!Drop, EpollP!Drop,
     Epoll!RecvFrom, EpollP!RecvFrom, Epoll!Close, EpollP!Close
<1>7. Epoll!Answer => EpollP!Answer
  BY EpollKernel DEF Epoll!Answer, EpollP!Answer, Epoll!AnswerWhen, EpollP!AnswerWhen,
     Epoll!SendTo, EpollP!SendTo, Epoll!Lost, EpollP!Lost, Epoll!Broken, EpollP!Broken,
     Epoll!kernel, EpollP!kernel
<1>8. \A c \in Clients : Epoll!Client(c) => EpollP!Client(c)
  BY DEF Epoll!Client, EpollP!Client, Epoll!Connect, EpollP!Connect,
     Epoll!ClientStep, EpollP!ClientStep, Epoll!ClientSend, EpollP!ClientSend,
     Epoll!ClientRead, EpollP!ClientRead, Epoll!HangUp, EpollP!HangUp,
     Epoll!ResetArrives, EpollP!ResetArrives, Epoll!Connected, EpollP!Connected,
     Epoll!server, EpollP!server
<1> QED
  BY <1>1, <1>2, <1>3, <1>4, <1>5, <1>6, <1>7, <1>8
     DEF Epoll!Next, EpollP!Next, Epoll!Server, EpollP!Server

LEMMA EpollRuns == Spec => EpollP!Spec
<1>1. Init => EpollP!Init
  BY EpollStarts DEF Init
<1>2. [Next]_vars => [EpollP!Next]_(EpollP!vars)
  <2>1. UNCHANGED epollVars => UNCHANGED EpollP!vars
    BY DEF epollVars, EpollP!vars, EpollP!server, EpollP!kernel
  <2> QED
    BY <2>1, OneRuns, EpollSteps
<1> QED
  BY <1>1, <1>2, PTL DEF Spec, EpollP!Spec

THEOREM EventsCorrect == Spec => []EventsTrue
<1>1. EpollP!EventsTrue /\ EpollP!RoomForEvents => EventsTrue
  BY EpollKernel DEF EventsTrue, Epoll!EventsTrue, EpollP!EventsTrue, Epoll!RoomForEvents,
     EpollP!RoomForEvents, Epoll!Cardinality, EpollP!Cardinality
<1>2. EpollP!Spec => [](EpollP!EventsTrue /\ EpollP!RoomForEvents)
  BY EpollConstants, EpollP!EventsCorrect
<1> QED
  BY <1>1, <1>2, EpollRuns, PTL

-------------------------------------------------------------------------------
(* The threaded chat server *)

LEMMA ChatConstants == ChatP!SocketsAssumption /\ ChatP!ThreadChatAssumption
  BY ProgramsAssumption
     DEF ChatP!SocketsAssumption, ChatP!ThreadChatAssumption, Chat!ThreadChatAssumption,
         ChatP!IsFiniteSet, IsFiniteSet, ChatP!Cardinality, Chat!Cardinality

LEMMA ChatStarts == Chat!Init => ChatP!Init
  BY DEF Chat!Init, Chat!KernelInit, Chat!NoFd, Chat!Slots,
         ChatP!Init, ChatP!KernelInit, ChatP!NoFd, ChatP!Slots

\* The words for what is open and listed mean the same in both instances.
LEMMA ChatKernel ==
  /\ Chat!NoFd = ChatP!NoFd /\ Chat!OpenFds = ChatP!OpenFds
  /\ \A f : Chat!ClientOf(f) = ChatP!ClientOf(f)
  /\ Chat!Pending = ChatP!Pending /\ Chat!NewFd = ChatP!NewFd
  /\ \A c : Chat!Up(c) = ChatP!Up(c)
  /\ Chat!Listed = ChatP!Listed
<1>1. Chat!ss = ChatP!ss /\ Chat!NoFd = ChatP!NoFd
  BY DEF Chat!ss, ChatP!ss, Chat!NoFd, ChatP!NoFd
<1>2. Chat!OpenFds = ChatP!OpenFds
  BY <1>1 DEF Chat!OpenFds, ChatP!OpenFds
<1>3. \A f : Chat!ClientOf(f) = ChatP!ClientOf(f)
  BY DEF Chat!ClientOf, ChatP!ClientOf
<1>4. Chat!Pending = ChatP!Pending
  BY DEF Chat!Pending, ChatP!Pending
<1>5. Chat!NewFd = ChatP!NewFd
  BY <1>1, <1>2 DEF Chat!NewFd, ChatP!NewFd, Chat!Fds, ChatP!Fds,
     Chat!Smallest, ChatP!Smallest, Chat!Cardinality, ChatP!Cardinality
<1>6. \A c : Chat!Up(c) = ChatP!Up(c)
  BY DEF Chat!Up, ChatP!Up
<1>7. Chat!Listed = ChatP!Listed
  BY DEF Chat!Up, ChatP!Up, Chat!Listed, ChatP!Listed
<1> QED
  BY <1>1, <1>2, <1>3, <1>4, <1>5, <1>6, <1>7

LEMMA ChatMainSteps == Chat!Main => ChatP!Main
<1>1. Chat!Accept => ChatP!Accept
  BY ChatKernel DEF Chat!Accept, ChatP!Accept, Chat!AcceptFrom, ChatP!AcceptFrom,
     Chat!threads, ChatP!threads
<1>2. Chat!Store => ChatP!Store
  BY DEF Chat!Store, ChatP!Store, Chat!threads, ChatP!threads, Chat!kernel, ChatP!kernel
<1>3. Chat!Create => ChatP!Create
  BY DEF Chat!Create, ChatP!Create, Chat!CreateWith, ChatP!CreateWith, Chat!kernel, ChatP!kernel
<1>4. Chat!CreateFails => ChatP!CreateFails
  BY ChatKernel DEF Chat!CreateFails, ChatP!CreateFails, Chat!FailWith, ChatP!FailWith,
     Chat!threads, ChatP!threads, Chat!kernel, ChatP!kernel
<1> QED
  BY <1>1, <1>2, <1>3, <1>4 DEF Chat!Main, ChatP!Main

LEMMA ChatThreadSteps == ASSUME NEW c \in FewClients, Chat!Thread(c) PROVE ChatP!Thread(c)
<1>1. Chat!Own(c) = ChatP!Own(c) /\ Chat!Target(c) = ChatP!Target(c)
  BY DEF Chat!Own, ChatP!Own, Chat!Target, ChatP!Target
<1>2. UNCHANGED Chat!main => UNCHANGED ChatP!main
  BY DEF Chat!main, ChatP!main
<1>3. UNCHANGED Chat!kernel => UNCHANGED ChatP!kernel
  BY DEF Chat!kernel, ChatP!kernel
<1>4. UNCHANGED Chat!threads => UNCHANGED ChatP!threads
  BY DEF Chat!threads, ChatP!threads
<1>5. Chat!Written(c) => ChatP!Written(c)
  BY DEF Chat!Written, ChatP!Written
<1>6. \A d : Chat!Broken(d) = ChatP!Broken(d)
  BY DEF Chat!Broken, ChatP!Broken
<1>7. Chat!Read(c) => ChatP!Read(c)
  BY <1>1, <1>2, ChatKernel DEF Chat!Read, ChatP!Read, Chat!RecvFrom, ChatP!RecvFrom
<1>8. Chat!ReadEnd(c) => ChatP!ReadEnd(c)
  BY <1>1, <1>2, <1>3, <1>6, ChatKernel
     DEF Chat!ReadEnd, ChatP!ReadEnd, Chat!Close, ChatP!Close, Chat!AtEnd, ChatP!AtEnd
<1>9. Chat!Test(c) => ChatP!Test(c)
  BY <1>2, <1>3, ChatKernel DEF Chat!Test, ChatP!Test
<1>10. Chat!BroadcastDone(c) => ChatP!BroadcastDone(c)
  BY <1>2, <1>3, ChatKernel DEF Chat!BroadcastDone, ChatP!BroadcastDone
<1>11. Chat!Write(c) => ChatP!Write(c)
  BY <1>1, <1>2, <1>5, ChatKernel DEF Chat!Write, ChatP!Write, Chat!SendTo, ChatP!SendTo
<1>12. Chat!WriteFails(c) => ChatP!WriteFails(c)
  BY <1>1, <1>2, <1>3, <1>5, <1>6, ChatKernel DEF Chat!WriteFails, ChatP!WriteFails
<1>13. Chat!KilledByPipe(c) => ChatP!KilledByPipe(c)
  BY <1>1, <1>2, <1>3, <1>4, <1>6, ChatKernel DEF Chat!KilledByPipe, ChatP!KilledByPipe
<1>14. Chat!Overrun(c) => ChatP!Overrun(c)
  BY <1>2, <1>3, <1>4, ChatKernel DEF Chat!Overrun, ChatP!Overrun
<1> QED
  BY <1>7, <1>8, <1>9, <1>10, <1>11, <1>12, <1>13, <1>14 DEF Chat!Thread, ChatP!Thread

LEMMA ChatSteps == Chat!Next => ChatP!Next
<1>1. \A c \in FewClients : Chat!Client(c) => ChatP!Client(c)
  BY DEF Chat!Client, ChatP!Client, Chat!Connect, ChatP!Connect,
     Chat!ClientStep, ChatP!ClientStep, Chat!ClientSend, ChatP!ClientSend,
     Chat!ClientRead, ChatP!ClientRead, Chat!HangUp, ChatP!HangUp,
     Chat!ResetArrives, ChatP!ResetArrives, Chat!Connected, ChatP!Connected,
     Chat!server, ChatP!server, Chat!main, ChatP!main, Chat!threads, ChatP!threads
<1> QED
  BY <1>1, ChatMainSteps, ChatThreadSteps DEF Chat!Next, ChatP!Next

LEMMA ChatRuns == Spec => ChatP!Spec
<1>1. Init => ChatP!Init
  BY ChatStarts DEF Init
<1>2. [Next]_vars => [ChatP!Next]_(ChatP!vars)
  <2>1. UNCHANGED chatVars => UNCHANGED ChatP!vars
    BY DEF chatVars, ChatP!vars, ChatP!server, ChatP!main, ChatP!threads, ChatP!kernel
  <2> QED
    BY <2>1, OneRuns, ChatSteps
<1> QED
  BY <1>1, <1>2, PTL DEF Spec, ChatP!Spec

THEOREM SlotCorrect == Spec => []OwnSlot
<1>1. ChatP!OwnSlot => OwnSlot
  BY DEF OwnSlot, Chat!OwnSlot, ChatP!OwnSlot, Chat!Own, ChatP!Own
<1>2. ChatP!Spec => []ChatP!OwnSlot
  BY ChatConstants, ChatP!SlotCorrect
<1> QED
  BY <1>1, <1>2, ChatRuns, PTL

THEOREM HearCorrect == Spec => AllHear
<1>1. ChatP!Spec => ChatP!AllHear
  BY ChatConstants, ChatP!HearCorrect
<1> QED
  BY <1>1, ChatRuns, PTL DEF AllHear, Chat!AllHear, ChatP!AllHear, Chat!Up, ChatP!Up, Chat!vars, ChatP!vars,
     Chat!server, ChatP!server, Chat!main, ChatP!main, Chat!threads, ChatP!threads, Chat!kernel, ChatP!kernel

-------------------------------------------------------------------------------
(* The message queue *)

MsgUsing(p) == msgPc[p] \in {"send", "receive", "set", "remove"}

\* One process at a time has got past msgget.
MsgInv ==
    /\ Msg!TypeOK /\ Msg!FreshQueue
    /\ \A p, q \in MsgProcs : MsgUsing(p) /\ MsgUsing(q) => p = q
    /\ ~msgExists => msgMessages = <<>>

\* No message has the type that is asked for.
LEMMA MsgNoneWanted == Msg!TypeOK => Msg!Wanted = {}
<1> SUFFICES ASSUME Msg!TypeOK, NEW k \in Msg!Wanted
             PROVE  FALSE
  OBVIOUS
<1>1. k \in 1 .. Len(msgMessages) /\ msgMessages[k].type = 20
  BY DEF Msg!Wanted, Msg!Asked
<1>2. msgMessages[k] \in Msg!Message
  BY <1>1, ElementOf DEF Msg!TypeOK
<1> QED
  BY <1>1, <1>2 DEF Msg!Message, Msg!Sent

LEMMA MsgSendKeeps ==
  ASSUME MsgInv, NEW p \in MsgProcs, Msg!Send(p)
  PROVE  MsgInv'
<1>1. /\ msgPc[p] = "send" /\ msgPc' = [msgPc EXCEPT ![p] = "receive"]
      /\ UNCHANGED <<msgRuns, msgExists>>
      /\ msgMessages' = Append(msgMessages, [type |-> Msg!Sent, from |-> p])
         \/ msgMessages' = msgMessages
  BY DEF Msg!Send, Msg!Go
<1>2. msgExists /\ msgMessages = <<>>
  BY <1>1 DEF MsgInv, Msg!FreshQueue
<1>3. [type |-> Msg!Sent, from |-> p] \in Msg!Message
  BY DEF Msg!Message
<1>4. /\ msgMessages' \in Seq(Msg!Message)
      /\ \A k \in 1 .. Len(msgMessages') : msgMessages'[k].from = p
  <2>1. CASE msgMessages' = msgMessages
    BY <1>2, <2>1, NoElement
  <2>2. CASE msgMessages' = Append(<<>>, [type |-> Msg!Sent, from |-> p])
    <3>1. \A k \in 1 .. Len(msgMessages') : msgMessages'[k] = [type |-> Msg!Sent, from |-> p]
      BY <1>3, <2>2, FirstElement
    <3> QED
      BY <1>3, <2>2, <3>1, FirstElement
  <2> QED
    BY <1>1, <1>2, <2>1, <2>2
<1>5. Msg!TypeOK'
  BY <1>1, <1>4 DEF MsgInv, Msg!TypeOK
<1>6. \A q \in MsgProcs : MsgUsing(q)' => MsgUsing(q) /\ q = p /\ msgPc'[q] = "receive"
  BY <1>1 DEF MsgInv, MsgUsing, Msg!TypeOK
<1>7. Msg!FreshQueue'
  BY <1>1, <1>2, <1>4, <1>6 DEF Msg!FreshQueue, MsgUsing
<1> QED
  BY <1>1, <1>2, <1>5, <1>6, <1>7 DEF MsgInv

\* A process that has the queue gets on, or a process ends; the queue is left
\* as it is.
LEMMA MsgMoveKeeps ==
  ASSUME MsgInv, NEW p \in MsgProcs, NEW to \in {"off", "set", "remove"},
         msgPc' = [msgPc EXCEPT ![p] = to], to # "off" => MsgUsing(p),
         UNCHANGED <<msgRuns, msgExists, msgMessages>>
  PROVE  MsgInv'
<1>1. \A q \in MsgProcs : msgPc'[q] = IF q = p THEN to ELSE msgPc[q]
  BY DEF MsgInv, Msg!TypeOK
<1>2. \A q \in MsgProcs : /\ MsgUsing(q)' => MsgUsing(q)
                          /\ msgPc'[q] = "send" => msgPc[q] = "send"
  BY <1>1 DEF MsgUsing
<1>3. Msg!TypeOK'
  BY DEF MsgInv, Msg!TypeOK
<1>4. Msg!FreshQueue'
  BY <1>2 DEF MsgInv, Msg!FreshQueue, MsgUsing
<1>5. \A q, t \in MsgProcs : MsgUsing(q)' /\ MsgUsing(t)' => q = t
  BY <1>2 DEF MsgInv
<1>6. ~msgExists' => msgMessages' = <<>>
  BY DEF MsgInv
<1> QED
  BY <1>3, <1>4, <1>5, <1>6 DEF MsgInv

LEMMA MsgKeeps == ASSUME MsgInv, Msg!Next PROVE MsgInv'
<1> SUFFICES ASSUME NEW p \in MsgProcs,
                    \/ Msg!Start(p) \/ Msg!Get(p) \/ Msg!Send(p) \/ Msg!Receive(p)
                    \/ Msg!Set(p) \/ Msg!Remove(p) \/ Msg!Killed(p)
             PROVE  MsgInv'
  BY DEF Msg!Next
<1>1. CASE Msg!Start(p)
  BY <1>1, ProgramsAssumption DEF Msg!Start, Msg!Go, MsgInv, Msg!TypeOK, Msg!FreshQueue, MsgUsing
<1>2. CASE Msg!Get(p)
  <2>1. CASE msgExists
    BY <1>2, <2>1 DEF Msg!Get, Msg!Go, MsgInv, Msg!TypeOK, Msg!FreshQueue, MsgUsing
  <2>2. CASE ~msgExists
    <3>1. msgMessages = <<>> /\ \A q \in MsgProcs : ~ MsgUsing(q)
      BY <2>2 DEF MsgInv, MsgUsing, Msg!FreshQueue
    <3> QED
      BY <1>2, <2>2, <3>1 DEF Msg!Get, Msg!Go, MsgInv, Msg!TypeOK, Msg!FreshQueue, MsgUsing
  <2> QED
    BY <2>1, <2>2
<1>3. CASE Msg!Receive(p)
  <2>1. msgMessages' = msgMessages
    BY <1>3, MsgNoneWanted DEF Msg!Receive, MsgInv
  <2> QED
    BY <1>3, <2>1, MsgMoveKeeps DEF Msg!Receive, Msg!Go, MsgUsing
<1>4. CASE Msg!Set(p)
  BY <1>4, MsgMoveKeeps DEF Msg!Set, Msg!Go, MsgUsing
<1>5. CASE Msg!Remove(p)
  <2>1. /\ msgPc[p] = "remove" /\ msgPc' = [msgPc EXCEPT ![p] = "off"]
        /\ msgExists' = FALSE /\ msgMessages' = <<>> /\ msgRuns' = msgRuns
    BY <1>5 DEF Msg!Remove, Msg!Go
  <2>2. \A q \in MsgProcs : ~ MsgUsing(q)'
    BY <2>1 DEF MsgInv, Msg!TypeOK, MsgUsing
  <2>3. Msg!TypeOK'
    BY <2>1, NoElement DEF MsgInv, Msg!TypeOK
  <2>4. Msg!FreshQueue'
    BY <2>2 DEF Msg!FreshQueue, MsgUsing
  <2> QED
    BY <2>1, <2>2, <2>3, <2>4 DEF MsgInv
<1>6. CASE Msg!Killed(p)
  BY <1>6, MsgMoveKeeps DEF Msg!Killed, Msg!Go
<1> QED
  BY <1>1, <1>2, <1>3, <1>4, <1>5, <1>6, MsgSendKeeps

THEOREM MsgCorrect == Spec => []MsgInv
<1>1. Init => MsgInv
  <2> SUFFICES ASSUME Msg!Init PROVE MsgInv
    BY DEF Init
  <2>1. msgMessages = <<>> /\ \A p \in MsgProcs : ~ MsgUsing(p)
    BY DEF Msg!Init, MsgUsing
  <2>2. Msg!TypeOK
    <3>1. MaxRuns \in Nat /\ 0 \in 0 .. MaxRuns
      BY ProgramsAssumption
    <3>2. msgMessages \in Seq(Msg!Message)
      BY <2>1, NoElement
    <3> QED
      BY <3>1, <3>2 DEF Msg!Init, Msg!TypeOK
  <2>3. Msg!FreshQueue
    BY <2>1 DEF Msg!FreshQueue, MsgUsing
  <2> QED
    BY <2>1, <2>2, <2>3 DEF MsgInv
<1>2. MsgInv /\ [Next]_vars => MsgInv'
  <2>1. MsgInv /\ UNCHANGED msgVars => MsgInv'
    BY DEF msgVars, MsgInv, Msg!TypeOK, Msg!FreshQueue, MsgUsing
  <2> QED
    BY <2>1, OneRuns, MsgKeeps
<1> QED
  BY <1>1, <1>2, PTL DEF Spec

THEOREM QueueCorrect == Spec => []FreshQueue
<1>1. MsgInv => FreshQueue
  BY DEF MsgInv, FreshQueue
<1> QED
  BY <1>1, MsgCorrect, PTL

-------------------------------------------------------------------------------
(* The UDP echo *)

\* Every datagram on its way, and the one the server has, is for the client
\* that made it.
UdpOwn == {<<c, c>> : c \in Clients}
UdpInv ==
    /\ Udp!TypeOK /\ Udp!OwnEcho
    /\ udpRequests \subseteq UdpOwn /\ udpAnswers \subseteq UdpOwn
    /\ udpServer = "send" => udpBuf \in Clients /\ udpFrom = udpBuf

LEMMA UdpKeeps == ASSUME UdpInv, Udp!Next PROVE UdpInv'
<1>1. CASE Udp!Recv
  <2>1. PICK d \in udpRequests :
             udpBuf' = d[1] /\ udpFrom' = d[2] /\ udpRequests' = udpRequests \ {d}
    BY <1>1 DEF Udp!Recv
  <2>2. PICK c \in Clients : d = <<c, c>>
    BY <2>1 DEF UdpInv, UdpOwn
  <2>3. udpBuf' = c /\ udpFrom' = c /\ udpRequests' \subseteq udpRequests
    BY <2>1, <2>2
  <2>4. UNCHANGED <<udpAnswers, udpClient, udpAnswer, udpLost>> /\ udpServer' = "send"
    BY <1>1 DEF Udp!Recv
  <2>5. Udp!TypeOK'
    BY <2>3, <2>4 DEF UdpInv, Udp!TypeOK
  <2> QED
    BY <2>3, <2>4, <2>5 DEF UdpInv, Udp!OwnEcho
<1>2. CASE Udp!Send
  <2>1. udpAnswers' = udpAnswers \union {<<udpBuf, udpBuf>>} /\ udpBuf \in Clients
    BY <1>2 DEF Udp!Send, UdpInv
  <2>2. udpAnswers' \subseteq UdpOwn /\ udpAnswers' \subseteq Clients \X Clients
    BY <2>1 DEF UdpInv, UdpOwn, Udp!TypeOK
  <2> QED
    BY <1>2, <2>2 DEF Udp!Send, UdpInv, Udp!TypeOK, Udp!OwnEcho
<1>3. ASSUME NEW c \in Clients, Udp!Ask(c)
      PROVE  UdpInv'
  <2>1. /\ udpRequests' = udpRequests \union {<<c, c>>}
        /\ udpClient' = [udpClient EXCEPT ![c] = "waits"]
        /\ UNCHANGED <<udpServer, udpBuf, udpFrom, udpAnswers, udpAnswer, udpLost>>
    BY <1>3 DEF Udp!Ask, Udp!socket
  <2>2. udpRequests' \subseteq UdpOwn /\ udpRequests' \subseteq Clients \X Clients
    BY <2>1 DEF UdpInv, UdpOwn, Udp!TypeOK
  <2> QED
    BY <2>1, <2>2 DEF UdpInv, Udp!TypeOK, Udp!OwnEcho
<1>4. ASSUME NEW c \in Clients, Udp!Take(c)
      PROVE  UdpInv'
  <2>1. PICK d \in udpAnswers : /\ d[2] = c /\ udpAnswers' = udpAnswers \ {d}
                                /\ udpAnswer' = [udpAnswer EXCEPT ![c] = d[1]]
    BY <1>4 DEF Udp!Take
  <2>2. d[1] = c
    BY <2>1 DEF UdpInv, UdpOwn
  <2>3. /\ udpClient' = [udpClient EXCEPT ![c] = "ended"]
        /\ UNCHANGED <<udpServer, udpBuf, udpFrom, udpRequests, udpLost>>
    BY <1>4 DEF Udp!Take, Udp!socket
  <2>4. Udp!TypeOK'
    BY <2>1, <2>2, <2>3 DEF UdpInv, Udp!TypeOK
  <2>5. Udp!OwnEcho'
    BY <2>1, <2>2, <2>3 DEF UdpInv, Udp!TypeOK, Udp!OwnEcho
  <2> QED
    BY <2>1, <2>3, <2>4, <2>5 DEF UdpInv
<1>5. CASE Udp!Lose
  <2>1. PICK d \in udpRequests \union udpAnswers :
             /\ udpRequests' = udpRequests \ {d} /\ udpAnswers' = udpAnswers \ {d}
             /\ udpLost' = udpLost \union {d[2]}
    BY <1>5 DEF Udp!Lose
  <2>2. d[2] \in Clients
    BY <2>1 DEF UdpInv, UdpOwn
  <2>3. UNCHANGED <<udpServer, udpBuf, udpFrom, udpClient, udpAnswer>>
    BY <1>5 DEF Udp!Lose, Udp!socket
  <2>4. Udp!TypeOK'
    BY <2>1, <2>2, <2>3 DEF UdpInv, Udp!TypeOK
  <2> QED
    BY <2>1, <2>3, <2>4 DEF UdpInv, Udp!OwnEcho
<1> QED
  BY <1>1, <1>2, <1>3, <1>4, <1>5 DEF Udp!Next, Udp!Server, Udp!Client

THEOREM UdpCorrect == Spec => []UdpInv
<1>1. Init => UdpInv
  BY DEF Init, Udp!Init, UdpInv, Udp!TypeOK, Udp!OwnEcho
<1>2. UdpInv /\ [Next]_vars => UdpInv'
  <2>1. UdpInv /\ UNCHANGED udpVars => UdpInv'
    BY DEF udpVars, UdpInv, Udp!TypeOK, Udp!OwnEcho
  <2> QED
    BY <2>1, OneRuns, UdpKeeps
<1> QED
  BY <1>1, <1>2, PTL DEF Spec

-------------------------------------------------------------------------------
(* The mutex and the semaphore example *)

InLock(t) == lockPc[t] \in {"load", "store", "unlock"}

\* The mutex is held between lock and unlock, by one thread at most, which has
\* loaded what the counter still is when it stores.  The counter is what was
\* made less what was taken.
LockInv ==
    /\ Locked!TypeOK
    /\ \A t \in Locked!Threads : InLock(t) <=> t \in lockHolder
    /\ \A t, u \in lockHolder : t = u
    /\ \A t \in Locked!Threads :
         /\ lockPc[t] = "store" => lockLoaded[t] = lockItem
         /\ lockPc[t] \in {"lock", "load", "store"} => lockRounds[t] < MaxRounds
    /\ lockItem = lockRounds["producter"] - lockRounds["consumer"]

LEMMA LockKeeps == ASSUME LockInv, Locked!Next PROVE LockInv'
<1>0. MaxRounds \in Nat /\ \A t \in Locked!Threads : lockRounds[t] \in 0 .. MaxRounds
  BY ProgramsAssumption DEF LockInv, Locked!TypeOK
<1>1. CASE Locked!Main
  BY <1>1 DEF Locked!Main, Locked!Stop, Locked!JoinConsumer, Locked!JoinProducter,
              Locked!counter, LockInv, Locked!TypeOK, InLock
<1> SUFFICES ASSUME NEW t \in Locked!Threads, Locked!Thread(t)
             PROVE  LockInv'
  BY <1>1 DEF Locked!Next
<1>2. CASE Locked!Test(t)
  <2>1. /\ lockPc[t] = "test" /\ lockRunning => lockRounds[t] < MaxRounds
        /\ lockPc' = [lockPc EXCEPT ![t] = IF lockRunning THEN "lock" ELSE "ended"]
        /\ UNCHANGED <<lockRunning, lockMain, lockHolder, lockItem, lockLoaded, lockRounds>>
    BY <1>2 DEF Locked!Test, Locked!Go, Locked!control, Locked!counter
  <2> QED
    BY <1>2, <2>1 DEF Locked!Test, LockInv, Locked!TypeOK, InLock
<1>3. CASE Locked!Lock(t)
  <2>1. /\ lockPc[t] = "lock" /\ lockHolder = {} /\ lockHolder' = {t}
        /\ lockPc' = [lockPc EXCEPT ![t] = "load"]
        /\ UNCHANGED <<lockRunning, lockMain, lockItem, lockLoaded, lockRounds>>
    BY <1>3 DEF Locked!Lock, Locked!LockWhen, Locked!Go, Locked!control, Locked!counter
  <2> QED
    BY <2>1 DEF LockInv, Locked!TypeOK, InLock
<1>4. CASE Locked!Load(t)
  <2>1. /\ lockPc[t] = "load" /\ lockLoaded' = [lockLoaded EXCEPT ![t] = lockItem]
        /\ lockPc' = [lockPc EXCEPT ![t] = "store"]
        /\ UNCHANGED <<lockRunning, lockMain, lockHolder, lockItem, lockRounds>>
    BY <1>4 DEF Locked!Load, Locked!Go, Locked!control
  <2> QED
    BY <2>1 DEF LockInv, Locked!TypeOK, InLock
<1>5. CASE Locked!Store(t)
  <2>1. /\ lockPc[t] = "store" /\ lockRounds' = [lockRounds EXCEPT ![t] = @ + 1]
        /\ lockItem' = lockLoaded[t] + IF t = "producter" THEN 1 ELSE -1
        /\ lockPc' = [lockPc EXCEPT ![t] = "unlock"]
        /\ UNCHANGED <<lockRunning, lockMain, lockHolder, lockLoaded>>
    BY <1>5 DEF Locked!Store, Locked!Go, Locked!control
  <2>2. /\ lockLoaded[t] = lockItem /\ lockRounds[t] < MaxRounds
        /\ \A u \in Locked!Threads : lockPc[u] = "store" => u = t
    BY <2>1 DEF LockInv, InLock
  <2>3. lockRounds' \in [Locked!Threads -> 0 .. MaxRounds]
    BY <1>0, <2>1, <2>2 DEF LockInv, Locked!TypeOK
  <2>4. lockItem' = lockRounds'["producter"] - lockRounds'["consumer"]
    BY <1>0, <2>1, <2>2 DEF LockInv, Locked!TypeOK, Locked!Threads
  <2>5. lockItem' \in Locked!Counts
    BY <1>0, <2>3, <2>4 DEF Locked!Counts, Locked!Threads
  <2>6. Locked!TypeOK'
    BY <2>1, <2>3, <2>5 DEF LockInv, Locked!TypeOK
  <2> QED
    BY <2>1, <2>2, <2>4, <2>6 DEF LockInv, Locked!TypeOK, InLock
<1>6. CASE Locked!Unlock(t)
  <2>1. /\ lockPc[t] = "unlock" /\ lockHolder' = lockHolder \ {t}
        /\ lockPc' = [lockPc EXCEPT ![t] = "test"]
        /\ UNCHANGED <<lockRunning, lockMain, lockItem, lockLoaded, lockRounds>>
    BY <1>6 DEF Locked!Unlock, Locked!UnlockTo, Locked!Go, Locked!control, Locked!counter
  <2> QED
    BY <2>1 DEF LockInv, Locked!TypeOK, InLock
<1> QED
  BY <1>2, <1>3, <1>4, <1>5, <1>6 DEF Locked!Thread

THEOREM LockCorrect == Spec => []LockInv
<1>1. Init => LockInv
  <2> SUFFICES ASSUME Locked!Init PROVE LockInv
    BY DEF Init
  <2>1. MaxRounds \in Nat
    BY ProgramsAssumption
  <2> QED
    BY <2>1 DEF Locked!Init, LockInv, Locked!TypeOK, Locked!Counts, Locked!Threads, InLock
<1>2. LockInv /\ [Next]_vars => LockInv'
  <2>1. LockInv /\ UNCHANGED lockVars => LockInv'
    BY DEF lockVars, LockInv, Locked!TypeOK, InLock
  <2> QED
    BY <2>1, OneRuns, LockKeeps
<1> QED
  BY <1>1, <1>2, PTL DEF Spec

\* The producer posts only below the bound.
SemInv ==
    /\ Sem!TypeOK
    /\ semPc["producter"] = "use" => semValue < MaxSem

THEOREM SemCorrect == Spec => []SemInv
<1>0. First \in Nat /\ MaxSem \in Nat /\ First <= MaxSem
  BY ProgramsAssumption DEF Sem!ThreadSemAssumption
<1>1. Init => SemInv
  BY <1>0 DEF Init, Sem!Init, SemInv, Sem!TypeOK, Sem!Threads
<1>2. SemInv /\ [Next]_vars => SemInv'
  <2> SUFFICES ASSUME SemInv, Sem!Next
               PROVE  SemInv'
    BY OneRuns DEF semVars, SemInv, Sem!TypeOK
  <2>1. CASE Sem!Main
    BY <2>1 DEF Sem!Main, Sem!Stop, Sem!JoinProducter, Sem!JoinConmuser, SemInv, Sem!TypeOK
  <2>2. CASE Sem!Producer
    BY <1>0, <2>2 DEF Sem!Producer, Sem!Test, Sem!Post, Sem!Go, SemInv, Sem!TypeOK, Sem!Threads
  <2>3. CASE Sem!Consumer
    BY <1>0, <2>3 DEF Sem!Consumer, Sem!Test, Sem!Wait, Sem!Go, SemInv, Sem!TypeOK, Sem!Threads
  <2> QED
    BY <2>1, <2>2, <2>3 DEF Sem!Next
<1> QED
  BY <1>1, <1>2, PTL DEF Spec

-------------------------------------------------------------------------------
(* The pipes *)

PipeWhole == IF pipeLoops THEN Total ELSE PipeBuf

\* No byte is lost on its way from the writer to the reader; a string that is
\* written once is in the pipe as a whole.
PipeInv ==
    /\ Pipe!TypeOK
    /\ pipePc["writer"] \in {"close", "write", "ended"}
    /\ pipePc["reader"] \in {"close", "read", "ended"}
    /\ pipePc["writer"] = "close" =>
         pipeBytes = 0 /\ pipeGot = 0 /\ pipeSize = PipeWhole /\ pipeCall = 0
    /\ pipePc["writer"] = "write" =>
         pipeGot + pipeBytes + pipeCall = PipeWhole /\ pipeCall <= pipeSize
    /\ pipePc["writer"] = "ended" => pipeGot + pipeBytes = PipeWhole
    /\ "writer" \notin pipeEnds => pipePc["writer"] = "ended"
    /\ ~pipeLoops =>
         /\ pipePc["writer"] = "write" => pipeSize = PipeBuf /\ pipeCall \in {0, PipeBuf}
         /\ pipePc["reader"] # "ended" => pipeGot = 0
    /\ Pipe!AllRead

LEMMA PipeSizes ==
  /\ Total \in Nat /\ ReadSize \in Nat /\ Capacity \in Nat /\ PipeBuf \in Nat \ {0}
  /\ PipeBuf <= Total /\ PipeBuf <= ReadSize /\ PipeBuf <= Capacity
  BY ProgramsAssumption DEF Pipe!PipesAssumption

LEMMA WriterKeeps == ASSUME PipeInv, Pipe!Writer PROVE PipeInv'
<1>0. /\ pipeLoops \in BOOLEAN /\ pipeSize \in Nat /\ pipeCall \in Nat /\ pipeGot \in Nat
      /\ pipeBytes \in Nat /\ pipeSize <= Total /\ pipeCall <= Total /\ pipeGot <= Total
      /\ pipePc \in [Pipe!Procs -> {"close", "write", "read", "ended"}]
      /\ PipeWhole \in Nat /\ PipeWhole <= Total
  BY PipeSizes DEF PipeInv, Pipe!TypeOK, PipeWhole
<1>1. CASE Pipe!CloseRead
  <2>1. /\ pipePc["writer"] = "close" /\ pipePc' = [pipePc EXCEPT !["writer"] = "write"]
        /\ pipeCall' = pipeSize
        /\ UNCHANGED <<pipeLoops, pipeEnds, pipeBytes, pipeSize, pipeGot>>
    BY <1>1 DEF Pipe!CloseRead, Pipe!Go
  <2>2. pipePc'["writer"] = "write" /\ pipePc'["reader"] = pipePc["reader"]
    BY <1>0, <2>1 DEF Pipe!Procs
  <2>3. Pipe!TypeOK'
    BY <1>0, <2>1 DEF PipeInv, Pipe!TypeOK
  <2> QED
    BY <1>0, <2>1, <2>2, <2>3 DEF PipeInv, PipeWhole, Pipe!AllRead
<1>2. CASE Pipe!Put
  <2>1. PICK k \in 1 .. pipeCall :
             /\ pipeSize <= PipeBuf => k = pipeCall
             /\ pipeBytes + k <= Capacity
             /\ pipeBytes' = pipeBytes + k /\ pipeCall' = pipeCall - k
    BY <1>2 DEF Pipe!Put
  <2>2. pipePc["writer"] = "write" /\ UNCHANGED <<pipeLoops, pipePc, pipeEnds, pipeSize, pipeGot>>
    BY <1>2 DEF Pipe!Put
  <2>3. Pipe!TypeOK'
    BY <1>0, <2>1, <2>2, PipeSizes DEF PipeInv, Pipe!TypeOK
  <2>4. pipeGot' + pipeBytes' + pipeCall' = PipeWhole /\ pipeCall' <= pipeSize'
    BY <1>0, <2>1, <2>2 DEF PipeInv
  <2>5. ~pipeLoops => pipeCall' = 0
    BY <1>0, <2>1, <2>2, PipeSizes DEF PipeInv
  <2> QED
    BY <1>0, <2>2, <2>3, <2>4, <2>5 DEF PipeInv, PipeWhole, Pipe!AllRead
<1>3. CASE Pipe!Written
  <2>1. /\ pipePc["writer"] = "write" /\ pipeCall < pipeSize
        /\ \/ /\ pipeCall = 0 /\ pipePc' = [pipePc EXCEPT !["writer"] = "ended"]
              /\ pipeEnds' = pipeEnds \ {"writer"}
           \/ pipeCall > 0 /\ pipeLoops /\ UNCHANGED <<pipePc, pipeEnds>>
        /\ pipeSize' = pipeCall
        /\ UNCHANGED <<pipeLoops, pipeBytes, pipeCall, pipeGot>>
    BY <1>3 DEF Pipe!Written, Pipe!WrittenThen, Pipe!Go
  <2>2. Pipe!TypeOK'
    BY <1>0, <2>1 DEF PipeInv, Pipe!TypeOK
  <2>3. /\ pipePc'["reader"] = pipePc["reader"]
        /\ \/ pipePc'["writer"] = "ended" /\ pipeCall = 0
           \/ pipePc'["writer"] = "write" /\ pipeLoops /\ pipeEnds' = pipeEnds
    <3>1. CASE pipeCall = 0 /\ pipePc' = [pipePc EXCEPT !["writer"] = "ended"]
      BY <1>0, <3>1 DEF Pipe!Procs
    <3>2. CASE pipeLoops /\ UNCHANGED <<pipePc, pipeEnds>>
      BY <2>1, <3>2
    <3> QED
      BY <2>1, <3>1, <3>2
  <2> QED
    BY <1>0, <2>1, <2>2, <2>3 DEF PipeInv, PipeWhole, Pipe!AllRead
<1> QED
  BY <1>1, <1>2, <1>3 DEF Pipe!Writer

LEMMA ReaderKeeps == ASSUME PipeInv, Pipe!Reader PROVE PipeInv'
<1>0. /\ pipeLoops \in BOOLEAN /\ pipeSize \in Nat /\ pipeCall \in Nat /\ pipeGot \in Nat
      /\ pipeBytes \in Nat /\ pipeBytes <= Capacity
      /\ pipeSize <= Total /\ pipeCall <= Total /\ pipeGot <= Total
      /\ pipePc \in [Pipe!Procs -> {"close", "write", "read", "ended"}]
      /\ PipeWhole \in Nat /\ PipeWhole <= Total
  BY PipeSizes DEF PipeInv, Pipe!TypeOK, PipeWhole
<1>1. CASE Pipe!CloseWrite
  <2>1. /\ pipePc["reader"] = "close" /\ pipePc' = [pipePc EXCEPT !["reader"] = "read"]
        /\ pipeEnds' = pipeEnds \ {"reader"}
        /\ UNCHANGED <<pipeLoops, pipeBytes, pipeSize, pipeCall, pipeGot>>
    BY <1>1 DEF Pipe!CloseWrite, Pipe!ReaderKeeps, Pipe!Go
  <2>2. pipePc'["reader"] = "read" /\ pipePc'["writer"] = pipePc["writer"]
    BY <1>0, <2>1 DEF Pipe!Procs
  <2>3. Pipe!TypeOK'
    BY <2>1 DEF PipeInv, Pipe!TypeOK
  <2> QED
    BY <1>0, <2>1, <2>2, <2>3 DEF PipeInv, PipeWhole, Pipe!AllRead
<1>2. CASE Pipe!Read
  <2> DEFINE k == IF pipeBytes < ReadSize THEN pipeBytes ELSE ReadSize
  <2>1. /\ pipePc["reader"] = "read" /\ pipeBytes > 0
        /\ pipeBytes' = pipeBytes - k /\ pipeGot' = pipeGot + k
        /\ pipePc' = [pipePc EXCEPT !["reader"] = IF pipeLoops THEN "read" ELSE "ended"]
        /\ UNCHANGED <<pipeLoops, pipeEnds, pipeSize, pipeCall>>
    BY <1>2 DEF Pipe!Read, Pipe!Go
  <2>2. k \in Nat /\ k <= pipeBytes
    BY <1>0, PipeSizes
  <2> HIDE DEF k
  <2>3. /\ pipePc'["writer"] = pipePc["writer"]
        /\ pipePc'["reader"] = IF pipeLoops THEN "read" ELSE "ended"
    BY <1>0, <2>1 DEF Pipe!Procs
  <2>4. pipeGot' + pipeBytes' = pipeGot + pipeBytes /\ pipePc["writer"] # "close"
    BY <1>0, <2>1, <2>2 DEF PipeInv
  <2>5. pipeGot + pipeBytes <= PipeWhole
    BY <1>0, <2>4 DEF PipeInv
  <2>6. pipeGot' \in Nat /\ pipeBytes' \in Nat /\ pipeGot' <= Total /\ pipeBytes' <= Capacity
    BY <1>0, <2>1, <2>2, <2>5, PipeSizes
  <2>7. Pipe!TypeOK'
    <3>1. pipePc' \in [Pipe!Procs -> {"close", "write", "read", "ended"}]
      BY <1>0, <2>1
    <3> QED
      BY <1>0, <2>1, <2>6, <3>1, PipeSizes DEF PipeInv, Pipe!TypeOK
  <2>8. ~pipeLoops => pipeGot' = PipeBuf
    <3> SUFFICES ASSUME ~pipeLoops PROVE pipeGot' = PipeBuf
      OBVIOUS
    <3>1. pipeGot = 0 /\ pipeBytes = PipeBuf
      BY <1>0, <2>1, <2>4, PipeSizes DEF PipeInv, PipeWhole
    <3>2. k = PipeBuf
      BY <3>1, PipeSizes DEF k
    <3> QED
      BY <2>1, <3>1, <3>2, PipeSizes
  <2> QED
    BY <1>0, <2>1, <2>3, <2>4, <2>6, <2>7, <2>8 DEF PipeInv, PipeWhole, Pipe!AllRead
<1>3. CASE Pipe!ReadEnd
  <2>1. /\ pipePc["reader"] = "read" /\ pipeBytes = 0 /\ pipeEnds = {}
        /\ pipePc' = [pipePc EXCEPT !["reader"] = "ended"]
        /\ UNCHANGED <<pipeLoops, pipeEnds, pipeBytes, pipeSize, pipeCall, pipeGot>>
    BY <1>3 DEF Pipe!ReadEnd, Pipe!Go
  <2>2. pipePc'["reader"] = "ended" /\ pipePc'["writer"] = pipePc["writer"]
    BY <1>0, <2>1 DEF Pipe!Procs
  <2>3. Pipe!TypeOK'
    BY <2>1 DEF PipeInv, Pipe!TypeOK
  <2>4. pipeGot = PipeWhole
    BY <1>0, <2>1 DEF PipeInv
  <2> QED
    BY <1>0, <2>1, <2>2, <2>3, <2>4 DEF PipeInv, PipeWhole, Pipe!AllRead
<1> QED
  BY <1>1, <1>2, <1>3 DEF Pipe!Reader

THEOREM PipeCorrect == Spec => []PipeInv
<1>1. Init => PipeInv
  <2> SUFFICES ASSUME Pipe!Init PROVE PipeInv
    BY DEF Init
  <2>1. Pipe!TypeOK
    BY PipeSizes DEF Pipe!Init, Pipe!TypeOK
  <2> QED
    BY <2>1 DEF Pipe!Init, PipeInv, PipeWhole, Pipe!AllRead, Pipe!Procs
<1>2. PipeInv /\ [Next]_vars => PipeInv'
  <2>1. PipeInv /\ UNCHANGED pipeVars => PipeInv'
    BY DEF pipeVars, PipeInv, PipeWhole, Pipe!TypeOK, Pipe!AllRead
  <2> QED
    BY <2>1, OneRuns, WriterKeeps, ReaderKeeps DEF Pipe!Next
<1> QED
  BY <1>1, <1>2, PTL DEF Spec

-------------------------------------------------------------------------------
\* What the programs print is right: the counter of thread_lock.c, the bytes
\* that pipe_buf_test.c has read, the answer that a UDP client gets.
THEOREM ResultsCorrect == Spec => []ResultsRight
<1>1. LockInv /\ PipeInv /\ UdpInv => ResultsRight
  BY DEF LockInv, PipeInv, UdpInv, ResultsRight, Locked!NoneLost
<1> QED
  BY <1>1, LockCorrect, PipeCorrect, UdpCorrect, PTL
-------------------------------------------------------------------------------
(* The server on the thread pool *)

PoolK == INSTANCE SocketsProofs WITH
    Clients <- FewClients,
    sock <- poolSock, peer <- poolPeer, fd <- poolFd, inbox <- poolIn, outbox <- poolOut

\* Descriptors are watched from accept() on and never closed, so every slot that
\* an event was ever put in still holds one that is open: the tasks' slots too,
\* however often they are overwritten.
PoolInv ==
    /\ poolPc \in {"wait", "events", "ended"}
    /\ poolCurFd \in 1 .. MaxClient /\ poolFds \in 0 .. MaxClient /\ poolI \in 0 .. poolFds
    /\ poolEvents \in [Pool!Slots -> PoolK!Fds \union {PoolK!ss, PoolK!NoFd}]
    /\ poolArg \in [Pool!Tasks -> Pool!Slots]
    /\ poolStage \in [Pool!Tasks -> {"none", "recv", "send", "sent", "exited"}]
    /\ poolAccepted \in 0 .. QueueMax /\ poolPending \in Seq(1 .. poolAccepted)
    /\ poolHeld \subseteq Pool!Tasks
    /\ \A t \in Pool!Tasks : poolStage[t] # "none" => t <= poolAccepted
    /\ PoolK!KernelInv
    /\ poolWatch \subseteq {PoolK!ss} \union PoolK!OpenFds
    /\ \A k \in Pool!Slots : k < poolFds => poolEvents[k] \in poolWatch
    /\ \A t \in Pool!Tasks : t <= poolAccepted => poolEvents[poolArg[t]] \in poolWatch

LEMMA PoolConstants ==
  /\ PoolK!SocketsAssumption
  /\ MaxClient \in Nat \ {0} /\ QueueMax \in Nat \ {0}
  BY ProgramsAssumption
     DEF PoolK!SocketsAssumption, PoolK!IsFiniteSet, IsFiniteSet, Pool!EpollPoolAssumption

LEMMA PoolKernel ==
  /\ Pool!ss = PoolK!ss /\ Pool!NoFd = PoolK!NoFd /\ Pool!Fds = PoolK!Fds
  /\ Pool!OpenFds = PoolK!OpenFds
  /\ \A f : Pool!ClientOf(f) = PoolK!ClientOf(f)
  /\ Pool!Pending = PoolK!Pending /\ Pool!NewFd = PoolK!NewFd
  /\ \A S : Pool!Smallest(S) = PoolK!Smallest(S)
<1>1. /\ Pool!ss = PoolK!ss /\ Pool!NoFd = PoolK!NoFd
      /\ \A S : Pool!Smallest(S) = PoolK!Smallest(S)
  BY DEF Pool!ss, PoolK!ss, Pool!NoFd, PoolK!NoFd, Pool!Smallest, PoolK!Smallest
<1>2. Pool!Fds = PoolK!Fds
  BY <1>1 DEF Pool!Fds, PoolK!Fds, Pool!Cardinality, PoolK!Cardinality
<1>3. Pool!OpenFds = PoolK!OpenFds
  BY <1>1 DEF Pool!OpenFds, PoolK!OpenFds
<1>4. \A f : Pool!ClientOf(f) = PoolK!ClientOf(f)
  BY DEF Pool!ClientOf, PoolK!ClientOf
<1>5. Pool!Pending = PoolK!Pending
  BY DEF Pool!Pending, PoolK!Pending
<1>6. Pool!NewFd = PoolK!NewFd
  BY <1>1, <1>2, <1>3 DEF Pool!NewFd, PoolK!NewFd
<1> QED
  BY <1>1, <1>2, <1>3, <1>4, <1>5, <1>6

\* A descriptor that a task has found is that of a client.
LEMMA PoolTaskClient ==
  ASSUME PoolInv, NEW t \in Pool!Tasks, poolStage[t] # "none", Pool!Fd(t) # Pool!ss
  PROVE  Pool!ClientOf(Pool!Fd(t)) \in FewClients
<1>1. Pool!Fd(t) \in poolWatch
  BY DEF PoolInv, Pool!Fd
<1>2. Pool!Fd(t) \in PoolK!OpenFds
  BY <1>1, PoolKernel DEF PoolInv
<1> QED
  BY <1>2, PoolK!OpenFdClient, PoolConstants, PoolKernel DEF PoolInv

\* A step of the kernel that opens no descriptor, and of nothing else.
LEMMA PoolKernelStep ==
  ASSUME PoolInv, PoolK!KernelInv', PoolK!OpenFds' = PoolK!OpenFds,
         UNCHANGED <<poolWatch, poolEvents, poolFds, poolCurFd, poolArg, poolPending,
                     poolAccepted>>,
         poolPc' \in {"wait", "events", "ended"}, poolI' \in 0 .. poolFds,
         poolStage' \in [Pool!Tasks -> {"none", "recv", "send", "sent", "exited"}],
         poolHeld' \subseteq Pool!Tasks,
         \A t \in Pool!Tasks : poolStage[t] = "none" => poolStage'[t] = "none"
  PROVE  PoolInv'
<1>1. /\ Pool!Slots' = Pool!Slots /\ Pool!Tasks' = Pool!Tasks /\ PoolK!ss' = PoolK!ss
      /\ PoolK!NoFd' = PoolK!NoFd /\ PoolK!Fds' = PoolK!Fds
  OBVIOUS
<1> QED
  BY <1>1 DEF PoolInv

LEMMA PoolSame == PoolK!KernelInv /\ UNCHANGED Pool!kernel =>
                      PoolK!KernelInv' /\ PoolK!OpenFds' = PoolK!OpenFds
  BY DEF Pool!kernel, PoolK!KernelInv, PoolK!KernelTypeOK, PoolK!OpenFds

\* epoll_wait fills slots with descriptors that are watched.
LEMMA PoolWaitKeeps ==
  ASSUME PoolInv, Pool!Wait
  PROVE  PoolInv'
<1>1. /\ poolFds' = Pool!Smallest({poolCurFd, Pool!Cardinality(Pool!Ready)})
      /\ Pool!Ready # {} /\ poolI' = 0 /\ poolPc' = "events"
      /\ UNCHANGED <<poolWatch, poolCurFd, poolArg, poolStage, poolPending, poolHeld,
                     poolAccepted, poolClosed>>
      /\ UNCHANGED Pool!kernel
  BY DEF Pool!Wait, Pool!pool
<1>2. Pool!Ready \subseteq poolWatch /\ poolWatch \subseteq PoolK!Fds \union {PoolK!ss}
  BY PoolK!OpenFdClient, PoolConstants DEF Pool!Ready, PoolInv
<1>3. poolFds' \in Nat /\ poolFds' <= poolCurFd
  <2>1. IsFiniteSet(PoolK!Fds)
    BY PoolK!FdsType, PoolConstants DEF IsFiniteSet, PoolK!IsFiniteSet
  <2>2. IsFiniteSet(Pool!Ready)
    BY <1>2, <2>1, FS_AddElement, FS_Subset
  <2>3. Pool!Cardinality(Pool!Ready) = Cardinality(Pool!Ready)
    BY DEF Pool!Cardinality, Cardinality
  <2>4. Pool!Cardinality(Pool!Ready) \in Nat
    BY <2>2, <2>3, FS_CardinalityType
  <2> DEFINE S == {poolCurFd, Pool!Cardinality(Pool!Ready)}
  <2>5. S \in SUBSET Nat /\ S # {} /\ poolCurFd \in S
    BY <2>4 DEF PoolInv
  <2>6. poolFds' \in S /\ \A n \in S : poolFds' <= n
    <3>1. poolFds' = PoolK!Smallest(S)
      BY <1>1, PoolKernel
    <3> QED
      BY <2>5, <3>1, PoolK!SmallestOf, PoolConstants
  <2> QED
    BY <2>5, <2>6
<1>4. /\ poolFds' \in 0 .. MaxClient /\ 0 \in 0 .. poolFds'
      /\ \A k \in Pool!Slots : k < poolFds' => k \in 0 .. poolFds'-1
  <2> HIDE DEF PoolInv
  <2> PICK n : n = poolFds'
    OBVIOUS
  <2>1. n \in Nat /\ n <= poolCurFd /\ poolCurFd \in 1 .. MaxClient
    BY <1>3 DEF PoolInv
  <2>2. n \in 0 .. MaxClient /\ 0 \in 0 .. n
    BY <2>1, PoolConstants
  <2>3. \A k \in Pool!Slots : k < n => k \in 0 .. n-1
    <3>1. n \in Nat /\ \A k \in Pool!Slots : k \in Nat
      BY <2>1, PoolConstants DEF Pool!Slots
    <3> QED
      BY <3>1, BelowCount
  <2> QED
    BY <2>2, <2>3
<1>5. PICK reported \in [0 .. poolFds'-1 -> Pool!Ready] :
           poolEvents' = [k \in Pool!Slots |-> IF k < poolFds' THEN reported[k] ELSE poolEvents[k]]
  BY DEF Pool!Wait
<1>6. \A k \in Pool!Slots :
          /\ k < poolFds' => poolEvents'[k] \in Pool!Ready
          /\ ~(k < poolFds') => poolEvents'[k] = poolEvents[k]
  BY <1>4, <1>5
<1>7. poolEvents' \in [Pool!Slots -> PoolK!Fds \union {PoolK!ss, PoolK!NoFd}]
  <2>1. \A k \in Pool!Slots : poolEvents'[k] \in PoolK!Fds \union {PoolK!ss, PoolK!NoFd}
    BY <1>2, <1>6 DEF PoolInv
  <2>2. poolEvents' = [k \in Pool!Slots |-> poolEvents'[k]]
    BY <1>5
  <2> QED
    BY <2>1, <2>2
<1>8. /\ \A t \in Pool!Tasks : t <= poolAccepted' => poolEvents'[poolArg'[t]] \in poolWatch'
      /\ \A k \in Pool!Slots : k < poolFds' => poolEvents'[k] \in poolWatch'
  BY <1>1, <1>2, <1>6 DEF PoolInv
<1>9. PoolK!KernelInv' /\ poolWatch' \subseteq {PoolK!ss} \union PoolK!OpenFds'
  BY <1>1, PoolSame DEF PoolInv
<1>10. /\ poolPc' \in {"wait", "events", "ended"} /\ poolCurFd' \in 1 .. MaxClient
       /\ poolI' \in 0 .. poolFds'
       /\ poolArg' \in [Pool!Tasks -> Pool!Slots]
       /\ poolStage' \in [Pool!Tasks -> {"none", "recv", "send", "sent", "exited"}]
       /\ poolAccepted' \in 0 .. QueueMax /\ poolPending' \in Seq(1 .. poolAccepted')
       /\ poolHeld' \subseteq Pool!Tasks
       /\ \A t \in Pool!Tasks : poolStage'[t] # "none" => t <= poolAccepted'
  BY <1>1, <1>4 DEF PoolInv
<1> QED
  BY <1>4, <1>7, <1>8, <1>9, <1>10 DEF PoolInv

\* A client is accepted: its descriptor is open from now on.
LEMMA PoolAcceptKeeps ==
  ASSUME PoolInv, Pool!Accept
  PROVE  PoolInv'
<1>1. PICK c \in Pool!Pending : Pool!AcceptFrom(c)
  BY DEF Pool!Accept
<1>2. /\ poolI < poolFds /\ poolI' = poolI + 1 /\ poolCurFd < MaxClient
      /\ poolWatch' = poolWatch \union {PoolK!NewFd} /\ poolCurFd' = poolCurFd + 1
      /\ UNCHANGED <<poolPc, poolEvents, poolFds, poolArg, poolStage, poolPending, poolHeld,
                     poolAccepted>>
  BY PoolKernel DEF Pool!Accept, Pool!Event, Pool!NewClient, Pool!add_fd_epoll, Pool!pool
<1>3. PoolK!KernelInv' /\ PoolK!OpenFds' = PoolK!OpenFds \union {PoolK!NewFd}
  <2>1. c \in FewClients /\ poolSock[c] = "pending"
    BY <1>1 DEF Pool!Pending
  <2>2. PoolK!AcceptFrom(c)
    BY <1>1, PoolKernel DEF Pool!AcceptFrom, PoolK!AcceptFrom
  <2> QED
    BY <2>1, <2>2, PoolK!AcceptKeeps, PoolConstants DEF PoolInv
<1>4. poolCurFd' \in 1 .. MaxClient /\ poolI' \in 0 .. poolFds
  BY <1>2, PoolConstants DEF PoolInv
<1> QED
  BY <1>2, <1>3, <1>4 DEF PoolInv

\* A task points to a slot that an event has just been found in.
LEMMA PoolAddKeeps ==
  ASSUME PoolInv, Pool!AddTask
  PROVE  PoolInv'
<1>1. /\ poolI < poolFds /\ poolI' = poolI + 1 /\ poolAccepted < QueueMax
      /\ poolAccepted' = poolAccepted + 1
      /\ poolPending' = Append(poolPending, poolAccepted + 1)
      /\ poolArg' = [poolArg EXCEPT ![poolAccepted + 1] = poolI]
      /\ UNCHANGED <<poolPc, poolWatch, poolEvents, poolFds, poolCurFd, poolStage, poolHeld>>
      /\ UNCHANGED Pool!kernel
  BY DEF Pool!AddTask, Pool!Event, Pool!Queue!Accept
<1>2. /\ poolI \in Pool!Slots /\ poolEvents[poolI] \in poolWatch /\ poolI' \in 0 .. poolFds
      /\ poolAccepted' \in 0 .. QueueMax /\ poolAccepted' \in Pool!Tasks
  BY <1>1, PoolConstants DEF PoolInv, Pool!Slots, Pool!Tasks
<1>3. poolArg' \in [Pool!Tasks -> Pool!Slots]
  BY <1>1, <1>2 DEF PoolInv
<1>4. poolPending' \in Seq(1 .. poolAccepted')
  <2>1. 1 .. poolAccepted \subseteq 1 .. poolAccepted' /\ poolAccepted' \in 1 .. poolAccepted'
    BY <1>1 DEF PoolInv
  <2>2. poolPending \in Seq(1 .. poolAccepted')
    BY <2>1, WiderSeq DEF PoolInv
  <2> QED
    BY <1>1, <2>1, <2>2, LongerSeq
<1>5. \A t \in Pool!Tasks : t <= poolAccepted' =>
          \/ t = poolAccepted' /\ poolArg'[t] = poolI
          \/ t <= poolAccepted /\ poolArg'[t] = poolArg[t]
  BY <1>1, <1>2 DEF PoolInv, Pool!Tasks
<1>6. PoolK!KernelInv' /\ PoolK!OpenFds' = PoolK!OpenFds
  BY <1>1, PoolSame DEF PoolInv
<1>7. \A t \in Pool!Tasks : poolStage'[t] # "none" => t <= poolAccepted'
  BY <1>1 DEF PoolInv, Pool!Tasks
<1>8. \A t \in Pool!Tasks : t <= poolAccepted' => poolEvents'[poolArg'[t]] \in poolWatch'
  BY <1>1, <1>2, <1>5 DEF PoolInv
<1> QED
  BY <1>1, <1>2, <1>3, <1>4, <1>6, <1>7, <1>8 DEF PoolInv

LEMMA PoolMainKeeps ==
  ASSUME PoolInv, Pool!Main
  PROVE  PoolInv'
<1>1. CASE Pool!WaitFails \/ Pool!EventsDone \/ Pool!AddFrees
  <2>1. /\ UNCHANGED <<poolWatch, poolEvents, poolFds, poolCurFd, poolArg, poolPending,
                       poolAccepted, poolStage, poolHeld, poolI>>
        /\ UNCHANGED Pool!kernel /\ poolPc' \in {"wait", "events", "ended"}
    BY <1>1 DEF Pool!WaitFails, Pool!EventsDone, Pool!AddFrees, Pool!loop, Pool!pool
  <2> QED
    BY <2>1, PoolSame, PoolKernelStep DEF PoolInv
<1>2. CASE Pool!AcceptFails
  <2>1. /\ UNCHANGED <<poolWatch, poolEvents, poolFds, poolCurFd, poolArg, poolPending,
                       poolAccepted, poolStage, poolHeld, poolPc>>
        /\ UNCHANGED Pool!kernel /\ poolI < poolFds /\ poolI' = poolI + 1
    BY <1>2 DEF Pool!AcceptFails, Pool!Event, Pool!pool
  <2>2. poolI' \in 0 .. poolFds
    BY <2>1 DEF PoolInv
  <2> QED
    BY <2>1, <2>2, PoolSame, PoolKernelStep DEF PoolInv
<1> QED
  BY <1>1, <1>2, PoolWaitKeeps, PoolAcceptKeeps, PoolAddKeeps DEF Pool!Main

LEMMA PoolTakeKeeps ==
  ASSUME PoolInv, Pool!TakeTask
  PROVE  PoolInv'
<1>1. /\ poolPending # <<>> /\ poolHeld' = poolHeld \union {Head(poolPending)}
      /\ poolPending' = Tail(poolPending)
      /\ poolStage' = [poolStage EXCEPT ![Head(poolPending)] = "recv"]
      /\ UNCHANGED <<poolPc, poolWatch, poolEvents, poolI, poolFds, poolCurFd, poolArg,
                     poolAccepted>>
      /\ UNCHANGED Pool!kernel
  BY DEF Pool!TakeTask, Pool!Queue!HandOut, Pool!loop
<1>2. Head(poolPending) \in 1 .. poolAccepted /\ poolPending' \in Seq(1 .. poolAccepted)
  BY <1>1, SequenceParts DEF PoolInv
<1>3. Head(poolPending) \in Pool!Tasks /\ Head(poolPending) <= poolAccepted
  <2> PICK t : t = Head(poolPending)
    OBVIOUS
  <2> QED
    BY <1>2, PoolConstants DEF PoolInv, Pool!Tasks
<1>4. PoolK!KernelInv' /\ PoolK!OpenFds' = PoolK!OpenFds
  BY <1>1, PoolSame DEF PoolInv
<1>5. /\ poolStage' \in [Pool!Tasks -> {"none", "recv", "send", "sent", "exited"}]
      /\ \A t \in Pool!Tasks : poolStage'[t] # "none" => t <= poolAccepted
      /\ poolHeld' \subseteq Pool!Tasks
  BY <1>1, <1>3 DEF PoolInv
<1> QED
  BY <1>1, <1>2, <1>4, <1>5 DEF PoolInv

LEMMA PoolWorkerKeeps ==
  ASSUME PoolInv, NEW t \in Pool!Tasks, Pool!Worker(t)
  PROVE  PoolInv'
<1>1. /\ UNCHANGED <<poolWatch, poolEvents, poolI, poolFds, poolCurFd, poolArg, poolPending,
                     poolAccepted>>
      /\ poolPc' \in {"wait", "events", "ended"} /\ poolHeld' \subseteq Pool!Tasks
      /\ poolStage[t] # "none"
      /\ \E s \in {"recv", "send", "sent", "exited"} : poolStage' = [poolStage EXCEPT ![t] = s]
  <2>1. CASE Pool!Recv(t) \/ Pool!RecvNothing(t)
    BY <2>1 DEF Pool!Recv, Pool!RecvNothing, Pool!At, Pool!loop, PoolInv
  <2>2. CASE Pool!Send(t)
    BY <2>2 DEF Pool!Send, Pool!At, Pool!loop, Pool!Queue!Finish, PoolInv
  <2>3. CASE Pool!SendKills(t)
    <3>1. poolStage' = [poolStage EXCEPT ![t] = "send"]
      BY <2>3 DEF Pool!SendKills, Pool!At, Pool!pool, PoolInv
    <3> QED
      BY <2>3, <3>1 DEF Pool!SendKills, Pool!At, Pool!loop, Pool!pool, PoolInv
  <2> QED
    BY <2>1, <2>2, <2>3 DEF Pool!Worker
<1>2. \/ UNCHANGED Pool!kernel
      \/ \E c \in FewClients : PoolK!RecvFrom(c) \/ PoolK!SendTo(c)
  <2>1. CASE Pool!Recv(t)
    <3>1. Pool!ClientOf(Pool!Fd(t)) \in FewClients
      BY <1>1, <2>1, PoolTaskClient DEF Pool!Recv
    <3>2. PoolK!RecvFrom(Pool!ClientOf(Pool!Fd(t)))
      BY <2>1 DEF Pool!Recv, Pool!RecvFrom, PoolK!RecvFrom
    <3> QED
      BY <3>1, <3>2
  <2>2. CASE Pool!Send(t)
    <3>1. Pool!ClientOf(Pool!Fd(t)) \in FewClients
      BY <1>1, <2>2, PoolTaskClient DEF Pool!Send
    <3>2. PoolK!SendTo(Pool!ClientOf(Pool!Fd(t))) \/ UNCHANGED Pool!kernel
      BY <2>2 DEF Pool!Send, Pool!SendTo, PoolK!SendTo
    <3> QED
      BY <3>1, <3>2
  <2> QED
    BY <2>1, <2>2 DEF Pool!Worker, Pool!RecvNothing, Pool!SendKills
<1>3. PoolK!KernelInv' /\ PoolK!OpenFds' = PoolK!OpenFds
  BY <1>2, PoolSame, PoolK!TransferKeeps, PoolConstants DEF PoolInv
<1>4. /\ poolStage' \in [Pool!Tasks -> {"none", "recv", "send", "sent", "exited"}]
      /\ \A u \in Pool!Tasks : poolStage[u] = "none" => poolStage'[u] = "none"
      /\ poolI' \in 0 .. poolFds
  BY <1>1 DEF PoolInv
<1> QED
  BY <1>1, <1>3, <1>4, PoolKernelStep

LEMMA PoolClientKeeps ==
  ASSUME PoolInv, NEW c \in FewClients, Pool!Client(c)
  PROVE  PoolInv'
<1>1. UNCHANGED <<poolPc, poolWatch, poolEvents, poolI, poolFds, poolCurFd, poolArg,
                  poolPending, poolAccepted, poolStage, poolHeld>>
  BY DEF Pool!Client, Pool!loop, Pool!pool
<1>2. PoolK!Connect(c) \/ PoolK!ClientStep(c)
  BY DEF Pool!Client, Pool!Connects, Pool!Types, Pool!Displays, Pool!Interrupt,
         Pool!Connect, PoolK!Connect, PoolK!ClientStep, Pool!ClientSend, PoolK!ClientSend,
         Pool!ClientRead, PoolK!ClientRead, Pool!HangUp, PoolK!HangUp,
         Pool!ResetArrives, PoolK!ResetArrives, Pool!Connected, PoolK!Connected
<1>3. PoolK!KernelInv' /\ PoolK!OpenFds' = PoolK!OpenFds
  BY <1>2, PoolK!ClientKeeps, PoolConstants DEF PoolInv
<1> QED
  BY <1>1, <1>3, PoolKernelStep DEF PoolInv

THEOREM PoolCorrect == Spec => []PoolInv
<1>1. Init => PoolInv
  <2> SUFFICES ASSUME Pool!Init PROVE PoolInv
    BY DEF Init
  <2>1. PoolK!KernelInv /\ PoolK!OpenFds = {}
    <3>1. PoolK!KernelInit
      BY DEF Pool!Init, Pool!KernelInit, PoolK!KernelInit, Pool!NoFd, PoolK!NoFd
    <3> QED
      BY <3>1, PoolK!KernelStarts, PoolConstants
  <2>2. /\ poolPc = "wait" /\ poolWatch = {PoolK!ss} /\ poolCurFd = 1
        /\ poolEvents = [k \in Pool!Slots |-> PoolK!NoFd] /\ poolI = 0 /\ poolFds = 0
        /\ poolArg = [t \in Pool!Tasks |-> 0] /\ poolStage = [t \in Pool!Tasks |-> "none"]
        /\ poolPending = <<>> /\ poolHeld = {} /\ poolAccepted = 0
    BY PoolKernel DEF Pool!Init, Pool!Queue!Init
  <2>3. poolPending \in Seq(1 .. poolAccepted) /\ 0 \in Pool!Slots
    BY <2>2, NoElement, PoolConstants DEF Pool!Slots
  <2>4. \A t \in Pool!Tasks : ~(t <= poolAccepted)
    BY <2>2, PoolConstants DEF Pool!Tasks
  <2>5. \A k \in Pool!Slots : ~(k < poolFds)
    BY <2>2, PoolConstants DEF Pool!Slots
  <2> QED
    BY <2>1, <2>2, <2>3, <2>4, <2>5, PoolConstants DEF PoolInv
<1>2. PoolInv /\ [Next]_vars => PoolInv'
  <2>1. PoolInv /\ UNCHANGED poolVars => PoolInv'
    <3> SUFFICES ASSUME PoolInv, UNCHANGED poolVars PROVE PoolInv'
      OBVIOUS
    <3>1. /\ UNCHANGED <<poolPc, poolWatch, poolEvents, poolI, poolFds, poolCurFd, poolArg,
                         poolPending, poolAccepted, poolStage, poolHeld>>
          /\ UNCHANGED Pool!kernel
      BY DEF poolVars, Pool!kernel
    <3> QED
      BY <3>1, PoolSame, PoolKernelStep DEF PoolInv
  <2> QED
    BY <2>1, OneRuns, PoolMainKeeps, PoolTakeKeeps, PoolWorkerKeeps, PoolClientKeeps
       DEF Pool!Next
<1> QED
  BY <1>1, <1>2, PTL DEF Spec

\* practise/epoll_thread_model.c: whatever its slot of events holds by now, a
\* task finds an open descriptor that is watched.
THEOREM HandlesCorrect == Spec => []HandlesOpen
<1>1. PoolInv => HandlesOpen
  BY PoolKernel DEF PoolInv, HandlesOpen, Pool!HandlesOpen, Pool!Fd
<1> QED
  BY <1>1, PoolCorrect, PTL

-------------------------------------------------------------------------------
(* The forking echo server *)

\* Only the first process is ever between accept and close, with no connection
\* open but the one it has just accepted.  A child that comes back to the accept
\* loop has closed the listening socket, and so gets no further.
EchoInv ==
    /\ Echo!TypeOK
    /\ \A p \in Echo!Procs : echoCs[p] = {} \/ \E c \in FewClients : echoCs[p] = {c}
    /\ \A p \in Children :
         /\ p \in echoSs => echoPc[p] = "child"
         /\ echoPc[p] \notin {"fork", "close"}
         /\ echoPc[p] \in {"child", "read", "reply"} => echoHolds[p] = echoCs[p]
    /\ echoPc[Parent] \in {"accept", "fork", "close"}
    /\ echoPc[Parent] = "accept" => echoHolds[Parent] = {}
    /\ echoPc[Parent] \in {"fork", "close"} => echoHolds[Parent] = echoCs[Parent]

\* TypeOK counts what EchoInv says without counting.
LEMMA EchoAtMostOne ==
  ASSUME NEW S, S = {} \/ \E x : S = {x}
  PROVE  Echo!Cardinality(S) <= 1
<1>1. Echo!Cardinality(S) = Cardinality(S)
  BY DEF Echo!Cardinality, Cardinality
<1>2. Cardinality(S) \in {0, 1}
  BY FS_EmptySet, FS_Singleton
<1> QED
  BY <1>1, <1>2

LEMMA EchoLoopKeeps ==
  ASSUME EchoInv, NEW p \in Echo!Procs, Echo!Loop(p)
  PROVE  EchoInv'
<1>0. Parent \notin Children /\ Echo!Procs = Children \union {Parent}
  BY ProgramsAssumption DEF Echo!Procs
<1>1. CASE Echo!Accept(p)
  <2>1. PICK c \in echoBacklog :
             /\ echoBacklog' = echoBacklog \ {c}
             /\ echoCs' = [echoCs EXCEPT ![p] = {c}]
             /\ echoHolds' = [echoHolds EXCEPT ![p] = @ \union {c}]
    BY <1>1 DEF Echo!Accept
  <2>2. /\ echoPc[p] = "accept" /\ p \in echoSs /\ echoPc' = [echoPc EXCEPT ![p] = "fork"]
        /\ UNCHANGED <<echoSs, echoClient, echoRequest, echoReply>>
    BY <1>1 DEF Echo!Accept, Echo!Go
  <2>3. p = Parent /\ c \in FewClients /\ echoHolds[p] = {}
    BY <1>0, <2>2 DEF EchoInv, Echo!TypeOK
  <2>4. \A q \in Echo!Procs : echoCs'[q] = {} \/ \E d \in FewClients : echoCs'[q] = {d}
    BY <2>1, <2>3 DEF EchoInv, Echo!TypeOK
  <2>5. Echo!TypeOK'
    BY <2>1, <2>2, <2>3, <2>4, EchoAtMostOne DEF EchoInv, Echo!TypeOK
  <2>6. /\ \A q \in Children : UNCHANGED <<echoPc[q], echoHolds[q], echoCs[q]>>
        /\ echoPc'[Parent] = "fork" /\ echoHolds'[Parent] = {c} /\ echoCs'[Parent] = {c}
    BY <1>0, <2>1, <2>2, <2>3 DEF EchoInv, Echo!TypeOK
  <2> QED
    BY <2>2, <2>4, <2>5, <2>6 DEF EchoInv
<1>2. CASE Echo!Fork(p)
  <2>1. PICK q \in Children :
             /\ echoPc[q] = "none"
             /\ echoPc' = [echoPc EXCEPT ![p] = "close", ![q] = "child"]
             /\ echoSs' = IF p \in echoSs THEN echoSs \union {q} ELSE echoSs
             /\ echoHolds' = [echoHolds EXCEPT ![q] = echoHolds[p]]
             /\ echoCs' = [echoCs EXCEPT ![q] = echoCs[p]]
    BY <1>2 DEF Echo!Fork
  <2>2. echoPc[p] = "fork" /\ UNCHANGED <<echoClient, echoBacklog, echoRequest, echoReply>>
    BY <1>2 DEF Echo!Fork, Echo!clients
  <2>3. p = Parent /\ q # p /\ echoHolds[p] = echoCs[p]
    BY <1>0, <2>2 DEF EchoInv
  <2>4. \A r \in Echo!Procs : echoCs'[r] = {} \/ \E d \in FewClients : echoCs'[r] = {d}
    BY <2>1, <2>3 DEF EchoInv, Echo!TypeOK
  <2>5. Echo!TypeOK'
    BY <1>0, <2>1, <2>2, <2>3, <2>4, EchoAtMostOne DEF EchoInv, Echo!TypeOK
  <2> QED
    BY <1>0, <2>1, <2>2, <2>3, <2>4, <2>5 DEF EchoInv, Echo!TypeOK
<1>3. CASE Echo!ForkFails(p)
  <2>1. /\ echoPc[p] = "fork" /\ echoPc' = [echoPc EXCEPT ![p] = "close"]
        /\ UNCHANGED <<echoSs, echoHolds, echoCs, echoClient, echoBacklog, echoRequest, echoReply>>
    BY <1>3 DEF Echo!ForkFails, Echo!Go, Echo!clients
  <2>2. p = Parent
    BY <1>0, <2>1 DEF EchoInv
  <2>3. Echo!TypeOK'
    BY <2>1 DEF EchoInv, Echo!TypeOK, Echo!Cardinality
  <2> QED
    BY <1>0, <2>1, <2>2, <2>3 DEF EchoInv, Echo!TypeOK
<1>4. CASE Echo!CloseClient(p)
  <2>1. /\ echoPc[p] = "close" /\ echoPc' = [echoPc EXCEPT ![p] = "accept"]
        /\ echoHolds' = [echoHolds EXCEPT ![p] = @ \ echoCs[p]]
        /\ UNCHANGED <<echoSs, echoCs, echoClient, echoBacklog, echoRequest, echoReply>>
    BY <1>4 DEF Echo!CloseClient, Echo!CloseOnly, Echo!Go, Echo!clients
  <2>2. p = Parent
    BY <1>0, <2>1 DEF EchoInv
  <2>3. Echo!TypeOK'
    BY <2>1 DEF EchoInv, Echo!TypeOK, Echo!Cardinality
  <2> QED
    BY <1>0, <2>1, <2>2, <2>3 DEF EchoInv, Echo!TypeOK
<1> QED
  BY <1>1, <1>2, <1>3, <1>4 DEF Echo!Loop

LEMMA EchoHandleKeeps ==
  ASSUME EchoInv, NEW p \in Echo!Procs, Echo!Handle(p)
  PROVE  EchoInv'
<1>0. Parent \notin Children /\ Echo!Procs = Children \union {Parent}
  BY ProgramsAssumption DEF Echo!Procs
<1>1. CASE Echo!ReplyKills(p)
  <2>1. /\ echoPc[p] = "reply" /\ echoPc' = [echoPc EXCEPT ![p] = "dead"]
        /\ echoHolds' = [echoHolds EXCEPT ![p] = {}] /\ echoCs' = [echoCs EXCEPT ![p] = {}]
        /\ UNCHANGED <<echoSs, echoClient, echoBacklog, echoRequest, echoReply>>
    BY <1>1 DEF Echo!ReplyKills, Echo!Go, Echo!clients
  <2>2. p \in Children
    BY <1>0, <2>1 DEF EchoInv
  <2>3. \A q \in Echo!Procs : echoCs'[q] = {} \/ \E d \in FewClients : echoCs'[q] = {d}
    BY <2>1 DEF EchoInv, Echo!TypeOK
  <2>4. Echo!TypeOK'
    BY <2>1, <2>3, EchoAtMostOne DEF EchoInv, Echo!TypeOK
  <2> QED
    BY <1>0, <2>1, <2>2, <2>3, <2>4 DEF EchoInv, Echo!TypeOK
<1>2. CASE Echo!CloseListening(p)
  <2>1. /\ echoPc[p] = "child" /\ echoPc' = [echoPc EXCEPT ![p] = "read"]
        /\ echoSs' = echoSs \ {p}
        /\ UNCHANGED <<echoHolds, echoCs, echoClient, echoBacklog, echoRequest, echoReply>>
    BY <1>2 DEF Echo!CloseListening, Echo!ListenIn, Echo!Go, Echo!clients
  <2>2. p \in Children
    BY <1>0, <2>1 DEF EchoInv
  <2>3. Echo!TypeOK'
    BY <2>1 DEF EchoInv, Echo!TypeOK, Echo!Cardinality
  <2> QED
    BY <1>0, <2>1, <2>2, <2>3 DEF EchoInv, Echo!TypeOK
<1>3. ASSUME NEW from \in {"read", "reply"}, NEW to \in {"read", "reply", "accept"},
             echoPc[p] = from, echoPc' = [echoPc EXCEPT ![p] = to],
             UNCHANGED <<echoSs, echoHolds, echoCs, echoBacklog>>,
             echoClient' \in [FewClients -> {"off", "up", "waiting", "left", "reset"}],
             echoRequest' \subseteq FewClients, echoReply' \subseteq FewClients
      PROVE  EchoInv'
  <2>1. p \in Children
    BY <1>0, <1>3 DEF EchoInv
  <2>2. Echo!TypeOK'
    BY <1>3 DEF EchoInv, Echo!TypeOK, Echo!Cardinality
  <2> QED
    BY <1>0, <1>3, <2>1, <2>2 DEF EchoInv, Echo!TypeOK
<1>4. CASE Echo!Read(p)
  BY <1>3, <1>4 DEF Echo!Read, Echo!Go, EchoInv, Echo!TypeOK
<1>5. CASE Echo!ReadEnd(p)
  BY <1>3, <1>5 DEF Echo!ReadEnd, Echo!Go, Echo!clients, EchoInv, Echo!TypeOK
<1>6. CASE Echo!ReadFails(p)
  BY <1>3, <1>6 DEF Echo!ReadFails, Echo!Go, Echo!clients, EchoInv, Echo!TypeOK
<1>7. CASE Echo!Reply(p)
  <2>1. echoReply' \subseteq FewClients
    BY <1>7 DEF Echo!Reply, Echo!ReplyThen, EchoInv, Echo!TypeOK
  <2> QED
    BY <1>3, <1>7, <2>1 DEF Echo!Reply, Echo!ReplyThen, Echo!Go, EchoInv, Echo!TypeOK
<1>8. CASE Echo!ReplyLost(p)
  <2>1. echoClient' \in [FewClients -> {"off", "up", "waiting", "left", "reset"}]
    BY <1>8 DEF Echo!ReplyLost, EchoInv, Echo!TypeOK
  <2> QED
    BY <1>3, <1>8, <2>1 DEF Echo!ReplyLost, Echo!Go, EchoInv, Echo!TypeOK
<1> QED
  BY <1>1, <1>2, <1>4, <1>5, <1>6, <1>7, <1>8 DEF Echo!Handle

LEMMA EchoClientKeeps ==
  ASSUME EchoInv, NEW c \in FewClients, Echo!Client(c)
  PROVE  EchoInv'
<1>1. UNCHANGED <<echoPc, echoSs, echoHolds, echoCs>>
  BY DEF Echo!Client, Echo!Connect, Echo!Send, Echo!Receive, Echo!Leave, Echo!server
<1>2. /\ echoClient' \in [FewClients -> {"off", "up", "waiting", "left", "reset"}]
      /\ echoBacklog' \subseteq FewClients /\ echoRequest' \subseteq FewClients
      /\ echoReply' \subseteq FewClients
  BY DEF Echo!Client, Echo!Connect, Echo!Send, Echo!Receive, Echo!Leave, EchoInv, Echo!TypeOK
<1>3. Echo!TypeOK'
  BY <1>1, <1>2 DEF EchoInv, Echo!TypeOK, Echo!Cardinality
<1> QED
  BY <1>1, <1>3 DEF EchoInv

THEOREM EchoCorrect == Spec => []EchoInv
<1>1. Init => EchoInv
  <2> SUFFICES ASSUME Echo!Init PROVE EchoInv
    BY DEF Init
  <2>1. \A p \in Echo!Procs : echoCs[p] = {}
    BY DEF Echo!Init
  <2>2. Echo!TypeOK
    BY <2>1, EchoAtMostOne DEF Echo!Init, Echo!TypeOK, Echo!Procs
  <2> QED
    BY <2>1, <2>2, ProgramsAssumption DEF Echo!Init, EchoInv, Echo!Procs
<1>2. EchoInv /\ [Next]_vars => EchoInv'
  <2>1. EchoInv /\ UNCHANGED echoVars => EchoInv'
    <3> SUFFICES ASSUME EchoInv, UNCHANGED echoVars PROVE EchoInv'
      OBVIOUS
    <3>1. UNCHANGED <<echoPc, echoSs, echoHolds, echoCs, echoClient, echoBacklog,
                      echoRequest, echoReply>>
      BY DEF echoVars
    <3>2. Echo!TypeOK'
      BY <3>1 DEF EchoInv, Echo!TypeOK, Echo!Cardinality
    <3> QED
      BY <3>1, <3>2 DEF EchoInv
  <2> QED
    BY <2>1, OneRuns, EchoLoopKeeps, EchoHandleKeeps, EchoClientKeeps DEF Echo!Next
<1> QED
  BY <1>1, <1>2, PTL DEF Spec

\* socket/exmaple/TCP: only the first process accepts, and a child holds the
\* connection of its own client and no other.
THEOREM ChildrenCorrect == Spec => []ChildrenApart
<1>1. EchoInv => ChildrenApart
  BY DEF EchoInv, ChildrenApart, Echo!OnlyParentAccepts, Echo!HoldsOwn, Echo!Procs
<1> QED
  BY <1>1, EchoCorrect, PTL

-------------------------------------------------------------------------------
(* quick_sort *)

SortParts == {c \in (DOMAIN sortArr) \X (DOMAIN sortArr) : c[1] <= c[2]}

\* The elements that stop the two inner loops: at first the pivot, and when the
\* index has passed the middle, one that an exchange has put there.
UpStops ==
    \/ sortI <= Sorted!middle
    \/ \E k \in sortI .. Sorted!right : sortArr[k] >= sortArr[Sorted!middle]
DownStops ==
    \/ sortJ >= Sorted!middle
    \/ \E k \in Sorted!left .. sortJ : sortArr[k] <= sortArr[Sorted!middle]

SortInv ==
    /\ sortPc \in {"call", "up", "down", "exchange", "ended"}
    /\ sortI \in Int /\ sortJ \in Int
    /\ DOMAIN sortArr = DOMAIN sortGiven /\ sortArr \in [DOMAIN sortArr -> Int]
    /\ \E n \in Nat : DOMAIN sortArr = 0 .. n
    /\ sortCalls \in Seq(SortParts)
    /\ sortPc \in {"up", "down", "exchange"} =>
         /\ sortCalls # <<>>
         /\ sortI \in Sorted!left .. Sorted!right /\ sortJ \in Sorted!left .. Sorted!right
    /\ sortPc = "up" => UpStops
    /\ sortPc \in {"down", "exchange"} => sortArr[sortI] >= sortArr[Sorted!middle]
    /\ sortPc \in {"up", "down"} => DownStops
    /\ sortPc = "exchange" => sortArr[sortJ] <= sortArr[Sorted!middle]

\* The part that a call sorts, and its middle.
LEMMA SortPart ==
  ASSUME SortInv, sortCalls # <<>>
  PROVE  /\ Sorted!left \in Int /\ Sorted!right \in Int /\ Sorted!middle \in Int
         /\ Sorted!left <= Sorted!middle /\ Sorted!middle <= Sorted!right
         /\ Sorted!left .. Sorted!right \subseteq DOMAIN sortArr
         /\ Tail(sortCalls) \in Seq(SortParts)
<1>1. Head(sortCalls) \in SortParts /\ Tail(sortCalls) \in Seq(SortParts)
  BY SequenceParts DEF SortInv
<1>2. PICK n \in Nat : DOMAIN sortArr = 0 .. n
  BY DEF SortInv
<1>3. /\ Sorted!left \in 0 .. n /\ Sorted!right \in 0 .. n
      /\ Sorted!left <= Sorted!right
  BY <1>1, <1>2 DEF SortParts, Sorted!left, Sorted!right
<1>4. Sorted!middle \in Int /\ Sorted!left <= Sorted!middle /\ Sorted!middle <= Sorted!right
  BY <1>3 DEF Sorted!middle
<1> QED
  BY <1>1, <1>2, <1>3, <1>4

LEMMA MainArrayType == Sorted!MainArray \in [0 .. 13 -> Int]
<1> DEFINE a == <<15, 23, 38, 75, 42, 96, 13, 17, 93, 85, 45, 65, 69, 41>>
<1>1. Len(a) = 14 /\ \A k \in 1 .. 14 : a[k] \in Int
  OBVIOUS
<1>2. Sorted!MainArray = [k \in 0 .. Len(a)-1 |-> a[k+1]]
  BY DEF Sorted!MainArray
<1> HIDE DEF a
<1> QED
  BY <1>1, <1>2

LEMMA SortLoopKeeps ==
  ASSUME SortInv, Sorted!Up \/ Sorted!Down
  PROVE  SortInv'
<1>1. sortCalls # <<>> /\ UNCHANGED <<sortGiven, sortArr, sortCalls>>
  BY DEF Sorted!Up, Sorted!UpWhile, Sorted!Down, SortInv
<1>2. /\ Sorted!left' = Sorted!left /\ Sorted!right' = Sorted!right
      /\ Sorted!middle' = Sorted!middle /\ SortParts' = SortParts
  BY <1>1 DEF Sorted!left, Sorted!right, Sorted!middle, SortParts
<1>3. \A k \in Sorted!left .. Sorted!right : sortArr[k] \in Int
  BY <1>1, SortPart DEF SortInv
<1>4. CASE Sorted!Up /\ sortArr[sortI] < sortArr[Sorted!middle]
  <2>1. sortPc = "up" /\ sortI' = sortI + 1 /\ UNCHANGED <<sortPc, sortJ>>
    BY <1>4 DEF Sorted!Up, Sorted!UpWhile
  <2>2. /\ sortI + 1 <= Sorted!middle
           \/ \E k \in sortI + 1 .. Sorted!right : sortArr[k] >= sortArr[Sorted!middle]
        /\ sortI + 1 \in Sorted!left .. Sorted!right
    <3>1. CASE sortI <= Sorted!middle
      BY <1>1, <1>3, <1>4, <2>1, <3>1, SortPart DEF SortInv
    <3>2. CASE \E k \in sortI .. Sorted!right : sortArr[k] >= sortArr[Sorted!middle]
      <4>1. PICK k \in sortI .. Sorted!right : sortArr[k] >= sortArr[Sorted!middle]
        BY <3>2
      <4>2. /\ sortI \in Int /\ sortI >= Sorted!left /\ sortI <= Sorted!right
            /\ Sorted!left \in Int /\ Sorted!right \in Int /\ Sorted!middle \in Int
            /\ Sorted!left <= Sorted!middle /\ Sorted!middle <= Sorted!right
        BY <1>1, <2>1, SortPart DEF SortInv
      <4>3. k # sortI
        BY <1>3, <1>4, <4>1, <4>2
      <4>4. k \in sortI + 1 .. Sorted!right
        BY <4>1, <4>2, <4>3
      <4> QED
        BY <4>1, <4>2, <4>4
    <3> QED
      BY <2>1, <3>1, <3>2 DEF SortInv, UpStops
  <2>4. sortI' \in Sorted!left .. Sorted!right /\ UpStops'
    BY <1>1, <1>2, <2>1, <2>2 DEF UpStops
  <2>3. DownStops'
    BY <1>1, <1>2, <2>1 DEF SortInv, DownStops
  <2> QED
    BY <1>1, <1>2, <2>1, <2>3, <2>4 DEF SortInv
<1>5. CASE Sorted!Up /\ ~(sortArr[sortI] < sortArr[Sorted!middle])
  <2>1. sortPc = "up" /\ sortPc' = "down" /\ UNCHANGED <<sortI, sortJ>>
    BY <1>5 DEF Sorted!Up, Sorted!UpWhile
  <2>2. sortArr[sortI] >= sortArr[Sorted!middle]
    BY <1>1, <1>3, <1>5, <2>1, SortPart DEF SortInv
  <2>3. DownStops'
    BY <1>1, <1>2, <2>1 DEF SortInv, DownStops
  <2> QED
    BY <1>1, <1>2, <2>1, <2>2, <2>3 DEF SortInv
<1>6. CASE Sorted!Down /\ sortArr[sortJ] > sortArr[Sorted!middle]
  <2>1. sortPc = "down" /\ sortJ' = sortJ - 1 /\ UNCHANGED <<sortPc, sortI>>
    BY <1>6 DEF Sorted!Down
  <2>2. /\ sortJ - 1 >= Sorted!middle
           \/ \E k \in Sorted!left .. sortJ - 1 : sortArr[k] <= sortArr[Sorted!middle]
        /\ sortJ - 1 \in Sorted!left .. Sorted!right
    <3>1. CASE sortJ >= Sorted!middle
      BY <1>1, <1>3, <1>6, <2>1, <3>1, SortPart DEF SortInv
    <3>2. CASE \E k \in Sorted!left .. sortJ : sortArr[k] <= sortArr[Sorted!middle]
      <4>1. PICK k \in Sorted!left .. sortJ : sortArr[k] <= sortArr[Sorted!middle]
        BY <3>2
      <4>2. /\ Sorted!left \in Int /\ Sorted!right \in Int /\ sortJ \in Int
            /\ sortJ <= Sorted!right /\ Sorted!middle \in Sorted!left .. Sorted!right
        BY <1>1, <2>1, SortPart DEF SortInv
      <4>3. k # sortJ
        BY <1>3, <1>6, <4>1, <4>2
      <4>4. k \in Sorted!left .. sortJ - 1
        BY <4>2, <4>3
      <4> QED
        BY <4>1, <4>2, <4>4
    <3> QED
      BY <2>1, <3>1, <3>2 DEF SortInv, DownStops
  <2>3. sortJ' \in Sorted!left .. Sorted!right /\ DownStops'
    BY <1>1, <1>2, <2>1, <2>2 DEF DownStops
  <2> QED
    BY <1>1, <1>2, <2>1, <2>3 DEF SortInv
<1>7. CASE Sorted!Down /\ ~(sortArr[sortJ] > sortArr[Sorted!middle])
  <2>1. sortPc = "down" /\ sortPc' = "exchange" /\ UNCHANGED <<sortI, sortJ>>
    BY <1>7 DEF Sorted!Down
  <2>2. sortArr[sortJ] <= sortArr[Sorted!middle]
    BY <1>1, <1>3, <1>7, <2>1, SortPart DEF SortInv
  <2> QED
    BY <1>1, <1>2, <2>1, <2>2 DEF SortInv
<1> QED
  BY <1>4, <1>5, <1>6, <1>7

LEMMA SortExchangeKeeps ==
  ASSUME SortInv, Sorted!Exchange
  PROVE  SortInv'
<1> DEFINE l == Sorted!left
           r == Sorted!right
           m == Sorted!middle
<1>1. sortPc = "exchange" /\ sortCalls # <<>> /\ sortGiven' = sortGiven
  BY DEF Sorted!Exchange, SortInv
<1>2. /\ l \in Int /\ r \in Int /\ m \in l .. r /\ l .. r \subseteq DOMAIN sortArr
      /\ Tail(sortCalls) \in Seq(SortParts)
  BY <1>1, SortPart
<1>3. /\ sortI \in l .. r /\ sortJ \in l .. r
      /\ sortArr[sortI] >= sortArr[m] /\ sortArr[sortJ] <= sortArr[m]
      /\ \A k \in l .. r : sortArr[k] \in Int
  BY <1>1, <1>2 DEF SortInv
<1>4. \/ /\ sortI <= sortJ
         /\ sortArr' = [sortArr EXCEPT ![sortI] = sortArr[sortJ], ![sortJ] = sortArr[sortI]]
         /\ sortI' = sortI + 1 /\ sortJ' = sortJ - 1
      \/ sortI > sortJ /\ UNCHANGED <<sortArr, sortI, sortJ>>
  BY <1>2, <1>3 DEF Sorted!Exchange, Sorted!exchange_value
<1>5. /\ DOMAIN sortArr' = DOMAIN sortArr /\ sortArr' \in [DOMAIN sortArr -> Int]
      /\ sortI' \in Int /\ sortJ' \in Int /\ sortI' >= l /\ sortJ' <= r
  <2> HIDE DEF l, r, m
  <2>1. sortI \in DOMAIN sortArr /\ sortJ \in DOMAIN sortArr
    BY <1>2, <1>3
  <2>2. sortArr \in [DOMAIN sortArr -> Int]
    BY DEF SortInv
  <2>3. DOMAIN sortArr' = DOMAIN sortArr /\ sortArr' \in [DOMAIN sortArr -> Int]
    BY <1>4, <2>1, <2>2
  <2> QED
    BY <1>2, <1>3, <1>4, <2>3
<1>6. SortParts' = SortParts
  BY <1>5 DEF SortParts
<1>7. CASE sortI' <= sortJ'
  <2>1. sortPc' = "up" /\ sortCalls' = sortCalls
    BY <1>7 DEF Sorted!Exchange
  <2>2. l' = l /\ r' = r /\ m' = m
    BY <2>1 DEF Sorted!left, Sorted!right, Sorted!middle
  <2>3. /\ sortI < sortJ /\ sortI' = sortI + 1 /\ sortJ' = sortJ - 1
        /\ sortArr' = [sortArr EXCEPT ![sortI] = sortArr[sortJ], ![sortJ] = sortArr[sortI]]
    BY <1>2, <1>3, <1>4, <1>7
  <2> HIDE DEF l, r, m
  <2>4. /\ sortArr'[sortI] = sortArr[sortJ] /\ sortArr'[sortJ] = sortArr[sortI]
        /\ m # sortI /\ m # sortJ => sortArr'[m] = sortArr[m]
    BY <1>2, <1>3, <2>3 DEF SortInv
  <2>5. sortI + 1 <= m \/ sortArr'[sortJ] >= sortArr'[m]
    BY <1>2, <1>3, <2>3, <2>4
  <2>6. sortJ - 1 >= m \/ sortArr'[sortI] <= sortArr'[m]
    BY <1>2, <1>3, <2>3, <2>4
  <2>7. UpStops'
    BY <1>2, <1>3, <2>2, <2>3, <2>5 DEF UpStops, l, r, m
  <2>8. DownStops'
    BY <1>2, <1>3, <2>2, <2>3, <2>6 DEF DownStops, l, r, m
  <2>9. sortI' \in l .. r /\ sortJ' \in l .. r
    BY <1>2, <1>3, <2>3
  <2> QED
    BY <1>1, <1>5, <1>6, <2>1, <2>2, <2>7, <2>8, <2>9 DEF SortInv, l, r
<1>8. CASE ~(sortI' <= sortJ')
  <2> DEFINE first == IF l < sortJ' THEN << <<l, sortJ'>> >> ELSE <<>>
             rest  == IF sortI' < r THEN << <<sortI', r>> >> ELSE <<>>
  <2>1. sortPc' = "call" /\ sortCalls' = first \o rest \o Tail(sortCalls)
    BY <1>8 DEF Sorted!Exchange
  <2>2. first \in Seq(SortParts)
    <3>1. l < sortJ' => <<l, sortJ'>> \in SortParts
      BY <1>2, <1>5 DEF SortParts
    <3> QED
      BY <3>1, SinglePart, NoElement
  <2>3. rest \in Seq(SortParts)
    <3>1. sortI' < r => <<sortI', r>> \in SortParts
      BY <1>2, <1>5 DEF SortParts
    <3> QED
      BY <3>1, SinglePart, NoElement
  <2>4. sortCalls' \in Seq(SortParts)
    <3> HIDE DEF first, rest
    <3> QED
      BY <1>2, <2>1, <2>2, <2>3, JoinedParts
  <2> QED
    BY <1>1, <1>5, <1>6, <2>1, <2>4 DEF SortInv
<1> QED
  BY <1>7, <1>8

THEOREM SortCorrect == Spec => []SortInv
<1>1. Init => SortInv
  <2> SUFFICES ASSUME Sorted!Init PROVE SortInv
    BY DEF Init
  <2>1. Length \in Nat \ {0} /\ Values \subseteq Int
    BY ProgramsAssumption DEF Sorted!QuickSortAssumption
  <2> DEFINE n == IF sortGiven = Sorted!MainArray THEN 13 ELSE Length-1
  <2>2. n \in Nat /\ sortGiven \in [0 .. n -> Int] /\ sortArr = sortGiven
    <3>1. sortArr = sortGiven
      BY DEF Sorted!Init
    <3>2. CASE sortGiven = Sorted!MainArray
      BY <3>1, <3>2, MainArrayType
    <3>3. CASE sortGiven # Sorted!MainArray
      <4>1. sortGiven \in [0 .. Length-1 -> Values]
        BY <3>3 DEF Sorted!Init
      <4>2. n = Length-1 /\ n \in Nat
        BY <2>1, <3>3
      <4>3. sortGiven \in [0 .. n -> Values]
        BY <4>1, <4>2
      <4> HIDE DEF n
      <4> QED
        BY <2>1, <3>1, <4>2, <4>3
    <3> QED
      BY <3>1, <3>2, <3>3
  <2>3. sortCalls = << <<0, n>> >> /\ sortPc = "call" /\ sortI = 0 /\ sortJ = 0
    BY DEF Sorted!Init
  <2> HIDE DEF n
  <2>4. <<0, n>> \in SortParts
    BY <2>2 DEF SortParts
  <2>5. sortCalls \in Seq(SortParts)
    BY <2>3, <2>4, SinglePart
  <2> QED
    BY <2>2, <2>3, <2>5 DEF SortInv
<1>2. ASSUME SortInv, Sorted!Call
      PROVE  SortInv'
  <2>1. sortPc = "call" /\ UNCHANGED <<sortGiven, sortArr, sortCalls>>
    BY <1>2 DEF Sorted!Call
  <2>2. /\ Sorted!left' = Sorted!left /\ Sorted!right' = Sorted!right
        /\ Sorted!middle' = Sorted!middle /\ SortParts' = SortParts
    BY <2>1 DEF Sorted!left, Sorted!right, Sorted!middle, SortParts
  <2>3. CASE sortCalls = <<>>
    BY <1>2, <2>1, <2>2, <2>3 DEF Sorted!Call, SortInv
  <2>4. CASE sortCalls # <<>>
    <3>1. sortPc' = "up" /\ sortI' = Sorted!left /\ sortJ' = Sorted!right
      BY <1>2, <2>4 DEF Sorted!Call
    <3>2. /\ Sorted!left \in Int /\ Sorted!right \in Int
          /\ Sorted!left <= Sorted!middle /\ Sorted!middle <= Sorted!right
          /\ Sorted!middle \in Int
      BY <1>2, <2>4, SortPart
    <3>3. UpStops' /\ DownStops'
      BY <2>2, <3>1, <3>2 DEF UpStops, DownStops
    <3> QED
      BY <1>2, <2>1, <2>2, <2>4, <3>1, <3>2, <3>3 DEF SortInv
  <2> QED
    BY <2>3, <2>4
<1>3. SortInv /\ [Next]_vars => SortInv'
  <2>1. SortInv /\ UNCHANGED sortVars => SortInv'
    BY DEF sortVars, SortInv, SortParts, UpStops, DownStops,
           Sorted!left, Sorted!right, Sorted!middle
  <2> QED
    BY <1>2, <2>1, OneRuns, SortLoopKeeps, SortExchangeKeeps DEF Sorted!Next
<1> QED
  BY <1>1, <1>3, PTL DEF Spec
-------------------------------------------------------------------------------
(* Linked lists *)

\* s lists, from the head to the last cell n, the cells that the pointers f lead
\* to; they are A, and each is there once.
Listing(s, n, f, head, null, A) ==
    /\ n \in Nat /\ s \in [0 .. n -> A]
    /\ s[0] = head /\ f[s[n]] = null
    /\ \A k \in 0 .. n-1 : f[s[k]] = s[k+1]
    /\ \A j, k \in 0 .. n : s[j] = s[k] => j = k
    /\ \A p \in A : \E k \in 0 .. n : s[k] = p

\* w walks along the pointers, as Cells does.
IsWalk(w, size, f, head, null) ==
    w = [k \in 0 .. size |->
            IF k = 0 THEN head
            ELSE LET p == w[k-1] IN IF p = null THEN null ELSE f[p]]

LEMMA LeastOf ==
  ASSUME NEW S \in SUBSET Nat, S # {}
  PROVE  \E k \in S : \A j \in S : k <= j
<1>1. PICK m \in S : \A k \in S : <<k, m>> \notin OpToRel(<, Nat)
  BY WFMin, NatLessThanWellFounded, Zenon
<1>2. \A k \in S : ~(k < m)
  BY <1>1, Zenon DEF OpToRel
<1>3. \A k \in S : m <= k
  BY <1>2
<1> QED
  BY <1>3

\* One can walk any number of steps.
LEMMA WalkExists ==
  ASSUME NEW f, NEW head, NEW null
  PROVE  \A size \in Nat : \E w : IsWalk(w, size, f, head, null)
<1> DEFINE bad == {size \in Nat : ~ \E w : IsWalk(w, size, f, head, null)}
<1> SUFFICES ASSUME bad # {}
             PROVE  FALSE
  OBVIOUS
<1>1. PICK n \in bad : \A j \in bad : n <= j
  <2> HIDE DEF bad
  <2>1. bad \in SUBSET Nat
    BY DEF bad
  <2> QED
    BY <2>1, LeastOf
<1>2. n \in Nat /\ ~ \E w : IsWalk(w, n, f, head, null)
  OBVIOUS
<1>3. CASE n = 0
  <2>1. IsWalk([k \in 0 .. 0 |-> head], 0, f, head, null)
    BY DEF IsWalk
  <2> QED
    BY <1>2, <1>3, <2>1
<1>4. CASE n # 0
  <2>1. n-1 \in Nat /\ n-1 \notin bad
    BY <1>1, <1>2, <1>4
  <2>2. PICK w : IsWalk(w, n-1, f, head, null)
    BY <2>1
  <2> DEFINE last == IF w[n-1] = null THEN null ELSE f[w[n-1]]
             v == [k \in 0 .. n |-> IF k = n THEN last ELSE w[k]]
  <2>3. \A k \in 0 .. n-1 :
           w[k] = IF k = 0 THEN head ELSE IF w[k-1] = null THEN null ELSE f[w[k-1]]
    BY <2>1, <2>2 DEF IsWalk
  <2>4. \A k \in 0 .. n :
           v[k] = IF k = 0 THEN head ELSE IF v[k-1] = null THEN null ELSE f[v[k-1]]
    <3> TAKE k \in 0 .. n
    <3>1. CASE k = n
      <4>1. v[k] = last /\ v[k-1] = w[n-1] /\ k # 0
        BY <1>2, <1>4, <3>1
      <4> QED
        BY <3>1, <4>1
    <3>2. CASE k # n
      <4>1. k \in 0 .. n-1 /\ v[k] = w[k] /\ (k # 0 => v[k-1] = w[k-1])
        BY <1>2, <3>2
      <4> QED
        BY <2>3, <4>1
    <3> QED
      BY <3>1, <3>2
  <2>5. v = [k \in 0 .. n |-> v[k]]
    OBVIOUS
  <2> HIDE DEF v
  <2>6. IsWalk(v, n, f, head, null)
    BY <2>4, <2>5 DEF IsWalk
  <2> QED
    BY <1>2, <2>6
<1> QED
  BY <1>3, <1>4

\* The walk follows the listing, and then stays at the end.
LEMMA WalkListing ==
  ASSUME NEW s, NEW n, NEW f, NEW head, NEW null, NEW A, null \notin A,
         Listing(s, n, f, head, null, A),
         NEW w, NEW size \in Nat, IsWalk(w, size, f, head, null)
  PROVE  \A k \in 0 .. size : w[k] = IF k <= n THEN s[k] ELSE null
<1> DEFINE bad == {k \in 0 .. size : w[k] # IF k <= n THEN s[k] ELSE null}
<1> SUFFICES ASSUME bad # {}
             PROVE  FALSE
  OBVIOUS
<1>1. PICK k \in bad : \A j \in bad : k <= j
  <2> HIDE DEF bad
  <2>1. bad \in SUBSET Nat
    BY DEF bad
  <2> QED
    BY <2>1, LeastOf
<1>2. k \in 0 .. size /\ w[k] # IF k <= n THEN s[k] ELSE null
  OBVIOUS
<1>3. n \in Nat /\ s[0] = head /\ f[s[n]] = null /\ \A j \in 0 .. n-1 : f[s[j]] = s[j+1]
  BY DEF Listing
<1>4. \A j \in 0 .. n : s[j] # null
  BY DEF Listing
<1>5. w[k] = IF k = 0 THEN head ELSE IF w[k-1] = null THEN null ELSE f[w[k-1]]
  BY <1>2 DEF IsWalk
<1>6. k # 0
  BY <1>2, <1>3, <1>5
<1>7. k-1 \in 0 .. size /\ k-1 \notin bad
  BY <1>1, <1>2, <1>6
<1>8. w[k-1] = IF k-1 <= n THEN s[k-1] ELSE null
  BY <1>7
<1>9. CASE k <= n
  <2>1. k-1 \in 0 .. n-1 /\ k-1 \in 0 .. n /\ k-1 <= n /\ (k-1)+1 = k
    BY <1>2, <1>3, <1>6, <1>9
  <2> QED
    BY <1>2, <1>3, <1>4, <1>5, <1>6, <1>8, <1>9, <2>1
<1>10. CASE k = n+1
  <2>1. k-1 = n /\ n \in 0 .. n /\ k-1 <= n /\ ~(k <= n)
    BY <1>3, <1>10
  <2> QED
    BY <1>2, <1>3, <1>4, <1>5, <1>6, <1>8, <2>1
<1>11. CASE k > n+1
  <2>1. ~(k-1 <= n) /\ ~(k <= n)
    BY <1>2, <1>3, <1>11
  <2> QED
    BY <1>2, <1>5, <1>6, <1>8, <2>1
<1> QED
  BY <1>2, <1>3, <1>9, <1>10, <1>11

\* A list has no more cells than there are.
LEMMA ListingFits ==
  ASSUME NEW s, NEW n, NEW f, NEW head, NEW null, NEW A,
         Listing(s, n, f, head, null, A), NEW C, IsFiniteSet(C), A \subseteq C
  PROVE  Cardinality(C) \in Nat /\ n + 1 <= Cardinality(C)
<1>1. n \in Nat /\ s \in Injection(0 .. n, A) /\ IsFiniteSet(A)
  BY FS_Subset DEF Listing, Injection, IsInjective
<1>2. Cardinality(0 .. n) = n + 1 /\ IsFiniteSet(0 .. n)
  BY <1>1, FS_Interval
<1>3. Cardinality(0 .. n) <= Cardinality(A)
  BY <1>1, <1>2, FS_Injection
<1>4. Cardinality(A) <= Cardinality(C) /\ Cardinality(A) \in Nat /\ Cardinality(C) \in Nat
  BY <1>1, FS_Subset, FS_CardinalityType
<1> QED
  BY <1>1, <1>2, <1>3, <1>4

LEMMA ListingAlone ==
  ASSUME NEW f, NEW head, NEW null, f[head] = null
  PROVE  Listing([k \in 0 .. 0 |-> head], 0, f, head, null, {head})
  BY DEF Listing

\* s with the cell q behind the k-th, and without the cell behind the k-th.
WithCell(s, n, k, q) ==
    [j \in 0 .. n+1 |-> IF j <= k THEN s[j] ELSE IF j = k+1 THEN q ELSE s[j-1]]
WithoutCell(s, n, k) ==
    [j \in 0 .. n-1 |-> IF j <= k THEN s[j] ELSE s[j+1]]

\* A cell that was not in the list is put behind the k-th.
LEMMA ListingInsert ==
  ASSUME NEW s, NEW n, NEW f, NEW head, NEW null, NEW A,
         Listing(s, n, f, head, null, A),
         NEW k \in 0 .. n, NEW q, q \notin A, NEW g,
         g[s[k]] = q, g[q] = f[s[k]], \A p \in A : p # s[k] => g[p] = f[p]
  PROVE  Listing(WithCell(s, n, k, q), n+1, g, head, null, A \union {q})
<1> DEFINE t == [j \in 0 .. n+1 |-> IF j <= k THEN s[j] ELSE IF j = k+1 THEN q ELSE s[j-1]]
<1>1. /\ n \in Nat /\ s[0] = head /\ f[s[n]] = null
      /\ \A j \in 0 .. n-1 : f[s[j]] = s[j+1]
      /\ \A i, j \in 0 .. n : s[i] = s[j] => i = j
      /\ \A p \in A : \E j \in 0 .. n : s[j] = p
      /\ \A j \in 0 .. n : s[j] \in A /\ s[j] # q
  BY DEF Listing
<1>2. /\ \A j \in 0 .. k : t[j] = s[j] /\ j \in 0 .. n
      /\ t[k+1] = q
      /\ \A j \in k+2 .. n+1 : t[j] = s[j-1] /\ j-1 \in k+1 .. n /\ j-1 \in 0 .. n
      /\ \A j \in 0 .. n+1 : j \in 0 .. k \/ j = k+1 \/ j \in k+2 .. n+1
  BY <1>1
<1>3. t \in [0 .. n+1 -> A \union {q}]
  <2>1. \A j \in 0 .. n+1 : t[j] \in A \union {q}
    BY <1>1, <1>2
  <2> QED
    BY <2>1
<1> HIDE DEF t
<1>4. t[0] = head
  BY <1>1, <1>2
<1>5. \A j \in 0 .. n : g[t[j]] = t[j+1]
  <2> TAKE j \in 0 .. n
  <2>1. CASE j < k
    <3>1. t[j] = s[j] /\ t[j+1] = s[j+1] /\ j \in 0 .. n-1
      BY <1>1, <1>2, <2>1
    <3>2. s[j] \in A /\ s[j] # s[k]
      BY <1>1, <2>1
    <3> QED
      BY <1>1, <3>1, <3>2
  <2>2. CASE j = k
    BY <1>1, <1>2, <2>2
  <2>3. CASE j = k+1
    <3>1. t[j] = q /\ t[j+1] = s[k+1] /\ k \in 0 .. n-1
      BY <1>1, <1>2, <2>3
    <3> QED
      BY <1>1, <3>1
  <2>4. CASE j > k+1
    <3>1. /\ t[j] = s[j-1] /\ t[j+1] = s[j] /\ j-1 \in 0 .. n-1 /\ (j-1)+1 = j
          /\ j-1 # k /\ j-1 \in 0 .. n
      <4>1. j \in k+2 .. n+1 /\ j+1 \in k+2 .. n+1 /\ (j+1)-1 = j
        BY <1>1, <2>4
      <4> QED
        BY <1>1, <1>2, <2>4, <4>1
    <3>2. s[j-1] \in A /\ s[j-1] # s[k]
      BY <1>1, <3>1
    <3>3. f[s[j-1]] = s[j]
      BY <1>1, <3>1
    <3> QED
      BY <3>1, <3>2, <3>3
  <2> QED
    BY <1>1, <2>1, <2>2, <2>3, <2>4
<1>6. g[t[n+1]] = null
  <2>1. CASE k = n
    BY <1>1, <1>2, <2>1
  <2>2. CASE k # n
    <3>1. n+1 \in k+2 .. n+1 /\ (n+1)-1 = n /\ n \in 0 .. n
      BY <1>1, <2>2
    <3>2. t[n+1] = s[n] /\ s[n] \in A /\ s[n] # s[k]
      BY <1>1, <1>2, <2>2, <3>1
    <3> QED
      BY <1>1, <3>2
  <2> QED
    BY <2>1, <2>2
<1>7. \A i, j \in 0 .. n+1 : t[i] = t[j] => i = j
  <2> SUFFICES ASSUME NEW i \in 0 .. n+1, NEW j \in 0 .. n+1, t[i] = t[j]
               PROVE  i = j
    OBVIOUS
  <2>1. CASE i = k+1 \/ j = k+1
    BY <1>1, <1>2, <2>1
  <2> DEFINE a == IF i <= k THEN i ELSE i-1
             b == IF j <= k THEN j ELSE j-1
  <2>2. CASE i # k+1 /\ j # k+1
    <3>1. t[i] = s[a] /\ t[j] = s[b] /\ a \in 0 .. n /\ b \in 0 .. n
      BY <1>1, <1>2, <2>2
    <3>2. a = b
      <4> HIDE DEF a, b
      <4>1. s[a] = s[b]
        BY <3>1
      <4> QED
        BY <1>1, <3>1, <4>1
    <3> QED
      BY <1>1, <2>2, <3>2
  <2> QED
    BY <2>1, <2>2
<1>8. \A p \in A \union {q} : \E j \in 0 .. n+1 : t[j] = p
  <2> SUFFICES ASSUME NEW p \in A
               PROVE  \E j \in 0 .. n+1 : t[j] = p
    BY <1>1, <1>2
  <2>1. PICK i \in 0 .. n : s[i] = p
    BY <1>1
  <2>2. CASE i <= k
    <3>1. i \in 0 .. k /\ i \in 0 .. n+1
      BY <1>1, <2>2
    <3> QED
      BY <1>2, <2>1, <3>1
  <2>3. CASE i > k
    <3>1. i+1 \in k+2 .. n+1 /\ i+1 \in 0 .. n+1 /\ (i+1)-1 = i
      BY <1>1, <2>3
    <3> QED
      BY <1>2, <2>1, <3>1
  <2> QED
    BY <1>1, <2>2, <2>3
<1>9. Listing(t, n+1, g, head, null, A \union {q})
  <2>1. n+1 \in Nat /\ (n+1)-1 = n
    BY <1>1
  <2> QED
    BY <1>3, <1>4, <1>5, <1>6, <1>7, <1>8, <2>1 DEF Listing
<1> QED
  BY <1>9 DEF t, WithCell

\* The cell behind the k-th is taken out.
LEMMA ListingDelete ==
  ASSUME NEW s, NEW n, NEW f, NEW head, NEW null, NEW A,
         Listing(s, n, f, head, null, A),
         NEW k \in 0 .. n-1, NEW g, g[s[k]] = f[s[k+1]],
         \A p \in A \ {s[k+1]} : p # s[k] => g[p] = f[p]
  PROVE  Listing(WithoutCell(s, n, k), n-1, g, head, null, A \ {s[k+1]})
<1> DEFINE t == [j \in 0 .. n-1 |-> IF j <= k THEN s[j] ELSE s[j+1]]
           B == A \ {s[k+1]}
<1>1. /\ n \in Nat /\ s[0] = head /\ f[s[n]] = null
      /\ \A j \in 0 .. n-1 : f[s[j]] = s[j+1]
      /\ \A i, j \in 0 .. n : s[i] = s[j] => i = j
      /\ \A p \in A : \E j \in 0 .. n : s[j] = p
      /\ \A j \in 0 .. n : s[j] \in A
  BY DEF Listing
<1>2. /\ \A j \in 0 .. k : t[j] = s[j] /\ j \in 0 .. n /\ j # k+1
      /\ \A j \in k+1 .. n-1 : t[j] = s[j+1] /\ j+1 \in 0 .. n /\ j+1 # k+1 /\ j+1 # k
      /\ \A j \in 0 .. n-1 : j \in 0 .. k \/ j \in k+1 .. n-1
      /\ k+1 \in 0 .. n /\ k \in 0 .. n /\ k # k+1
  BY <1>1
<1>3. t \in [0 .. n-1 -> B]
  <2>1. \A j \in 0 .. n-1 : t[j] \in B
    BY <1>1, <1>2
  <2> QED
    BY <2>1
<1> HIDE DEF t
<1>4. t[0] = head
  BY <1>1, <1>2
<1>5. s[k] \in B /\ g[s[k]] = f[s[k+1]] /\ \A p \in B : p # s[k] => g[p] = f[p]
  BY <1>1, <1>2
<1> HIDE DEF B
<1>6. \A j \in 0 .. n-2 : g[t[j]] = t[j+1]
  <2> TAKE j \in 0 .. n-2
  <2>1. CASE j < k
    <3>1. t[j] = s[j] /\ t[j+1] = s[j+1] /\ j \in 0 .. n-1 /\ j # k
      BY <1>1, <1>2, <2>1
    <3>2. s[j] # s[k] /\ t[j] \in B
      BY <1>1, <1>2, <1>3, <3>1
    <3> QED
      BY <1>1, <1>5, <3>1, <3>2
  <2>2. CASE j = k
    <3>1. t[j] = s[k] /\ t[j+1] = s[(k+1)+1] /\ k+1 \in 0 .. n-1
      BY <1>1, <1>2, <2>2
    <3> QED
      BY <1>1, <1>5, <3>1
  <2>3. CASE j > k
    <3>1. /\ t[j] = s[j+1] /\ t[j+1] = s[(j+1)+1] /\ j+1 \in 0 .. n-1 /\ j+1 # k
          /\ j+1 \in 0 .. n /\ j \in 0 .. n-1
      BY <1>1, <1>2, <2>3
    <3>2. s[j+1] # s[k] /\ t[j] \in B
      BY <1>1, <1>2, <1>3, <3>1
    <3> QED
      BY <1>1, <1>5, <3>1, <3>2
  <2> QED
    BY <1>1, <2>1, <2>2, <2>3
<1>7. g[t[n-1]] = null
  <2>1. CASE k = n-1
    <3>1. t[n-1] = s[k] /\ k+1 = n
      BY <1>1, <1>2, <2>1
    <3> QED
      BY <1>1, <1>5, <3>1
  <2>2. CASE k # n-1
    <3>1. n-1 \in k+1 .. n-1 /\ (n-1)+1 = n /\ n-1 \in 0 .. n-1 /\ n # k /\ n \in 0 .. n
      BY <1>1, <2>2
    <3>2. t[n-1] = s[n] /\ s[n] # s[k] /\ t[n-1] \in B
      BY <1>1, <1>2, <1>3, <3>1
    <3> QED
      BY <1>1, <1>5, <3>2
  <2> QED
    BY <2>1, <2>2
<1>8. \A i, j \in 0 .. n-1 : t[i] = t[j] => i = j
  <2> SUFFICES ASSUME NEW i \in 0 .. n-1, NEW j \in 0 .. n-1, t[i] = t[j]
               PROVE  i = j
    OBVIOUS
  <2> DEFINE a == IF i <= k THEN i ELSE i+1
             b == IF j <= k THEN j ELSE j+1
  <2>1. t[i] = s[a] /\ t[j] = s[b] /\ a \in 0 .. n /\ b \in 0 .. n
    BY <1>1, <1>2
  <2>2. a = b
    <3> HIDE DEF a, b
    <3>1. s[a] = s[b]
      BY <2>1
    <3> QED
      BY <1>1, <2>1, <3>1
  <2> QED
    BY <1>1, <2>2
<1>9. \A p \in B : \E j \in 0 .. n-1 : t[j] = p
  <2> SUFFICES ASSUME NEW p \in A, p # s[k+1]
               PROVE  \E j \in 0 .. n-1 : t[j] = p
    BY DEF B
  <2>1. PICK i \in 0 .. n : s[i] = p
    BY <1>1
  <2>2. CASE i <= k
    <3>1. i \in 0 .. k /\ i \in 0 .. n-1
      BY <1>1, <2>2
    <3> QED
      BY <1>2, <2>1, <3>1
  <2>3. CASE i > k
    <3>1. i-1 \in k+1 .. n-1 /\ i-1 \in 0 .. n-1 /\ (i-1)+1 = i
      BY <1>1, <2>1, <2>3
    <3> QED
      BY <1>2, <2>1, <3>1
  <2> QED
    BY <1>1, <2>2, <2>3
<1>10. Listing(t, n-1, g, head, null, B)
  <2>1. n-1 \in Nat /\ (n-1)-1 = n-2
    BY <1>1
  <2> QED
    BY <1>3, <1>4, <1>6, <1>7, <1>8, <1>9, <2>1 DEF Listing
<1> QED
  BY <1>10 DEF t, B, WithoutCell

-------------------------------------------------------------------------------
(* link_list *)

\* The cells that are allocated are the list.
ListInv ==
    /\ List!TypeOK
    /\ listRun = "running" =>
         \E s, n : Listing(s, n, listNext, Header, NULL, listAllocated)

LEMMA ListConstants ==
  /\ IsFiniteSet(Cells) /\ Header \in Cells /\ NULL \notin Cells /\ Elements # {}
  /\ List!Cardinality(Cells) = Cardinality(Cells)
<1>1. List!CellsAssumption /\ Elements # {}
  BY ProgramsAssumption DEF List!LinkListAssumption
<1> QED
  BY <1>1 DEF List!CellsAssumption, List!IsFiniteSet, IsFiniteSet, List!Cardinality, Cardinality

\* Walk is the listing.
LEMMA ListWalk ==
  ASSUME NEW s, NEW n, Listing(s, n, listNext, Header, NULL, listAllocated),
         listAllocated \subseteq Cells
  PROVE  /\ List!Steps = 0 .. n /\ \A k \in 0 .. n : List!Walk[k] = s[k]
         /\ List!InList = listAllocated /\ List!WellFormed
<1> DEFINE size == Cardinality(Cells)
<1>1. size \in Nat /\ n + 1 <= size /\ n \in Nat
  <2>1. n \in Nat
    BY DEF Listing
  <2> QED
    BY <2>1, ListConstants, ListingFits
<1>2. IsWalk(List!Walk, size, listNext, Header, NULL)
  <2>1. \E w : IsWalk(w, size, listNext, Header, NULL)
    BY <1>1, WalkExists
  <2> HIDE DEF size
  <2>2. List!Cardinality(Cells) = size
    BY ListConstants DEF size
  <2> QED
    BY <2>1, <2>2 DEF IsWalk, List!Walk
<1>3. \A k \in 0 .. size : List!Walk[k] = IF k <= n THEN s[k] ELSE NULL
  BY <1>1, <1>2, WalkListing, ListConstants
<1>4. DOMAIN List!Walk = 0 .. size
  BY <1>2 DEF IsWalk
<1>5. \A k \in 0 .. n : s[k] \in listAllocated /\ s[k] # NULL /\ k \in 0 .. size
  BY <1>1, ListConstants DEF Listing
<1> HIDE DEF size
<1>6. List!Steps = 0 .. n
  BY <1>1, <1>3, <1>4, <1>5 DEF List!Steps
<1>7. \A k \in 0 .. n : List!Walk[k] = s[k]
  BY <1>1, <1>3, <1>5
<1>8. List!InList = listAllocated
  <2>1. List!InList = {List!Walk[k] : k \in 0 .. n}
    BY <1>6 DEF List!InList
  <2>2. \A p \in listAllocated : \E k \in 0 .. n : s[k] = p
    BY DEF Listing
  <2> QED
    BY <1>5, <1>7, <2>1, <2>2
<1>9. NULL \in {List!Walk[k] : k \in DOMAIN List!Walk}
  <2>1. n+1 \in 0 .. size /\ List!Walk[n+1] = NULL
    BY <1>1, <1>3
  <2> QED
    BY <1>4, <2>1
<1> QED
  BY <1>6, <1>7, <1>8, <1>9 DEF List!WellFormed

\* FindPrevious returns the first cell that it may stop at.
LEMMA ListFindPrevious ==
  ASSUME NEW s, NEW n, Listing(s, n, listNext, Header, NULL, listAllocated),
         listAllocated \subseteq Cells, NEW X
  PROVE  \E k \in 0 .. n :
            /\ List!FindPrevious(X) = s[k]
            /\ k < n => listElement[s[k+1]] = X
            /\ \A j \in 1 .. k : listElement[s[j]] # X
<1> DEFINE Q(k) == listNext[List!Walk[k]] # NULL => listElement[listNext[List!Walk[k]]] = X
           K == {k \in 0 .. n : Q(k)}
<1>1. List!Steps = 0 .. n /\ n \in Nat /\ \A k \in 0 .. n : List!Walk[k] = s[k]
  BY ListWalk DEF Listing
<1>2. n \in K
  BY <1>1 DEF Listing
<1>3. PICK k \in K : \A j \in K : k <= j
  <2> HIDE DEF K
  <2>1. K \in SUBSET Nat
    BY DEF K
  <2> QED
    BY <1>2, <2>1, LeastOf
<1>4. List!FindPrevious(X) = List!Walk[CHOOSE i \in 0 .. n : Q(i) /\ \A j \in 0 .. n : Q(j) => i <= j]
  BY <1>1, <1>2 DEF List!FindPrevious, List!FirstCell
<1> DEFINE i == CHOOSE i \in 0 .. n : Q(i) /\ \A j \in 0 .. n : Q(j) => i <= j
<1>5. i \in 0 .. n /\ Q(i) /\ \A j \in 0 .. n : Q(j) => i <= j
  <2>1. k \in 0 .. n /\ Q(k) /\ \A j \in 0 .. n : Q(j) => k <= j
    BY <1>3
  <2> HIDE DEF Q
  <2> QED
    BY <2>1
<1> HIDE DEF i
<1>6. i < n => listElement[s[i+1]] = X
  <2>1. i < n => i \in 0 .. n-1 /\ i+1 \in 0 .. n
    BY <1>1, <1>5
  <2>2. i < n => listNext[s[i]] = s[i+1] /\ s[i+1] # NULL
    BY <2>1, ListConstants DEF Listing
  <2> QED
    BY <1>1, <1>5, <2>2
<1>7. \A j \in 1 .. i : listElement[s[j]] # X
  <2> SUFFICES ASSUME NEW j \in 1 .. i, listElement[s[j]] = X
               PROVE  FALSE
    OBVIOUS
  <2>1. j-1 \in 0 .. n-1 /\ j-1 \in 0 .. n /\ (j-1)+1 = j /\ ~(i <= j-1)
    BY <1>1, <1>5
  <2>2. listNext[s[j-1]] = s[j]
    BY <2>1 DEF Listing
  <2>3. Q(j-1)
    BY <1>1, <2>1, <2>2
  <2> QED
    BY <1>5, <2>1, <2>3
<1> QED
  BY <1>1, <1>4, <1>5, <1>6, <1>7 DEF i

\* Delete takes the first cell that has the element out of the list.
LEMMA ListDeletes ==
  ASSUME List!TypeOK, NEW s, NEW n,
         Listing(s, n, listNext, Header, NULL, listAllocated),
         NEW X \in Elements, List!Delete(X)
  PROVE  /\ List!TypeOK' /\ UNCHANGED <<listElement, listRun>>
         /\ \E k \in 0 .. n-1 :
              /\ listElement[s[k+1]] = X /\ \A j \in 1 .. k : listElement[s[j]] # X
              /\ Listing(WithoutCell(s, n, k), n-1, listNext', Header, NULL, listAllocated')
<1>1. /\ listAllocated \subseteq Cells /\ listNext \in [Cells -> Cells \union {NULL}]
      /\ n \in Nat /\ \A k \in 0 .. n : s[k] \in listAllocated /\ s[k] \in Cells
  BY DEF List!TypeOK, Listing
<1>2. PICK k \in 0 .. n : /\ List!FindPrevious(X) = s[k]
                          /\ k < n => listElement[s[k+1]] = X
                          /\ \A j \in 1 .. k : listElement[s[j]] # X
  BY <1>1, ListFindPrevious
<1>3. /\ listNext[s[k]] # NULL
      /\ listNext' = [listNext EXCEPT ![s[k]] = listNext[listNext[s[k]]]]
      /\ listAllocated' = listAllocated \ {listNext[s[k]]}
      /\ UNCHANGED <<listElement, listRun>>
  BY <1>2 DEF List!Delete, List!DeleteNext, List!IsLast
<1>4. k \in 0 .. n-1 /\ k < n /\ k+1 \in 0 .. n /\ listNext[s[k]] = s[k+1]
  BY <1>1, <1>3 DEF Listing
<1>5. /\ listNext'[s[k]] = listNext[s[k+1]]
      /\ \A p \in listAllocated \ {s[k+1]} : p # s[k] => listNext'[p] = listNext[p]
  BY <1>1, <1>3, <1>4
<1>6. Listing(WithoutCell(s, n, k), n-1, listNext', Header, NULL, listAllocated \ {s[k+1]})
  BY <1>4, <1>5, ListingDelete
<1>7. Listing(WithoutCell(s, n, k), n-1, listNext', Header, NULL, listAllocated')
  BY <1>3, <1>4, <1>6
<1>8. List!TypeOK'
  <2>1. listNext[s[k+1]] \in Cells \union {NULL}
    BY <1>1, <1>4
  <2> QED
    BY <1>1, <1>3, <1>4, <2>1 DEF List!TypeOK
<1> QED
  BY <1>2, <1>3, <1>4, <1>7, <1>8

\* Insert puts a cell behind the one that it is given.
LEMMA ListInserts ==
  ASSUME List!TypeOK, NEW s, NEW n,
         Listing(s, n, listNext, Header, NULL, listAllocated),
         NEW X \in Elements, NEW P \in List!InList, List!Insert(X, P)
  PROVE  /\ List!TypeOK' /\ listRun' = listRun
         /\ \E k \in 0 .. n, q \in Cells \ listAllocated :
              /\ listElement' = [listElement EXCEPT ![q] = X]
              /\ Listing(WithCell(s, n, k, q), n+1, listNext', Header, NULL, listAllocated')
<1>1. /\ listAllocated \subseteq Cells /\ listNext \in [Cells -> Cells \union {NULL}]
      /\ n \in Nat /\ \A k \in 0 .. n : s[k] \in listAllocated /\ s[k] \in Cells
  BY DEF List!TypeOK, Listing
<1>2. PICK q \in Cells \ listAllocated :
         /\ listElement' = [listElement EXCEPT ![q] = X]
         /\ listNext' = [listNext EXCEPT ![P] = q, ![q] = listNext[P]]
         /\ listAllocated' = listAllocated \union {q}
         /\ UNCHANGED listRun
  BY DEF List!Insert
<1>3. PICK k \in 0 .. n : P = s[k]
  <2>1. P \in listAllocated
    BY <1>1, ListWalk
  <2> QED
    BY <2>1 DEF Listing
<1>4. P \in listAllocated /\ P \in Cells /\ P # q
  BY <1>1, <1>3
<1>5. Listing(WithCell(s, n, k, q), n+1, listNext', Header, NULL, listAllocated \union {q})
  <2>1. q \notin listAllocated
    OBVIOUS
  <2>2. PICK g : g = listNext'
    OBVIOUS
  <2>3. /\ g[s[k]] = q /\ g[q] = listNext[s[k]]
        /\ \A p \in listAllocated : p # s[k] => g[p] = listNext[p]
    BY <1>1, <1>2, <1>3, <1>4, <2>2
  <2>4. Listing(WithCell(s, n, k, q), n+1, g, Header, NULL, listAllocated \union {q})
    BY <2>1, <2>3, ListingInsert
  <2> QED
    BY <2>2, <2>4
<1>6. Listing(WithCell(s, n, k, q), n+1, listNext', Header, NULL, listAllocated')
  BY <1>2, <1>5
<1>7. List!TypeOK'
  BY <1>1, <1>2, <1>4 DEF List!TypeOK
<1> QED
  BY <1>2, <1>6, <1>7

\* A step of the list inserts a cell, deletes one, or frees all but the header.
LEMMA ListKeeps == ASSUME ListInv, List!Next PROVE ListInv'
<1>0. /\ List!TypeOK /\ listRun = "running" /\ listAllocated \subseteq Cells
      /\ listNext \in [Cells -> Cells \union {NULL}] /\ listElement \in [Cells -> Elements]
  BY DEF ListInv, List!TypeOK, List!Next
<1>1. PICK s, n : Listing(s, n, listNext, Header, NULL, listAllocated)
  BY <1>0 DEF ListInv
<1>2. ASSUME NEW X \in Elements, List!Delete(X)
      PROVE  ListInv'
  BY <1>0, <1>1, <1>2, ListDeletes DEF ListInv
<1>3. ASSUME NEW X \in Elements, NEW P \in List!InList, List!Insert(X, P)
      PROVE  ListInv'
  BY <1>0, <1>1, <1>3, ListInserts DEF ListInv
<1>4. CASE List!DeleteList
  <2>1. /\ listNext' = [listNext EXCEPT ![Header] = NULL] /\ listAllocated' = {Header}
        /\ listRun' \in {"running", "crashed"} /\ UNCHANGED listElement
    BY <1>0, <1>4 DEF List!DeleteList
  <2>2. listNext'[Header] = NULL
    BY <1>0, <2>1, ListConstants
  <2>3. \E t, m : Listing(t, m, listNext', Header, NULL, listAllocated')
    BY <2>1, <2>2, ListingAlone
  <2> QED
    BY <1>0, <2>1, <2>3, ListConstants DEF ListInv, List!TypeOK
<1> QED
  BY <1>2, <1>3, <1>4 DEF List!Next

LEMMA ListStarts == ASSUME List!Init PROVE ListInv
<1>1. /\ listNext = [p \in Cells |-> NULL] /\ listAllocated = {Header}
      /\ listElement = [p \in Cells |-> CHOOSE X \in Elements : TRUE]
      /\ listRun = "running"
  BY DEF List!Init
<1>2. listNext[Header] = NULL /\ (CHOOSE X \in Elements : TRUE) \in Elements
  BY <1>1, ListConstants
<1>3. \E t, m : Listing(t, m, listNext, Header, NULL, listAllocated)
  BY <1>1, <1>2, ListingAlone
<1> QED
  BY <1>1, <1>2, <1>3, ListConstants DEF ListInv, List!TypeOK

THEOREM ListCorrect == Spec => []ListInv
<1>1. Init => ListInv
  BY ListStarts DEF Init
<1>2. ListInv /\ [Next]_vars => ListInv'
  <2>1. ListInv /\ UNCHANGED listVars => ListInv'
    BY DEF listVars, ListInv, List!TypeOK, Listing
  <2> QED
    BY <2>1, OneRuns, ListKeeps
<1> QED
  BY <1>1, <1>2, PTL DEF Spec

-------------------------------------------------------------------------------
(* The sequence that link_list implements *)

\* c is the elements of the cells that s lists behind the header.
IsItems(c, s, n, el) ==
    c \in Seq(Elements) /\ Len(c) = n /\ \A k \in 1 .. n : c[k] = el[s[k]]

LEMMA ListStands ==
  \A s, n : Listing(s, n, listNext, Header, NULL, listAllocated) /\ List!TypeOK =>
              IsItems(List!Contents, s, n, listElement)
<1> SUFFICES ASSUME NEW s, NEW n, List!TypeOK,
                    Listing(s, n, listNext, Header, NULL, listAllocated)
             PROVE  IsItems(List!Contents, s, n, listElement)
  OBVIOUS
<1>1. /\ n \in Nat /\ \A k \in 0 .. n : s[k] \in Cells
      /\ listAllocated \subseteq Cells /\ listElement \in [Cells -> Elements]
  BY DEF List!TypeOK, Listing
<1>2. List!Steps = 0 .. n /\ \A k \in 0 .. n : List!Walk[k] = s[k]
  BY <1>1, ListWalk
<1>3. List!Cardinality(0 .. n) = n + 1
  <2>1. Cardinality(0 .. n) = n + 1
    BY <1>1, FS_Interval
  <2> QED
    BY <2>1 DEF List!Cardinality, Cardinality
<1>4. List!Contents = [k \in 1 .. n |-> listElement[List!Walk[k]]]
  BY <1>1, <1>2, <1>3 DEF List!Contents
<1>5. \A k \in 1 .. n : listElement[List!Walk[k]] = listElement[s[k]] /\ listElement[s[k]] \in Elements
  BY <1>1, <1>2
<1>6. PICK c : c = [k \in 1 .. n |-> listElement[List!Walk[k]]]
  OBVIOUS
<1>7. c \in Seq(Elements) /\ Len(c) = n /\ \A k \in 1 .. n : c[k] = listElement[s[k]]
  BY <1>1, <1>5, <1>6
<1> QED
  BY <1>4, <1>6, <1>7 DEF IsItems

LEMMA ListStandsNext ==
  (\A s, n : Listing(s, n, listNext, Header, NULL, listAllocated) /\ List!TypeOK =>
               IsItems(List!Contents, s, n, listElement))'
  BY ListStands, PTL

\* The first items and steps of the abstract list, with Contents for its items.
LEMMA ListParts ==
  /\ List!Seqs!Init <=> List!Contents = <<>> /\ (listRun = "running") = TRUE
  /\ List!Seqs!vars = <<List!Contents, listRun = "running">>
  /\ List!Seqs!Next <=>
       /\ listRun = "running" /\ (listRun = "running")' \in BOOLEAN
       /\ \/ \E X \in Elements, k \in 0 .. Len(List!Contents) :
               List!Contents' = SubSeq(List!Contents, 1, k) \o <<X>>
                                  \o SubSeq(List!Contents, k+1, Len(List!Contents))
          \/ \E k \in 1 .. Len(List!Contents) :
               /\ \A j \in 1 .. k-1 : List!Contents[j] # List!Contents[k]
               /\ List!Contents' = SubSeq(List!Contents, 1, k-1)
                                     \o SubSeq(List!Contents, k+1, Len(List!Contents))
          \/ List!Contents' = <<>>
  BY DEF List!Seqs!Init, List!Seqs!vars, List!Seqs!Next, List!Seqs!Insert, List!Seqs!Delete,
     List!Seqs!DeleteList

LEMMA ListDeleteRefines ==
  ASSUME List!TypeOK, listRun = "running", NEW s, NEW n,
         Listing(s, n, listNext, Header, NULL, listAllocated),
         NEW X \in Elements, List!Delete(X)
  PROVE  List!Seqs!Next
<1>1. List!TypeOK' /\ UNCHANGED <<listElement, listRun>>
  BY ListDeletes
<1>2. PICK k \in 0 .. n-1 :
         /\ listElement[s[k+1]] = X /\ \A j \in 1 .. k : listElement[s[j]] # X
         /\ Listing(WithoutCell(s, n, k), n-1, listNext', Header, NULL, listAllocated')
  BY ListDeletes
<1>3. n \in Nat
  BY DEF Listing
<1>4. PICK t : t = WithoutCell(s, n, k)
  OBVIOUS
<1>5. Listing(t, n-1, listNext', Header, NULL, listAllocated')
  BY <1>2, <1>4
<1>6. PICK c, d : c = List!Contents /\ d = List!Contents'
  OBVIOUS
<1>7. IsItems(c, s, n, listElement)
  BY <1>6, ListStands
<1>8. IsItems(d, t, n-1, listElement')
  BY <1>1, <1>5, <1>6, ListStandsNext
<1>9. /\ c \in Seq(Elements) /\ d \in Seq(Elements) /\ Len(c) = n /\ Len(d) = n-1
      /\ k \in 0 .. Len(c)-1 /\ k+1 \in 1 .. Len(c)
  BY <1>3, <1>7, <1>8 DEF IsItems
<1>10. \A j \in 1 .. Len(c)-1 : d[j] = IF j <= k THEN c[j] ELSE c[j+1]
  <2> TAKE j \in 1 .. Len(c)-1
  <2>1. j \in 1 .. n-1 /\ j \in 0 .. n-1 /\ j \in 1 .. n /\ j+1 \in 1 .. n
    BY <1>3, <1>9
  <2>2. d[j] = listElement[t[j]] /\ c[j] = listElement[s[j]] /\ c[j+1] = listElement[s[j+1]]
    BY <1>1, <1>7, <1>8, <2>1 DEF IsItems
  <2> QED
    BY <1>4, <2>1, <2>2 DEF WithoutCell
<1>11. d = SubSeq(c, 1, (k+1)-1) \o SubSeq(c, (k+1)+1, Len(c))
  BY <1>9, <1>10, Deleted
<1>12. \A j \in 1 .. (k+1)-1 : c[j] # c[k+1]
  <2> TAKE j \in 1 .. (k+1)-1
  <2>1. j \in 1 .. k /\ j \in 1 .. n /\ k+1 \in 1 .. n
    BY <1>3
  <2> QED
    BY <1>2, <1>7, <2>1 DEF IsItems
<1>13. PICK i \in 1 .. Len(c) : i = k+1
  BY <1>9
<1>14. (\A j \in 1 .. i-1 : c[j] # c[i]) /\ d = SubSeq(c, 1, i-1) \o SubSeq(c, i+1, Len(c))
  BY <1>11, <1>12, <1>13
<1> QED
  BY <1>1, <1>6, <1>14, ListParts

LEMMA ListInsertRefines ==
  ASSUME List!TypeOK, listRun = "running", NEW s, NEW n,
         Listing(s, n, listNext, Header, NULL, listAllocated),
         NEW X \in Elements, NEW P \in List!InList, List!Insert(X, P)
  PROVE  List!Seqs!Next
<1>1. List!TypeOK' /\ listRun' = listRun
  BY ListInserts
<1>2. PICK k \in 0 .. n, q \in Cells \ listAllocated :
         /\ listElement' = [listElement EXCEPT ![q] = X]
         /\ Listing(WithCell(s, n, k, q), n+1, listNext', Header, NULL, listAllocated')
  BY ListInserts
<1>3. n \in Nat /\ \A j \in 0 .. n : s[j] \in listAllocated
  BY DEF Listing
<1>4. PICK t : t = WithCell(s, n, k, q)
  OBVIOUS
<1>5. Listing(t, n+1, listNext', Header, NULL, listAllocated')
  BY <1>2, <1>4
<1>6. PICK c, d, e : c = List!Contents /\ d = List!Contents' /\ e = listElement'
  OBVIOUS
<1>7. IsItems(c, s, n, listElement)
  BY <1>6, ListStands
<1>8. IsItems(d, t, n+1, e)
  BY <1>1, <1>5, <1>6, ListStandsNext
<1>9. /\ c \in Seq(Elements) /\ d \in Seq(Elements) /\ Len(c) = n /\ Len(d) = Len(c)+1
      /\ k \in 0 .. Len(c)
  BY <1>3, <1>7, <1>8 DEF IsItems
<1>10. e[q] = X /\ \A j \in 0 .. n : e[s[j]] = listElement[s[j]]
  BY <1>2, <1>3, <1>6 DEF List!TypeOK
<1>11. \A j \in 1 .. Len(c)+1 : d[j] = IF j <= k THEN c[j] ELSE IF j = k+1 THEN X ELSE c[j-1]
  <2> TAKE j \in 1 .. Len(c)+1
  <2>1. j \in 1 .. n+1 /\ j \in 0 .. n+1
    BY <1>3, <1>9
  <2>2. d[j] = e[t[j]]
    BY <1>8, <2>1 DEF IsItems
  <2>3. CASE j <= k
    <3>1. j \in 1 .. n /\ j \in 0 .. n /\ t[j] = s[j]
      BY <1>3, <1>4, <2>1, <2>3 DEF WithCell
    <3> QED
      BY <1>7, <1>10, <2>2, <2>3, <3>1 DEF IsItems
  <2>4. CASE j = k+1
    <3>1. t[j] = q /\ ~(j <= k)
      BY <1>3, <1>4, <2>1, <2>4 DEF WithCell
    <3> QED
      BY <1>10, <2>2, <2>4, <3>1
  <2>5. CASE j > k+1
    <3>1. j-1 \in 1 .. n /\ j-1 \in 0 .. n /\ t[j] = s[j-1] /\ ~(j <= k) /\ j # k+1
      BY <1>3, <1>4, <2>1, <2>5 DEF WithCell
    <3> QED
      BY <1>7, <1>10, <2>2, <3>1 DEF IsItems
  <2> QED
    BY <1>3, <2>1, <2>3, <2>4, <2>5
<1>12. d = SubSeq(c, 1, k) \o <<X>> \o SubSeq(c, k+1, Len(c))
  BY <1>9, <1>11, Inserted
<1>13. \E Y \in Elements, m \in 0 .. Len(c) :
         d = SubSeq(c, 1, m) \o <<Y>> \o SubSeq(c, m+1, Len(c))
  BY <1>9, <1>12
<1>14. \E Y \in Elements, m \in 0 .. Len(List!Contents) :
         List!Contents' = SubSeq(List!Contents, 1, m) \o <<Y>>
                            \o SubSeq(List!Contents, m+1, Len(List!Contents))
  BY <1>6, <1>13
<1> QED
  BY <1>1, <1>14, ListParts

\* When the header is alone there are no items.
LEMMA NoItems ==
  ASSUME NEW s, NEW n, NEW f, Listing(s, n, f, Header, NULL, {Header}),
         NEW c, NEW el, IsItems(c, s, n, el)
  PROVE  c = <<>>
<1>1. n \in Nat /\ \A j \in 0 .. n : s[j] = Header
  BY DEF Listing
<1>2. n = 0
  BY <1>1 DEF Listing
<1> QED
  BY <1>2 DEF IsItems

LEMMA ListRefines == ASSUME ListInv, List!Next PROVE List!Seqs!Next
<1>1. /\ List!TypeOK /\ listRun = "running"
      /\ listNext \in [Cells -> Cells \union {NULL}]
  BY DEF ListInv, List!TypeOK, List!Next
<1>2. PICK s, n : Listing(s, n, listNext, Header, NULL, listAllocated)
  BY <1>1 DEF ListInv
<1>3. CASE List!DeleteList
  <2>1. /\ listNext' = [listNext EXCEPT ![Header] = NULL] /\ listAllocated' = {Header}
        /\ List!TypeOK'
    BY <1>1, <1>3, ListKeeps DEF List!DeleteList, ListInv
  <2>2. listNext'[Header] = NULL
    BY <1>1, <2>1, ListConstants
  <2>3. PICK t, m : Listing(t, m, listNext', Header, NULL, listAllocated')
    BY <2>1, <2>2, ListingAlone
  <2>4. IsItems(List!Contents', t, m, listElement')
    BY <2>1, <2>3, ListStandsNext
  <2>5. List!Contents' = <<>>
    BY <2>1, <2>3, <2>4, NoItems
  <2> QED
    BY <1>1, <2>5, ListParts
<1>4. ASSUME NEW X \in Elements, List!Delete(X) PROVE List!Seqs!Next
  BY <1>1, <1>2, <1>4, ListDeleteRefines
<1>5. ASSUME NEW X \in Elements, NEW P \in List!InList, List!Insert(X, P)
      PROVE  List!Seqs!Next
  BY <1>1, <1>2, <1>5, ListInsertRefines
<1> QED
  BY <1>3, <1>4, <1>5 DEF List!Next

\* link_list implements a sequence: Insert puts an element behind the position
\* it is given, Delete takes the first that is equal, DeleteList empties it.
THEOREM ListImplements == Spec => RefinesSequence
<1>1. Init => List!Seqs!Init
  <2> SUFFICES ASSUME List!Init PROVE List!Seqs!Init
    BY DEF Init
  <2>1. ListInv
    BY ListStarts
  <2>2. listRun = "running" /\ listAllocated = {Header}
    BY DEF List!Init
  <2>3. PICK s, n : Listing(s, n, listNext, Header, NULL, {Header})
    BY <2>1, <2>2 DEF ListInv
  <2>4. IsItems(List!Contents, s, n, listElement)
    BY <2>1, <2>2, <2>3, ListStands DEF ListInv
  <2>5. List!Contents = <<>>
    BY <2>3, <2>4, NoItems
  <2> QED
    BY <2>2, <2>5, ListParts
<1>2. ListInv /\ [Next]_vars =>
        [program = "link_list" => [List!Seqs!Next]_(List!Seqs!vars)]_listVars
  BY OneRuns, ListRefines
<1> QED
  BY <1>1, <1>2, ListCorrect, PTL DEF Spec, RefinesSequence

-------------------------------------------------------------------------------
(* contacts *)

\* While the menu is shown the cells that are allocated are the list, and no two
\* of them have the same name.
BookInv ==
    /\ Book!TypeOK /\ bookName[Header] = NoName
    /\ bookRun = "menu" =>
         /\ \E s, n : Listing(s, n, bookNext, Header, NULL, bookAllocated)
         /\ \A p \in bookAllocated : p # Header => bookName[p] \in Names
         /\ \A p, q \in bookAllocated : bookName[p] = bookName[q] => p = q

LEMMA BookConstants ==
  /\ IsFiniteSet(People) /\ Header \in People /\ NULL \notin People
  /\ NoName \notin Names /\ Book!AnyNumber \in Numbers
  /\ Book!Cardinality(People) = Cardinality(People)
<1>1. Book!CellsAssumption /\ NoName \notin Names /\ Numbers # {}
  BY ProgramsAssumption DEF Book!ContactsAssumption
<1> QED
  BY <1>1 DEF Book!CellsAssumption, Book!IsFiniteSet, IsFiniteSet, Book!AnyNumber,
              Book!Cardinality, Cardinality

\* Walk is the listing.
LEMMA BookWalk ==
  ASSUME NEW s, NEW n, Listing(s, n, bookNext, Header, NULL, bookAllocated),
         bookAllocated \subseteq People
  PROVE  /\ Book!Steps = 0 .. n /\ \A k \in 0 .. n : Book!Walk[k] = s[k]
         /\ Book!InList = bookAllocated /\ Book!WellFormed
<1> DEFINE size == Cardinality(People)
<1>1. size \in Nat /\ n + 1 <= size /\ n \in Nat
  <2>1. n \in Nat
    BY DEF Listing
  <2> QED
    BY <2>1, BookConstants, ListingFits
<1>2. IsWalk(Book!Walk, size, bookNext, Header, NULL)
  <2>1. \E w : IsWalk(w, size, bookNext, Header, NULL)
    BY <1>1, WalkExists
  <2> HIDE DEF size
  <2>2. Book!Cardinality(People) = size
    BY BookConstants DEF size
  <2> QED
    BY <2>1, <2>2 DEF IsWalk, Book!Walk
<1>3. \A k \in 0 .. size : Book!Walk[k] = IF k <= n THEN s[k] ELSE NULL
  BY <1>1, <1>2, WalkListing, BookConstants
<1>4. DOMAIN Book!Walk = 0 .. size
  BY <1>2 DEF IsWalk
<1>5. \A k \in 0 .. n : s[k] \in bookAllocated /\ s[k] # NULL /\ k \in 0 .. size
  BY <1>1, BookConstants DEF Listing
<1> HIDE DEF size
<1>6. Book!Steps = 0 .. n
  BY <1>1, <1>3, <1>4, <1>5 DEF Book!Steps
<1>7. \A k \in 0 .. n : Book!Walk[k] = s[k]
  BY <1>1, <1>3, <1>5
<1>8. Book!InList = bookAllocated
  <2>1. Book!InList = {Book!Walk[k] : k \in 0 .. n}
    BY <1>6 DEF Book!InList
  <2>2. \A p \in bookAllocated : \E k \in 0 .. n : s[k] = p
    BY DEF Listing
  <2> QED
    BY <1>5, <1>7, <2>1, <2>2
<1>9. NULL \in {Book!Walk[k] : k \in DOMAIN Book!Walk}
  <2>1. n+1 \in 0 .. size /\ Book!Walk[n+1] = NULL
    BY <1>1, <1>3
  <2> QED
    BY <1>4, <2>1
<1> QED
  BY <1>6, <1>7, <1>8, <1>9 DEF Book!WellFormed

\* findPerson returns a cell that has the name, or NULL if none has.
LEMMA BookFind ==
  ASSUME NEW s, NEW n, Listing(s, n, bookNext, Header, NULL, bookAllocated),
         bookAllocated \subseteq People, NEW x
  PROVE  /\ Book!findPerson(x) = NULL => \A p \in bookAllocated : bookName[p] # x
         /\ Book!findPerson(x) # NULL =>
              \E k \in 0 .. n : Book!findPerson(x) = s[k] /\ bookName[s[k]] = x
<1>1. /\ Book!Steps = 0 .. n /\ n \in Nat
      /\ \A k \in 0 .. n : Book!Walk[k] = s[k] /\ s[k] \in bookAllocated /\ s[k] # NULL
      /\ \A p \in bookAllocated : \E k \in 0 .. n : s[k] = p
  BY BookWalk, BookConstants DEF Listing
<1> DEFINE K == {k \in 0 .. n : bookName[s[k]] = x}
<1>2. CASE K = {}
  <2>1. ~ \E k \in Book!Steps : bookName[Book!Walk[k]] = x
    BY <1>1, <1>2
  <2>2. Book!findPerson(x) = NULL
    BY <2>1 DEF Book!findPerson, Book!FirstCell
  <2> QED
    BY <1>1, <1>2, <2>2
<1>3. CASE K # {}
  <2>1. PICK k \in K : \A j \in K : k <= j
    <3> HIDE DEF K
    <3>1. K \in SUBSET Nat
      BY DEF K
    <3> QED
      BY <1>3, <3>1, LeastOf
  <2> DEFINE i == CHOOSE i \in Book!Steps :
                     /\ bookName[Book!Walk[i]] = x
                     /\ \A j \in Book!Steps : bookName[Book!Walk[j]] = x => i <= j
  <2>2. /\ \E j \in Book!Steps : bookName[Book!Walk[j]] = x
        /\ \E j \in Book!Steps :
              /\ bookName[Book!Walk[j]] = x
              /\ \A m \in Book!Steps : bookName[Book!Walk[m]] = x => j <= m
    <3>1. /\ k \in Book!Steps /\ bookName[Book!Walk[k]] = x
          /\ \A m \in Book!Steps : bookName[Book!Walk[m]] = x => k <= m
      BY <1>1, <2>1
    <3> QED
      BY <3>1
  <2>3. Book!findPerson(x) = Book!Walk[i]
    BY <2>2 DEF Book!findPerson, Book!FirstCell
  <2>4. i \in Book!Steps /\ bookName[Book!Walk[i]] = x
    BY <2>2
  <2> HIDE DEF i
  <2> QED
    BY <1>1, <2>3, <2>4
<1> QED
  BY <1>2, <1>3

\* PreviousOf returns the cell whose pointer it is asked for.
LEMMA BookPrevious ==
  ASSUME NEW s, NEW n, Listing(s, n, bookNext, Header, NULL, bookAllocated),
         bookAllocated \subseteq People, NEW k \in 0 .. n
  PROVE  Book!PreviousOf(bookNext[s[k]]) = s[k]
<1> DEFINE x == bookNext[s[k]]
<1>1. /\ Book!Steps = 0 .. n /\ n \in Nat
      /\ \A j \in 0 .. n : Book!Walk[j] = s[j] /\ s[j] \in bookAllocated /\ s[j] # NULL
  <2>1. Book!Steps = 0 .. n /\ \A j \in 0 .. n : Book!Walk[j] = s[j]
    BY BookWalk
  <2>2. n \in Nat /\ \A j \in 0 .. n : s[j] \in bookAllocated
    BY DEF Listing
  <2> QED
    BY <2>1, <2>2, BookConstants
<1>2. \A j \in 0 .. n : bookNext[s[j]] = x => j = k
  <2> SUFFICES ASSUME NEW j \in 0 .. n, bookNext[s[j]] = x
               PROVE  j = k
    OBVIOUS
  <2>1. \A m \in 0 .. n : /\ m = n => bookNext[s[m]] = NULL
                          /\ m # n => m+1 \in 0 .. n /\ bookNext[s[m]] = s[m+1]
    <3> TAKE m \in 0 .. n
    <3>1. m # n => m \in 0 .. n-1 /\ m+1 \in 0 .. n
      BY <1>1
    <3> QED
      BY <3>1 DEF Listing
  <2>2. CASE j = n \/ k = n
    BY <1>1, <2>1, <2>2
  <2>3. CASE j # n /\ k # n
    <3>1. s[j+1] = s[k+1] /\ j+1 \in 0 .. n /\ k+1 \in 0 .. n
      BY <2>1, <2>3
    <3>2. j+1 = k+1
      BY <3>1 DEF Listing
    <3> QED
      BY <1>1, <3>2
  <2> QED
    BY <2>2, <2>3
<1> HIDE DEF x
<1> DEFINE i == CHOOSE i \in Book!Steps :
                   /\ bookNext[Book!Walk[i]] = x
                   /\ \A j \in Book!Steps : bookNext[Book!Walk[j]] = x => i <= j
<1>3. /\ k \in Book!Steps /\ bookNext[Book!Walk[k]] = x
      /\ \A j \in Book!Steps : bookNext[Book!Walk[j]] = x => k <= j
  <2>1. k \in Book!Steps /\ bookNext[Book!Walk[k]] = x
    BY <1>1 DEF x
  <2>2. \A j \in Book!Steps : bookNext[Book!Walk[j]] = x => k = j
    BY <1>1, <1>2
  <2> QED
    BY <1>1, <2>1, <2>2
<1>4. Book!PreviousOf(x) = Book!Walk[i]
  BY <1>3 DEF Book!PreviousOf, Book!FirstCell
<1>5. i \in Book!Steps /\ bookNext[Book!Walk[i]] = x
  BY <1>3
<1> HIDE DEF i
<1>6. i = k
  BY <1>1, <1>2, <1>5
<1> QED
  BY <1>1, <1>4, <1>6 DEF x

\* What the list means: the numbers of the people in it.
BookMeaning ==
    /\ Book!Listed = {bookName[p] : p \in bookAllocated \ {Header}}
    /\ \A p \in bookAllocated \ {Header} :
         bookNumber[Book!findPerson(bookName[p])] = bookNumber[p]

LEMMA BookMeans == BookInv /\ bookRun = "menu" => BookMeaning /\ Book!WellFormed
<1> SUFFICES ASSUME BookInv, bookRun = "menu"
             PROVE  BookMeaning /\ Book!WellFormed
  OBVIOUS
<1>1. PICK s, n : Listing(s, n, bookNext, Header, NULL, bookAllocated)
  BY DEF BookInv
<1>2. bookAllocated \subseteq People
  BY DEF BookInv, Book!TypeOK
<1>3. Book!InList = bookAllocated /\ Book!WellFormed
  BY <1>1, <1>2, BookWalk
<1>4. /\ bookName[Header] = NoName /\ NoName \notin Names
      /\ \A p \in bookAllocated : p # Header => bookName[p] \in Names
  BY BookConstants DEF BookInv
<1>5. Book!Listed = {bookName[p] : p \in bookAllocated \ {Header}}
  BY <1>3, <1>4 DEF Book!Listed
<1>6. ASSUME NEW p \in bookAllocated \ {Header}
      PROVE  Book!findPerson(bookName[p]) = p
  <2>1. Book!findPerson(bookName[p]) # NULL
    BY <1>1, <1>2, BookFind
  <2>2. PICK k \in 0 .. n : Book!findPerson(bookName[p]) = s[k] /\ bookName[s[k]] = bookName[p]
    BY <1>1, <1>2, <2>1, BookFind
  <2>3. s[k] \in bookAllocated
    BY <1>1, <2>2 DEF Listing
  <2> QED
    BY <2>2, <2>3 DEF BookInv
<1> QED
  BY <1>3, <1>5, <1>6 DEF BookMeaning

\* What each command of the menu does to the cells.
LEMMA BookAddKeeps ==
  ASSUME BookInv, bookRun = "menu", NEW x \in Names, NEW y \in Numbers, Book!addPerson(x, y)
  PROVE  /\ BookInv' /\ bookRun' = "menu"
         /\ \A p \in bookAllocated : bookName[p] # x
         /\ \E q \in People \ bookAllocated :
              /\ q # Header /\ bookAllocated' = bookAllocated \union {q}
              /\ bookName' = [bookName EXCEPT ![q] = x]
              /\ bookNumber' = [bookNumber EXCEPT ![q] = y]
<1>0. /\ bookAllocated \subseteq People /\ bookNext \in [People -> People \union {NULL}]
      /\ bookName \in [People -> Names \union {NoName}]
      /\ bookNumber \in [People -> Numbers]
  BY DEF BookInv, Book!TypeOK
<1>1. PICK s, n : Listing(s, n, bookNext, Header, NULL, bookAllocated)
  BY DEF BookInv
<1>2. /\ n \in 0 .. n /\ s[n] \in bookAllocated /\ bookNext[s[n]] = NULL
      /\ Header \in bookAllocated
  BY <1>1 DEF Listing
<1>3. Book!PreviousOf(NULL) = s[n]
  BY <1>0, <1>1, <1>2, BookPrevious
<1>4. PICK q \in People \ bookAllocated :
           /\ bookName' = [bookName EXCEPT ![q] = x]
           /\ bookNumber' = [bookNumber EXCEPT ![q] = y]
           /\ bookNext' = [bookNext EXCEPT ![q] = NULL, ![s[n]] = q]
           /\ bookAllocated' = bookAllocated \union {q} /\ bookRun' = bookRun
  BY <1>3 DEF Book!addPerson, Book!Append
<1>5. q # Header /\ q # s[n] /\ q \notin bookAllocated
  BY <1>2, <1>4
<1>6. \A p \in bookAllocated : bookName[p] # x
  BY <1>0, <1>1, BookFind DEF Book!addPerson
<1>7. \E t, m : Listing(t, m, bookNext', Header, NULL, bookAllocated')
  <2>0. PICK k \in 0 .. n : k = n
    BY <1>2
  <2>1. PICK g : g = bookNext'
    OBVIOUS
  <2>2. /\ g[s[k]] = q /\ g[q] = bookNext[s[k]]
        /\ \A p \in bookAllocated : p # s[k] => g[p] = bookNext[p]
    BY <1>0, <1>2, <1>4, <1>5, <2>0, <2>1
  <2>3. q \notin bookAllocated
    BY <1>5
  <2>4. Listing(WithCell(s, n, k, q), n+1, g, Header, NULL, bookAllocated \union {q})
    BY <1>1, <2>2, <2>3, ListingInsert
  <2> QED
    BY <1>4, <2>1, <2>4
<1>8. Book!TypeOK'
  BY <1>0, <1>2, <1>4 DEF BookInv, Book!TypeOK
<1>9. /\ bookName'[Header] = NoName
      /\ \A p \in bookAllocated' : p # Header => bookName'[p] \in Names
      /\ \A p, r \in bookAllocated' : bookName'[p] = bookName'[r] => p = r
  <2>1. bookName'[q] = x /\ \A p \in bookAllocated : bookName'[p] = bookName[p]
    BY <1>0, <1>4, <1>5
  <2> QED
    BY <1>2, <1>4, <1>6, <2>1 DEF BookInv
<1>10. BookInv'
  BY <1>4, <1>7, <1>8, <1>9 DEF BookInv
<1> QED
  BY <1>4, <1>5, <1>6, <1>10

LEMMA BookDelKeeps ==
  ASSUME BookInv, bookRun = "menu", NEW x \in Names, Book!delPerson(x)
  PROVE  /\ BookInv' /\ bookRun' = "menu"
         /\ \E q \in bookAllocated :
              /\ q # Header /\ bookName[q] = x /\ bookAllocated' = bookAllocated \ {q}
              /\ \A p \in bookAllocated \ {q} :
                   bookName'[p] = bookName[p] /\ bookNumber'[p] = bookNumber[p]
<1>0. /\ bookAllocated \subseteq People /\ bookNext \in [People -> People \union {NULL}]
      /\ bookName \in [People -> Names \union {NoName}]
      /\ bookNumber \in [People -> Numbers]
      /\ bookName[Header] = NoName /\ x # NoName
  BY BookConstants DEF BookInv, Book!TypeOK
<1>1. PICK s, n : Listing(s, n, bookNext, Header, NULL, bookAllocated)
  BY DEF BookInv
<1>2. PICK i \in 0 .. n : Book!findPerson(x) = s[i] /\ bookName[s[i]] = x
  BY <1>0, <1>1, BookFind DEF Book!delPerson
<1>3. n \in Nat /\ s[0] = Header /\ \A j \in 0 .. n : s[j] \in bookAllocated
  BY <1>1 DEF Listing
<1>4. i # 0 /\ s[i] # Header
  BY <1>0, <1>2, <1>3
<1>5. PICK k \in 0 .. n-1 : k + 1 = i
  <2>1. i-1 \in 0 .. n-1 /\ (i-1)+1 = i
    BY <1>3, <1>4
  <2> QED
    BY <2>1
<1>6. /\ bookNext[s[k]] = s[k+1] /\ k \in 0 .. n /\ s[k+1] = s[i]
      /\ s[k] \in bookAllocated /\ s[k+1] \in bookAllocated /\ s[k] # s[k+1]
  <2>1. k \in 0 .. n /\ k+1 \in 0 .. n /\ k # k+1
    BY <1>3, <1>5
  <2> QED
    BY <1>1, <1>3, <1>5, <2>1 DEF Listing
<1>7. Book!PreviousOf(s[i]) = s[k]
  BY <1>0, <1>1, <1>6, BookPrevious
<1> DEFINE q == s[k+1]
<1>8. /\ bookNext' = [bookNext EXCEPT ![s[k]] = bookNext[q], ![q] = NULL]
      /\ bookName' = [bookName EXCEPT ![q] = NoName]
      /\ bookNumber' = [bookNumber EXCEPT ![q] = Book!AnyNumber]
      /\ bookAllocated' = bookAllocated \ {q} /\ bookRun' = bookRun
  BY <1>2, <1>6, <1>7 DEF Book!delPerson
<1>9. \E t, m : Listing(t, m, bookNext', Header, NULL, bookAllocated')
  <2>1. PICK g : g = bookNext'
    OBVIOUS
  <2>2. g[s[k]] = bookNext[q] /\ \A p \in bookAllocated \ {q} : p # s[k] => g[p] = bookNext[p]
    BY <1>0, <1>6, <1>8, <2>1
  <2>3. Listing(WithoutCell(s, n, k), n-1, g, Header, NULL, bookAllocated \ {s[k+1]})
    BY <1>1, <2>2, ListingDelete
  <2> QED
    BY <1>8, <2>1, <2>3
<1>10. Book!TypeOK'
  BY <1>0, <1>6, <1>8, BookConstants DEF BookInv, Book!TypeOK
<1>11. /\ q # Header /\ q \in bookAllocated /\ bookName[q] = x
       /\ bookName'[Header] = NoName
       /\ \A p \in bookAllocated \ {q} :
            bookName'[p] = bookName[p] /\ bookNumber'[p] = bookNumber[p]
  BY <1>0, <1>2, <1>4, <1>6, <1>8, BookConstants
<1> HIDE DEF q
<1>12. BookInv'
  BY <1>8, <1>9, <1>10, <1>11 DEF BookInv
<1> QED
  BY <1>8, <1>11, <1>12

LEMMA BookChangeKeeps ==
  ASSUME BookInv, bookRun = "menu", NEW x \in Names, NEW y \in Numbers,
         Book!changePerson(x, y)
  PROVE  /\ BookInv' /\ bookRun' = "menu"
         /\ UNCHANGED <<bookAllocated, bookName>>
         /\ \E q \in bookAllocated \ {Header} :
              bookName[q] = x /\ bookNumber' = [bookNumber EXCEPT ![q] = y]
<1>0. /\ bookAllocated \subseteq People /\ bookNumber \in [People -> Numbers]
      /\ bookName[Header] = NoName /\ x # NoName
  BY BookConstants DEF BookInv, Book!TypeOK
<1>1. PICK s, n : Listing(s, n, bookNext, Header, NULL, bookAllocated)
  BY DEF BookInv
<1>2. PICK q \in bookAllocated \ {Header} : Book!findPerson(x) = q /\ bookName[q] = x
  <2>1. PICK k \in 0 .. n : Book!findPerson(x) = s[k] /\ bookName[s[k]] = x
    BY <1>0, <1>1, BookFind DEF Book!changePerson
  <2>2. s[k] \in bookAllocated /\ s[k] # Header
    BY <1>0, <1>1, <2>1 DEF Listing
  <2> QED
    BY <2>1, <2>2
<1>3. /\ bookNumber' = [bookNumber EXCEPT ![q] = y]
      /\ UNCHANGED <<bookNext, bookAllocated, bookName, bookRun>>
  BY <1>2 DEF Book!changePerson
<1>4. Book!TypeOK'
  BY <1>0, <1>3 DEF BookInv, Book!TypeOK
<1>5. BookInv'
  BY <1>3, <1>4 DEF BookInv
<1> QED
  BY <1>2, <1>3, <1>5

LEMMA BookKeeps == ASSUME BookInv, Book!Next PROVE BookInv'
<1>1. bookRun = "menu"
  BY DEF Book!Next
<1>2. CASE \E x \in Names : Book!delMissing(x)
  BY <1>2 DEF Book!delMissing, BookInv, Book!TypeOK
<1>3. CASE Book!exit_contacts
  BY <1>3 DEF Book!exit_contacts, BookInv, Book!TypeOK
<1> QED
  BY <1>1, <1>2, <1>3, BookAddKeeps, BookDelKeeps, BookChangeKeeps DEF Book!Next

LEMMA BookStarts == ASSUME Book!Init PROVE BookInv
<1>1. /\ bookNext = [p \in People |-> NULL] /\ bookAllocated = {Header}
      /\ bookName = [p \in People |-> NoName]
      /\ bookNumber = [p \in People |-> Book!AnyNumber]
      /\ bookRun = "menu"
  BY DEF Book!Init
<1>2. bookNext[Header] = NULL /\ bookName[Header] = NoName
  BY <1>1, BookConstants
<1>3. \E t, m : Listing(t, m, bookNext, Header, NULL, bookAllocated)
  BY <1>1, <1>2, ListingAlone
<1> QED
  BY <1>1, <1>2, <1>3, BookConstants DEF BookInv, Book!TypeOK

THEOREM BookCorrect == Spec => []BookInv
<1>1. Init => BookInv
  BY BookStarts DEF Init
<1>2. BookInv /\ [Next]_vars => BookInv'
  <2>1. BookInv /\ UNCHANGED bookVars => BookInv'
    BY DEF bookVars, BookInv, Book!TypeOK, Listing
  <2> QED
    BY <2>1, OneRuns, BookKeeps
<1> QED
  BY <1>1, <1>2, PTL DEF Spec

-------------------------------------------------------------------------------
(* The phone book that contacts implements *)

\* The book that the list stands for, as RefinesBook has it.
PhoneNumbers == [x \in Book!Listed |-> bookNumber[Book!findPerson(x)]]

\* b gives the number nr[p] to the name nm[p] of every cell p but the header.
IsBook(b, A, nm, nr) ==
    /\ b = [x \in DOMAIN b |-> b[x]]
    /\ DOMAIN b = {nm[p] : p \in A \ {Header}}
    /\ \A p \in A \ {Header} : b[nm[p]] = nr[p]

LEMMA BookStands ==
  BookInv /\ bookRun = "menu" => IsBook(PhoneNumbers, bookAllocated, bookName, bookNumber)
<1> SUFFICES ASSUME BookInv, bookRun = "menu"
             PROVE  IsBook(PhoneNumbers, bookAllocated, bookName, bookNumber)
  OBVIOUS
<1>1. BookMeaning
  BY BookMeans
<1> QED
  BY <1>1 DEF BookMeaning, IsBook, PhoneNumbers

LEMMA BookStandsNext ==
  (BookInv /\ bookRun = "menu" => IsBook(PhoneNumbers, bookAllocated, bookName, bookNumber))'
  BY BookStands, PTL

LEMMA BookParts ==
  /\ Book!Book!Init <=> PhoneNumbers \in [{} -> Numbers] /\ bookRun = "menu"
  /\ Book!Book!vars = <<PhoneNumbers, bookRun = "menu">>
  /\ Book!Book!Next <=>
       \/ /\ bookRun = "menu" /\ (bookRun = "menu")' = (bookRun = "menu")
          /\ \/ \E n \in Names \ DOMAIN PhoneNumbers, x \in Numbers :
                  PhoneNumbers' = [m \in DOMAIN PhoneNumbers \union {n} |->
                                     IF m = n THEN x ELSE PhoneNumbers[m]]
             \/ \E n \in DOMAIN PhoneNumbers :
                  PhoneNumbers' = [m \in DOMAIN PhoneNumbers \ {n} |-> PhoneNumbers[m]]
             \/ \E n \in DOMAIN PhoneNumbers, x \in Numbers :
                  PhoneNumbers' = [PhoneNumbers EXCEPT ![n] = x]
       \/ (bookRun = "menu")' = FALSE /\ PhoneNumbers' = PhoneNumbers
  BY DEF Book!Book!Init, Book!Book!vars, Book!Book!Next, Book!Book!Command, Book!Book!Add,
     Book!Book!Delete, Book!Book!Change, Book!Book!End, PhoneNumbers

\* A command that adds, deletes or changes a person does so in the book.
LEMMA BookAddRefines ==
  ASSUME BookInv, bookRun = "menu", NEW x \in Names, NEW y \in Numbers, Book!addPerson(x, y)
  PROVE  Book!Book!Next
<1> DEFINE b == PhoneNumbers
<1>0. /\ IsBook(b, bookAllocated, bookName, bookNumber) /\ bookAllocated \subseteq People
      /\ bookName \in [People -> Names \union {NoName}] /\ bookNumber \in [People -> Numbers]
  BY BookStands DEF BookInv, Book!TypeOK
<1>1. BookInv' /\ bookRun' = "menu" /\ \A p \in bookAllocated : bookName[p] # x
  BY BookAddKeeps
<1>2. PICK q \in People \ bookAllocated :
         /\ q # Header /\ bookAllocated' = bookAllocated \union {q}
         /\ bookName' = [bookName EXCEPT ![q] = x]
         /\ bookNumber' = [bookNumber EXCEPT ![q] = y]
  BY BookAddKeeps
<1>3. PICK nm, nr, c : nm = bookName' /\ nr = bookNumber' /\ c = PhoneNumbers'
  OBVIOUS
<1>4. IsBook(c, bookAllocated \union {q}, nm, nr)
  BY <1>1, <1>2, <1>3, BookStandsNext
<1>5. /\ nm[q] = x /\ nr[q] = y
      /\ \A p \in bookAllocated : nm[p] = bookName[p] /\ nr[p] = bookNumber[p]
  BY <1>0, <1>2, <1>3
<1> HIDE DEF b
<1>6. x \notin DOMAIN b /\ DOMAIN c = DOMAIN b \union {x}
  BY <1>0, <1>1, <1>2, <1>4, <1>5 DEF IsBook
<1>7. ASSUME NEW m \in DOMAIN c PROVE c[m] = IF m = x THEN y ELSE b[m]
  <2>1. PICK p \in (bookAllocated \union {q}) \ {Header} : m = nm[p]
    BY <1>4 DEF IsBook
  <2>2. c[m] = nr[p]
    BY <1>4, <2>1 DEF IsBook
  <2>3. CASE p = q
    BY <1>5, <2>1, <2>2, <2>3
  <2>4. CASE p # q
    <3>1. p \in bookAllocated \ {Header} /\ m = bookName[p] /\ m # x /\ nr[p] = bookNumber[p]
      BY <1>1, <1>5, <2>1, <2>4
    <3> QED
      BY <1>0, <2>2, <3>1 DEF IsBook
  <2> QED
    BY <2>3, <2>4
<1>8. c = [m \in DOMAIN c |-> c[m]]
  BY <1>4 DEF IsBook
<1>9. c = [m \in DOMAIN b \union {x} |-> IF m = x THEN y ELSE b[m]]
  BY <1>6, <1>7, <1>8
<1> QED
  BY <1>1, <1>3, <1>6, <1>9, BookParts DEF b

LEMMA BookDelRefines ==
  ASSUME BookInv, bookRun = "menu", NEW x \in Names, Book!delPerson(x)
  PROVE  Book!Book!Next
<1> DEFINE b == PhoneNumbers
<1>0. IsBook(b, bookAllocated, bookName, bookNumber)
  BY BookStands
<1>1. BookInv' /\ bookRun' = "menu"
  BY BookDelKeeps
<1>2. PICK nm, nr, c : nm = bookName' /\ nr = bookNumber' /\ c = PhoneNumbers'
  OBVIOUS
<1>3. PICK q \in bookAllocated :
         /\ q # Header /\ bookName[q] = x /\ bookAllocated' = bookAllocated \ {q}
         /\ \A p \in bookAllocated \ {q} : nm[p] = bookName[p] /\ nr[p] = bookNumber[p]
  BY <1>2, BookDelKeeps
<1>4. IsBook(c, bookAllocated \ {q}, nm, nr)
  BY <1>1, <1>2, <1>3, BookStandsNext
<1>5. \A p \in bookAllocated : bookName[p] = x => p = q
  BY <1>3 DEF BookInv
<1> HIDE DEF b
<1>6. x \in DOMAIN b
  BY <1>0, <1>3 DEF IsBook
<1>7. DOMAIN c = DOMAIN b \ {x}
  BY <1>0, <1>3, <1>4, <1>5 DEF IsBook
<1>8. ASSUME NEW m \in DOMAIN c PROVE c[m] = b[m]
  <2>1. PICK p \in (bookAllocated \ {q}) \ {Header} : m = nm[p]
    BY <1>4 DEF IsBook
  <2>2. c[m] = nr[p] /\ nr[p] = bookNumber[p] /\ m = bookName[p]
    BY <1>3, <1>4, <2>1 DEF IsBook
  <2> QED
    BY <1>0, <2>1, <2>2 DEF IsBook
<1>9. c = [m \in DOMAIN c |-> c[m]]
  BY <1>4 DEF IsBook
<1>10. c = [m \in DOMAIN b \ {x} |-> b[m]]
  BY <1>7, <1>8, <1>9
<1> QED
  BY <1>1, <1>2, <1>6, <1>10, BookParts DEF b

LEMMA BookChangeRefines ==
  ASSUME BookInv, bookRun = "menu", NEW x \in Names, NEW y \in Numbers,
         Book!changePerson(x, y)
  PROVE  Book!Book!Next
<1> DEFINE b == PhoneNumbers
<1>0. IsBook(b, bookAllocated, bookName, bookNumber) /\ bookNumber \in [People -> Numbers]
      /\ bookAllocated \subseteq People
  BY BookStands DEF BookInv, Book!TypeOK
<1>1. BookInv' /\ bookRun' = "menu" /\ UNCHANGED <<bookAllocated, bookName>>
  BY BookChangeKeeps
<1>2. PICK nr, c : nr = bookNumber' /\ c = PhoneNumbers'
  OBVIOUS
<1>3. PICK q \in bookAllocated \ {Header} :
         bookName[q] = x /\ nr = [bookNumber EXCEPT ![q] = y]
  BY <1>2, BookChangeKeeps
<1>4. IsBook(c, bookAllocated, bookName, nr)
  BY <1>1, <1>2, BookStandsNext
<1>5. /\ \A p \in bookAllocated : bookName[p] = x => p = q
      /\ nr[q] = y /\ \A p \in bookAllocated : p # q => nr[p] = bookNumber[p]
  BY <1>0, <1>3 DEF BookInv
<1> HIDE DEF b
<1>6. x \in DOMAIN b /\ DOMAIN c = DOMAIN b
  BY <1>0, <1>3, <1>4 DEF IsBook
<1>7. ASSUME NEW m \in DOMAIN c PROVE c[m] = IF m = x THEN y ELSE b[m]
  <2>1. PICK p \in bookAllocated \ {Header} : m = bookName[p]
    BY <1>4 DEF IsBook
  <2>2. c[m] = nr[p] /\ b[m] = bookNumber[p]
    BY <1>0, <1>4, <2>1 DEF IsBook
  <2> QED
    BY <1>3, <1>5, <2>1, <2>2
<1>8. c = [m \in DOMAIN c |-> c[m]] /\ b = [m \in DOMAIN b |-> b[m]]
  BY <1>0, <1>4 DEF IsBook
<1>9. c = [b EXCEPT ![x] = y]
  BY <1>6, <1>7, <1>8
<1> QED
  BY <1>1, <1>2, <1>6, <1>9, BookParts DEF b

LEMMA BookRefines == ASSUME BookInv, Book!Next PROVE [Book!Book!Next]_(Book!Book!vars)
<1>1. bookRun = "menu"
  BY DEF Book!Next
<1>2. (\E x \in Names : Book!delMissing(x)) => bookRun' = "crashed" /\ PhoneNumbers' = PhoneNumbers
  BY DEF Book!delMissing, PhoneNumbers, Book!Listed, Book!InList, Book!findPerson,
     Book!FirstCell, Book!Steps, Book!Walk
<1>3. Book!exit_contacts => bookRun' = "exited" /\ PhoneNumbers' = PhoneNumbers
  BY DEF Book!exit_contacts, PhoneNumbers, Book!Listed, Book!InList, Book!findPerson,
     Book!FirstCell, Book!Steps, Book!Walk
<1> QED
  BY <1>1, <1>2, <1>3, BookAddRefines, BookDelRefines, BookChangeRefines, BookParts DEF Book!Next

\* contacts implements a book that has one number for a name: a command adds,
\* deletes or changes one person, whatever was typed before, and a name that is
\* not there ends the program.
THEOREM BookImplements == Spec => RefinesBook
<1>1. Init => Book!Book!Init
  <2> SUFFICES ASSUME Book!Init PROVE Book!Book!Init
    BY DEF Init
  <2>1. Book!Init => BookInv
    BY BookStarts
  <2>2. bookRun = "menu" /\ bookAllocated = {Header}
    BY DEF Book!Init
  <2>3. IsBook(PhoneNumbers, bookAllocated, bookName, bookNumber)
    BY <2>1, <2>2, BookStands
  <2>4. DOMAIN PhoneNumbers = {} /\ PhoneNumbers = [x \in {} |-> PhoneNumbers[x]]
    BY <2>2, <2>3 DEF IsBook
  <2> QED
    BY <2>2, <2>4, BookParts
<1>2. BookInv /\ [Next]_vars =>
        [program = "contacts" => [Book!Book!Next]_(Book!Book!vars)]_bookVars
  BY OneRuns, BookRefines
<1> QED
  BY <1>1, <1>2, BookCorrect, PTL DEF Spec, RefinesBook

-------------------------------------------------------------------------------
(* All the programs *)

\* Neither list is ever walked past its end or into a freed cell, and the loops
\* of quick_sort.c stay in the part of the array that they were called for, for
\* every number of people and elements and every array.
THEOREM DataCorrect == Spec => []DataSound
<1>1. BookInv => (program = "contacts" => Book!ListWellFormed)
  BY BookMeans DEF Book!ListWellFormed
<1>2. ListInv => (program = "link_list" => List!ListWellFormed)
  BY ListWalk DEF ListInv, List!TypeOK, List!ListWellFormed
<1>3. SortInv => (program = "quick_sort" => Sorted!InBounds)
  BY DEF SortInv, Sorted!InBounds
<1>4. BookInv /\ ListInv /\ SortInv => DataSound
  BY <1>1, <1>2, <1>3 DEF DataSound
<1> QED
  BY <1>4, BookCorrect, ListCorrect, SortCorrect, PTL

LEMMA EpollTypes == Spec => []Epoll!TypeOK
<1>1. Epoll!KernelTypeOK <=> EpollP!KernelTypeOK
  BY EpollKernel DEF Epoll!KernelTypeOK, EpollP!KernelTypeOK, Epoll!Fds, EpollP!Fds,
     Epoll!Cardinality, EpollP!Cardinality
<1>2. EpollP!TypeOK => Epoll!TypeOK
  BY <1>1, EpollKernel DEF Epoll!TypeOK, EpollP!TypeOK, Epoll!Fds, EpollP!Fds,
     Epoll!Cardinality, EpollP!Cardinality
<1>3. EpollP!Spec => []EpollP!TypeOK
  BY EpollConstants, EpollP!TypeCorrect
<1> QED
  BY <1>2, <1>3, EpollRuns, PTL

LEMMA ChatTypes == Spec => []Chat!TypeOK
<1>1. Chat!Fds = ChatP!Fds /\ Chat!Slots = ChatP!Slots /\ Chat!NoFd = ChatP!NoFd
  BY ChatKernel DEF Chat!Fds, ChatP!Fds, Chat!Cardinality, ChatP!Cardinality,
     Chat!Slots, ChatP!Slots, Chat!NoFd, ChatP!NoFd, Chat!ss, ChatP!ss
<1>2. Chat!KernelTypeOK <=> ChatP!KernelTypeOK
  BY <1>1 DEF Chat!KernelTypeOK, ChatP!KernelTypeOK
<1>3. ChatP!TypeOK => Chat!TypeOK
  BY <1>1, <1>2 DEF Chat!TypeOK, ChatP!TypeOK
<1>4. ChatP!Spec => []ChatP!TypeOK
  BY ChatConstants, ChatP!TypeCorrect
<1> QED
  BY <1>3, <1>4, ChatRuns, PTL

LEMMA PoolTypes == PoolInv => Pool!TypeOK
<1> SUFFICES ASSUME PoolInv PROVE Pool!TypeOK
  OBVIOUS
<1>1. Pool!Fds = PoolK!Fds /\ Pool!ss = PoolK!ss /\ Pool!NoFd = PoolK!NoFd
  BY PoolKernel
<1>2. Pool!KernelTypeOK
  BY <1>1 DEF PoolInv, PoolK!KernelInv, Pool!KernelTypeOK, PoolK!KernelTypeOK
<1>3. poolWatch \subseteq Pool!Fds \union {Pool!ss}
  BY <1>1 DEF PoolInv, PoolK!KernelInv, PoolK!KernelTypeOK, PoolK!OpenFds
<1>4. poolPending \in Seq(Pool!Tasks)
  <2>1. 1 .. poolAccepted \subseteq Pool!Tasks
    BY PoolConstants DEF PoolInv, Pool!Tasks
  <2> QED
    BY <2>1, WiderSeq DEF PoolInv
<1>5. poolI \in 0 .. MaxClient
  BY PoolConstants DEF PoolInv
<1> QED
  BY <1>1, <1>2, <1>3, <1>4, <1>5 DEF PoolInv, Pool!TypeOK

LEMMA SortTypes == SortInv => Sorted!TypeOK
<1> SUFFICES ASSUME SortInv PROVE Sorted!TypeOK
  OBVIOUS
<1>1. ASSUME NEW k \in 1 .. Len(sortCalls)
      PROVE  sortCalls[k] \in (DOMAIN sortArr) \X (DOMAIN sortArr)
  <2>1. sortCalls[k] \in SortParts
    BY ElementOf DEF SortInv
  <2> QED
    BY <2>1 DEF SortParts
<1> QED
  BY <1>1 DEF SortInv, Sorted!TypeOK

\* Each program's variables have their types, for every value of the constants.
THEOREM TypeCorrect == Spec => []TypeOK
<1> DEFINE Inv == /\ program \in Programs
                  /\ EchoInv /\ BookInv /\ ListInv /\ LockInv /\ SemInv /\ PoolInv
                  /\ PipeInv /\ MsgInv /\ UdpInv /\ SortInv
<1>1. Inv => /\ Echo!TypeOK /\ Book!TypeOK /\ List!TypeOK /\ Locked!TypeOK /\ Sem!TypeOK
             /\ Pool!TypeOK /\ Pipe!TypeOK /\ Msg!TypeOK /\ Udp!TypeOK /\ Sorted!TypeOK
             /\ program \in Programs
  BY PoolTypes, SortTypes DEF EchoInv, BookInv, ListInv, LockInv, SemInv, PipeInv, MsgInv, UdpInv
<1>2. Inv /\ Epoll!TypeOK /\ Chat!TypeOK => TypeOK
  BY <1>1 DEF TypeOK, Programs
<1>3. Spec => []Inv
  BY ProgramCorrect, EchoCorrect, BookCorrect, ListCorrect, LockCorrect, SemCorrect,
     PoolCorrect, PipeCorrect, MsgCorrect, UdpCorrect, SortCorrect, PTL
<1> QED
  BY <1>2, <1>3, EpollTypes, ChatTypes, PTL
===============================================================================
