------------------------------- MODULE Programs -------------------------------
(***************************************************************************)
(* The smaller programs, checked together: a behaviour starts one of them, *)
(* which runs alone; the others stay in their initial states.              *)
(***************************************************************************)
EXTENDS Integers, FiniteSets

CONSTANTS
    Clients, FewClients,       \* the clients of a server, of a server with threads
    RecvCap, SendCap,          \* bounds: the messages in a connection's buffers
    MaxEvents, ChatLength, MaxClient, QueueMax, Workers,    \* sizes in the servers
    Parent, Children, MsgProcs,   \* processes
    People, Names, NoName, Numbers, Elements, Cells, Header, NULL,    \* the lists
    MaxRounds, First, MaxSem, MaxRuns,    \* bounds of the thread and queue examples
    Total, Capacity, PipeBuf, ReadSize,   \* sizes of the pipes
    Nobody, Length, Values                \* no client; the arrays to be sorted

VARIABLES
    program,
    \* socket/io_model/epoll.c
    epollPc, epollWatch, epollEvents, epollCurFd, epollCs, epollListening,
    epollSock, epollPeer, epollFd, epollIn, epollOut,
    \* practise/chat/thread_server.c
    chatFds, chatCount, chatMainPc, chatCs, chatThread, chatSlot, chatI,
    chatDue, chatGot, chatKilled,
    chatSock, chatPeer, chatFd, chatIn, chatOut,
    \* socket/exmaple/TCP
    echoPc, echoSs, echoHolds, echoCs, echoClient, echoBacklog, echoRequest, echoReply,
    \* practise/contacts.c
    bookNext, bookAllocated, bookName, bookNumber, bookRun,
    \* practise/link_list.c
    listNext, listAllocated, listElement, listRun,
    \* thread/thread_lock.c
    lockRunning, lockMain, lockPc, lockHolder, lockItem, lockLoaded, lockRounds,
    \* thread/thread_sem.c
    semRunning, semMain, semPc, semValue,
    \* practise/epoll_thread_model.c
    poolPc, poolWatch, poolEvents, poolI, poolFds, poolCurFd, poolArg, poolStage,
    poolPending, poolHeld, poolAccepted, poolClosed,
    poolSock, poolPeer, poolFd, poolIn, poolOut,
    \* process/communication/pipe
    pipeLoops, pipePc, pipeEnds, pipeBytes, pipeSize, pipeCall, pipeGot,
    \* process/communication/msg
    msgPc, msgRuns, msgExists, msgMessages,
    \* socket/exmaple/UDP
    udpServer, udpBuf, udpFrom, udpRequests, udpAnswers, udpClient, udpAnswer, udpLost,
    \* learn_c/quick_sort.c
    sortGiven, sortArr, sortCalls, sortI, sortJ, sortPc

epollVars == <<epollPc, epollWatch, epollEvents, epollCurFd, epollCs, epollListening,
               epollSock, epollPeer, epollFd, epollIn, epollOut>>
chatVars  == <<chatFds, chatCount, chatMainPc, chatCs, chatThread, chatSlot, chatI,
               chatDue, chatGot, chatKilled,
               chatSock, chatPeer, chatFd, chatIn, chatOut>>
echoVars  == <<echoPc, echoSs, echoHolds, echoCs, echoClient, echoBacklog,
               echoRequest, echoReply>>
bookVars  == <<bookNext, bookAllocated, bookName, bookNumber, bookRun>>
listVars  == <<listNext, listAllocated, listElement, listRun>>
lockVars  == <<lockRunning, lockMain, lockPc, lockHolder, lockItem, lockLoaded, lockRounds>>
semVars   == <<semRunning, semMain, semPc, semValue>>
poolVars  == <<poolPc, poolWatch, poolEvents, poolI, poolFds, poolCurFd, poolArg, poolStage,
               poolPending, poolHeld, poolAccepted, poolClosed,
               poolSock, poolPeer, poolFd, poolIn, poolOut>>
pipeVars  == <<pipeLoops, pipePc, pipeEnds, pipeBytes, pipeSize, pipeCall, pipeGot>>
msgVars   == <<msgPc, msgRuns, msgExists, msgMessages>>
udpVars   == <<udpServer, udpBuf, udpFrom, udpRequests, udpAnswers, udpClient,
               udpAnswer, udpLost>>
sortVars  == <<sortGiven, sortArr, sortCalls, sortI, sortJ, sortPc>>
vars == <<program, epollVars, chatVars, echoVars, bookVars, listVars, lockVars,
          semVars, poolVars, pipeVars, msgVars, udpVars, sortVars>>

Epoll == INSTANCE EpollServer WITH
    pc <- epollPc, watch <- epollWatch, events <- epollEvents, cur_fd <- epollCurFd,
    cs <- epollCs, listening <- epollListening,
    sock <- epollSock, peer <- epollPeer, fd <- epollFd, inbox <- epollIn, outbox <- epollOut

Chat == INSTANCE ThreadChat WITH
    Clients <- FewClients, MaxClient <- ChatLength,
    cs_fds <- chatFds, count <- chatCount, mainPc <- chatMainPc, cs <- chatCs,
    thread <- chatThread, slot <- chatSlot, i <- chatI, due <- chatDue, got <- chatGot,
    killed <- chatKilled,
    sock <- chatSock, peer <- chatPeer, fd <- chatFd, inbox <- chatIn, outbox <- chatOut

Echo == INSTANCE ForkEcho WITH
    Clients <- FewClients,
    pc <- echoPc, hasSs <- echoSs, holds <- echoHolds, cs <- echoCs,
    client <- echoClient, backlog <- echoBacklog, request <- echoRequest, reply <- echoReply

Book == INSTANCE Contacts WITH
    Cells <- People, Head <- Header,
    next <- bookNext, allocated <- bookAllocated, name <- bookName,
    number <- bookNumber, run <- bookRun

List == INSTANCE LinkList WITH
    Head <- Header,
    next <- listNext, allocated <- listAllocated, element <- listElement, run <- listRun

Locked == INSTANCE ThreadLock WITH
    running <- lockRunning, main <- lockMain, pc <- lockPc, holder <- lockHolder,
    buffer_has_item <- lockItem, loaded <- lockLoaded, rounds <- lockRounds

Sem == INSTANCE ThreadSem WITH
    running <- semRunning, main <- semMain, pc <- semPc, sem <- semValue

Pool == INSTANCE EpollPool WITH
    Clients <- FewClients,
    pc <- poolPc, watch <- poolWatch, events <- poolEvents, i <- poolI, wait_fds <- poolFds,
    cur_fd <- poolCurFd, arg <- poolArg, stage <- poolStage, pending <- poolPending,
    held <- poolHeld, accepted <- poolAccepted, closed <- poolClosed,
    sock <- poolSock, peer <- poolPeer, fd <- poolFd, inbox <- poolIn, outbox <- poolOut

Pipe == INSTANCE Pipes WITH
    loops <- pipeLoops, pc <- pipePc, writeEnds <- pipeEnds, pipe <- pipeBytes,
    write_size <- pipeSize, call <- pipeCall, got <- pipeGot

Msg == INSTANCE MsgQueue WITH
    Procs <- MsgProcs, pc <- msgPc, runs <- msgRuns, exists <- msgExists, messages <- msgMessages

Udp == INSTANCE UdpEcho WITH
    server <- udpServer, buf <- udpBuf, from <- udpFrom, requests <- udpRequests,
    answers <- udpAnswers, client <- udpClient, answer <- udpAnswer, lost <- udpLost

Sorted == INSTANCE QuickSort WITH
    given <- sortGiven, arr <- sortArr, calls <- sortCalls, i <- sortI, j <- sortJ, pc <- sortPc

ASSUME ProgramsAssumption ==
    /\ IsFiniteSet(Clients) /\ IsFiniteSet(FewClients)
    /\ RecvCap \in Nat \ {0} /\ SendCap \in Nat \ {0}
    /\ Parent \notin Children
    /\ MaxRounds \in Nat /\ MaxRuns \in Nat
    /\ Epoll!EpollAssumption /\ Chat!ThreadChatAssumption /\ Pool!EpollPoolAssumption
    /\ Book!ContactsAssumption /\ List!LinkListAssumption
    /\ Sem!ThreadSemAssumption /\ Pipe!PipesAssumption /\ Sorted!QuickSortAssumption

Init ==
    /\ program \in {"epoll", "thread_server", "TCP/server", "contacts", "link_list",
                   "thread_lock", "thread_sem", "epoll_thread_model", "pipe", "msg",
                   "UDP/server", "quick_sort"}
    /\ Epoll!Init /\ Chat!Init /\ Echo!Init /\ Book!Init /\ List!Init /\ Locked!Init
    /\ Sem!Init /\ Pool!Init /\ Pipe!Init /\ Msg!Init /\ Udp!Init /\ Sorted!Init
    \* One initial state of the programs that do not run is enough.
    /\ program # "pipe" => pipeLoops
    /\ program # "quick_sort" => sortGiven = Sorted!MainArray

\* Only this program runs.
Only(name) ==
    /\ program = name /\ UNCHANGED program
    /\ name # "epoll"              => UNCHANGED epollVars
    /\ name # "thread_server"      => UNCHANGED chatVars
    /\ name # "TCP/server"         => UNCHANGED echoVars
    /\ name # "contacts"           => UNCHANGED bookVars
    /\ name # "link_list"          => UNCHANGED listVars
    /\ name # "thread_lock"        => UNCHANGED lockVars
    /\ name # "thread_sem"         => UNCHANGED semVars
    /\ name # "epoll_thread_model" => UNCHANGED poolVars
    /\ name # "pipe"               => UNCHANGED pipeVars
    /\ name # "msg"                => UNCHANGED msgVars
    /\ name # "UDP/server"         => UNCHANGED udpVars
    /\ name # "quick_sort"         => UNCHANGED sortVars

RunEpoll  == Only("epoll") /\ Epoll!Next
RunChat   == Only("thread_server") /\ Chat!Next
RunEcho   == Only("TCP/server") /\ Echo!Next
RunBook == Only("contacts") /\ Book!Next
RunList   == Only("link_list") /\ List!Next
RunLocked == Only("thread_lock") /\ Locked!Next
RunSem    == Only("thread_sem") /\ Sem!Next
RunPool   == Only("epoll_thread_model") /\ Pool!Next
RunPipe   == Only("pipe") /\ Pipe!Next
RunMsg    == Only("msg") /\ Msg!Next
RunUdp    == Only("UDP/server") /\ Udp!Next
RunSorted == Only("quick_sort") /\ Sorted!Next

Next ==
    \/ RunEpoll \/ RunChat \/ RunEcho \/ RunBook \/ RunList \/ RunLocked
    \/ RunSem \/ RunPool \/ RunPipe \/ RunMsg \/ RunUdp \/ RunSorted

Spec == Init /\ [][Next]_vars

\* The processes and threads of these programs run; the other programs promise
\* nothing that needs it.
FairSpec ==
    /\ Spec
    /\ WF_epollVars(program = "epoll" /\ Epoll!Server)
    /\ \A p \in Echo!Procs :
          WF_echoVars(program = "TCP/server" /\ (Echo!Loop(p) \/ Echo!Handle(p)))
    /\ WF_lockVars(program = "thread_lock" /\ Locked!Main)
    /\ \A t \in Locked!Threads :
          WF_lockVars(program = "thread_lock" /\ Locked!Thread(t))
    /\ WF_semVars(program = "thread_sem" /\ Sem!Main)
    /\ WF_semVars(program = "thread_sem" /\ Sem!Producer)
    /\ WF_semVars(program = "thread_sem" /\ Sem!Consumer)
    /\ WF_pipeVars(program = "pipe" /\ Pipe!Writer)
    /\ WF_pipeVars(program = "pipe" /\ Pipe!Reader)
    /\ WF_udpVars(program = "UDP/server" /\ Udp!Server)
    /\ \A c \in Clients : WF_udpVars(program = "UDP/server" /\ Udp!Take(c))
    /\ WF_sortVars(program = "quick_sort" /\ Sorted!Next)

-------------------------------------------------------------------------------
(* The properties of the programs, which their modules explain. *)

TypeOK ==
    CASE program = "epoll" -> Epoll!TypeOK
      [] program = "thread_server" -> Chat!TypeOK
      [] program = "TCP/server" -> Echo!TypeOK
      [] program = "contacts" -> Book!TypeOK
      [] program = "link_list" -> List!TypeOK
      [] program = "thread_lock" -> Locked!TypeOK
      [] program = "thread_sem" -> Sem!TypeOK
      [] program = "epoll_thread_model" -> Pool!TypeOK
      [] program = "pipe" -> Pipe!TypeOK
      [] program = "msg" -> Msg!TypeOK
      [] program = "UDP/server" -> Udp!TypeOK
      [] program = "quick_sort" -> Sorted!TypeOK

\* socket/io_model/epoll.c: what epoll_wait reports and what becomes of it.
EventsTrue == program = "epoll" => Epoll!EventsTrue /\ Epoll!RoomForEvents
DataRead   == Epoll!DataRead

\* practise/epoll_thread_model.c: tasks that point into an array that the next
\* epoll_wait overwrites.
HandlesOpen == program = "epoll_thread_model" => Pool!HandlesOpen

\* practise/chat/thread_server.c: threads that share the array of descriptors.
OwnSlot == program = "thread_server" => Chat!OwnSlot
AllHear == Chat!AllHear

\* socket/exmaple/TCP: children that never exit, and what they have inherited.
ChildrenApart == program = "TCP/server" => Echo!OnlyParentAccepts /\ Echo!HoldsOwn

\* process/communication/msg: a queue that outlives its process.
FreshQueue == program = "msg" => Msg!FreshQueue

\* The programs that answer: socket/exmaple/TCP and socket/exmaple/UDP.
Answered == Echo!Answered /\ Udp!Answered

\* No cell that was freed is reached and no index leaves its array:
\* practise/contacts.c, practise/link_list.c and learn_c/quick_sort.c.
DataSound ==
    /\ program = "contacts" => Book!ListWellFormed
    /\ program = "link_list" => List!ListWellFormed
    /\ program = "quick_sort" => Sorted!InBounds

\* What programs print: the counter of thread/thread_lock.c, what pipe_buf_test.c
\* reads and a UDP client's answer.
ResultsRight ==
    /\ program = "thread_lock" => Locked!NoneLost
    /\ program = "pipe" => Pipe!AllRead
    /\ program = "UDP/server" => Udp!OwnEcho

\* practise/contacts.c and practise/link_list.c implement a phone book and a
\* sequence.
RefinesBook ==
    /\ program = "contacts" => Book!Book!Init
    /\ [][program = "contacts" => [Book!Book!Next]_(Book!Book!vars)]_bookVars
RefinesSequence ==
    /\ program = "link_list" => List!Seqs!Init
    /\ [][program = "link_list" => [List!Seqs!Next]_(List!Seqs!vars)]_listVars

\* The programs that end: thread/thread_lock.c, thread/thread_sem.c, the pipes
\* and the recursion of quick_sort.c, with main's array sorted.
Ends ==
    /\ program = "thread_lock" => Locked!Returns
    /\ program = "thread_sem" => Sem!Ends
    /\ program = "pipe" => Pipe!Ends
    /\ program = "quick_sort" => Sorted!Ends
===============================================================================
