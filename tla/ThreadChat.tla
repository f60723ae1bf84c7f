------------------------------ MODULE ThreadChat ------------------------------
(***************************************************************************)
(* The chat server of practise/chat/thread_server.c: the main thread       *)
(* accepts clients and writes their descriptors to the array cs_fds, a     *)
(* thread per client reads its messages and sends them to every descriptor *)
(* in the array.  No lock is taken.                                        *)
(*                                                                         *)
(* Entries are never removed: the kernel gives the number of a closed      *)
(* descriptor to a later client, who is then in the array twice.           *)
(***************************************************************************)
EXTENDS Sockets

CONSTANT MaxClient    \* the length of cs_fds

\* Nothing tests count against the length: with as many clients the array
\* would have no 0 at its end, with more it would be overrun.
ThreadChatAssumption ==
    MaxClient \in Nat /\ Cardinality(Clients) < MaxClient

Slots == 0 .. MaxClient-1

VARIABLES
    cs_fds, count,
    mainPc, cs,           \* the main thread and the client it has accepted
    thread,               \* the thread that serves each client
    slot,                 \* its argument, an index of cs_fds
    i,                    \* its index in the broadcast loop
    due, got,             \* history: who should hear its message, who did
    killed                \* a signal has killed the process

threads == <<thread, slot, i, due, got>>
main    == <<cs_fds, count, mainPc, cs>>
server  == <<main, threads, killed>>
vars    == <<server, kernel>>

TypeOK ==
    /\ cs_fds \in [Slots -> Fds \union {NoFd}] /\ count \in Slots
    /\ mainPc \in {"accept", "store", "create"}
    /\ cs \subseteq Clients
    /\ thread \in [Clients -> {"none", "reading", "testing", "writing", "ended"}]
    /\ slot \in [Clients -> Slots] /\ i \in [Clients -> Slots]
    /\ due \in [Clients -> SUBSET Clients] /\ got \in [Clients -> SUBSET Clients]
    /\ killed \in BOOLEAN
    /\ KernelTypeOK

Init ==
    /\ cs_fds = [k \in Slots |-> NoFd] /\ count = 0
    /\ mainPc = "accept" /\ cs = {}
    /\ thread = [c \in Clients |-> "none"]
    /\ slot = [c \in Clients |-> 0] /\ i = [c \in Clients |-> 0]
    /\ due = [c \in Clients |-> {}] /\ got = [c \in Clients |-> {}]
    /\ killed = FALSE
    /\ KernelInit

\* The clients that are in the array to stay.
Up(c) == sock[c] = "accepted" /\ peer[c] = "up"
Listed == {c \in Clients : Up(c) /\ \E k \in 0 .. count-1 : cs_fds[k] = fd[c]}

-------------------------------------------------------------------------------
(* The main thread.  When accept() fails it calls accept() again. *)

Accept ==
    /\ mainPc = "accept" /\ ~killed
    /\ \E c \in Pending : AcceptFrom(c) /\ cs' = {c}
    /\ mainPc' = "store"
    /\ UNCHANGED <<cs_fds, count, threads, killed>>

Store ==
    /\ mainPc = "store" /\ ~killed
    /\ \E c \in cs : cs_fds' = [cs_fds EXCEPT ![count] = fd[c]]
    /\ mainPc' = "create"
    /\ UNCHANGED <<count, cs, threads, killed, kernel>>

CreateWith(n) ==
    /\ mainPc = "create" /\ ~killed
    /\ \E c \in cs :
         /\ thread' = [thread EXCEPT ![c] = "reading"]
         /\ slot' = [slot EXCEPT ![c] = count]
    /\ count' = n
    /\ mainPc' = "accept" /\ cs' = {}
    /\ UNCHANGED <<cs_fds, i, due, got, killed, kernel>>

CreateUncounted == CreateWith(count) \* mutant: count++ is missing

\* The thread runs, count++.
Create == CreateWith(count + 1)

\* The slot is cleared, the client stays connected and is never served.
FailWith(n) ==
    /\ mainPc = "create" /\ ~killed
    /\ cs_fds' = [cs_fds EXCEPT ![count] = NoFd]
    /\ count' = n
    /\ mainPc' = "accept" /\ cs' = {}
    /\ UNCHANGED <<threads, killed, kernel>>

CreateFailsCounted == FailWith(count + 1) \* mutant: count++ although pthread_create failed
CreateFails        == FailWith(count)

-------------------------------------------------------------------------------
(* The thread of client c: client_thread *)

Own(c) == cs_fds[slot[c]]          \* *c_fd

\* memset(readbuf, 0, sizeof(writebuf)) clears 512 bytes behind readbuf, which
\* the compiler places: if they are writebuf nothing changes, if they are c_fd
\* and the return address the next access ends the process.
Overrun(c) ==
    /\ thread[c] = "reading" /\ ~killed
    /\ killed' = TRUE
    /\ UNCHANGED <<main, threads, kernel>>

Read(c) ==
    /\ thread[c] = "reading" /\ ~killed
    /\ Own(c) \in OpenFds /\ RecvFrom(ClientOf(Own(c)))
    /\ thread' = [thread EXCEPT ![c] = "testing"]
    /\ i' = [i EXCEPT ![c] = 0]
    /\ due' = [due EXCEPT ![c] = Listed]
    /\ UNCHANGED <<main, slot, got, killed>>

\* read() returns 0 or an error: say goodbye, close, return.
ReadEnd(c) ==
    /\ thread[c] = "reading" /\ ~killed
    /\ Own(c) \in OpenFds /\ AtEnd(ClientOf(Own(c)))
    /\ \/ /\ Close(ClientOf(Own(c)))
          /\ thread' = [thread EXCEPT ![c] = "ended"]
          /\ UNCHANGED killed
       \/ /\ Broken(ClientOf(Own(c)))
          /\ killed' = TRUE
          /\ UNCHANGED <<thread, kernel>>
    /\ UNCHANGED <<main, slot, i, due, got>>

\* The loop tests an entry, then reads it again for write().
Test(c) ==
    /\ thread[c] = "testing" /\ ~killed
    /\ cs_fds[i[c]] # NoFd
    /\ thread' = [thread EXCEPT ![c] = "writing"]
    /\ UNCHANGED <<main, slot, i, due, got, killed, kernel>>

BroadcastDone(c) ==
    /\ thread[c] = "testing" /\ ~killed
    /\ cs_fds[i[c]] = NoFd
    /\ thread' = [thread EXCEPT ![c] = "reading"]
    /\ i' = [i EXCEPT ![c] = 0]
    /\ due' = [due EXCEPT ![c] = {}] /\ got' = [got EXCEPT ![c] = {}]
    /\ UNCHANGED <<main, slot, killed, kernel>>

Target(c) == cs_fds[i[c]]

Written(c) ==
    /\ thread' = [thread EXCEPT ![c] = "testing"]
    /\ i' = [i EXCEPT ![c] = @ + 1]

\* write() on an open connection waits while its buffer is full.
Write(c) ==
    /\ thread[c] = "writing" /\ ~killed
    /\ Target(c) \in OpenFds /\ SendTo(ClientOf(Target(c)))
    /\ got' = [got EXCEPT ![c] = @ \union {ClientOf(Target(c))}]
    /\ Written(c)
    /\ UNCHANGED <<main, slot, due, killed>>

\* The entry is a closed descriptor, or 0 again (the terminal), or the
\* connection was reset: no client hears the message.
WriteFails(c) ==
    /\ thread[c] = "writing" /\ ~killed
    /\ Target(c) \in OpenFds => Broken(ClientOf(Target(c)))
    /\ Written(c)
    /\ UNCHANGED <<main, slot, due, got, killed, kernel>>

\* A write to a connection that was reset raises SIGPIPE: all threads die.
KilledByPipe(c) ==
    /\ thread[c] = "writing" /\ ~killed
    /\ Target(c) \in OpenFds /\ Broken(ClientOf(Target(c)))
    /\ killed' = TRUE
    /\ UNCHANGED <<main, threads, kernel>>

-------------------------------------------------------------------------------
Main == Accept \/ Store \/ Create \/ CreateFails

Thread(c) ==
    \/ Overrun(c) \/ Read(c) \/ ReadEnd(c) \/ Test(c) \/ BroadcastDone(c)
    \/ Write(c) \/ WriteFails(c) \/ KilledByPipe(c)

Client(c) ==
    /\ ~killed
    /\ Connect(c) \/ ClientStep(c)
    /\ UNCHANGED server

Next == Main \/ \E c \in Clients : Thread(c) \/ Client(c)

Spec == Init /\ [][Next]_vars

-------------------------------------------------------------------------------
(* Safety *)

\* A thread's argument points into an array that the main thread goes on
\* writing, and the numbers in it are reused: it is its own client's
\* descriptor as long as the thread runs.
OwnSlot == \A c \in Clients :
    thread[c] \in {"reading", "testing", "writing"} => Own(c) = fd[c]

\* A message reaches every client that was in the array when it was read and
\* has not left, whichever of them come, go or fail to start meanwhile.
AllHear ==
    [][\A c \in Clients :
          thread[c] = "testing" /\ thread'[c] = "reading" =>
              \A t \in due[c] : Up(t) => t \in got[c]]_vars
===============================================================================
