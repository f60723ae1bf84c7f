------------------------------- MODULE Sockets -------------------------------
(***************************************************************************)
(* The TCP connections between a server process and its clients, as both   *)
(* ends see them: what the servers of socket/io_model and practise/chat    *)
(* rely on in the kernel, and the client program socket/io_model/client.c. *)
(* The servers' modules extend this one.                                   *)
(***************************************************************************)
EXTENDS Integers, FiniteSets

CONSTANTS
    Clients,      \* the client processes, each connects once
    RecvCap,      \* bound: messages in the server's receive buffer of a client
    SendCap       \* messages that fit in its send buffer

ASSUME SocketsAssumption ==
    /\ IsFiniteSet(Clients)
    /\ RecvCap \in Nat \ {0} /\ SendCap \in Nat \ {0}

VARIABLES
    sock,                 \* the server's end of each connection
    peer,                 \* the client's end, as far as the server can tell
    fd,                   \* the server's descriptor of each connection
    inbox, outbox         \* the messages in the buffers of each connection

kernel == <<sock, peer, fd, inbox, outbox>>

NoFd == 0                             \* what an unused slot of a table holds
ss   == 3                             \* the listening descriptor
Fds  == ss+1 .. ss+Cardinality(Clients)

KernelTypeOK ==
    /\ sock \in [Clients -> {"off", "pending", "accepted", "closed"}]
    /\ peer \in [Clients -> {"up", "fin", "written", "reset"}]
    /\ fd \in [Clients -> Fds \union {NoFd}]
    /\ inbox \in [Clients -> 0 .. RecvCap]
    /\ outbox \in [Clients -> 0 .. SendCap]

KernelInit ==
    /\ sock = [c \in Clients |-> "off"]
    /\ peer = [c \in Clients |-> "up"]
    /\ fd = [c \in Clients |-> NoFd]
    /\ inbox = [c \in Clients |-> 0]
    /\ outbox = [c \in Clients |-> 0]

-------------------------------------------------------------------------------
(* Descriptors *)

OpenFds == {fd[c] : c \in Clients} \ {NoFd}
ClientOf(f) == CHOOSE c \in Clients : fd[c] = f
Smallest(S) == CHOOSE k \in S : \A n \in S : k <= n

\* The kernel hands out the lowest descriptor that is not in use.
NewFd == Smallest(Fds \ OpenFds)

Pending == {c \in Clients : sock[c] = "pending"}

\* A descriptor is readable when recv or accept would not block.
Readable(f) ==
    IF f = ss THEN Pending # {}
    ELSE f \in OpenFds /\ (inbox[ClientOf(f)] > 0 \/ peer[ClientOf(f)] # "up")
Writable(f) ==
    f \in OpenFds /\ (outbox[ClientOf(f)] < SendCap \/ peer[ClientOf(f)] # "up")

-------------------------------------------------------------------------------
(* What the server's system calls do to a connection *)

AcceptFrom(c) ==
    /\ sock' = [sock EXCEPT ![c] = "accepted"]
    /\ fd' = [fd EXCEPT ![c] = NewFd]
    /\ UNCHANGED <<peer, inbox, outbox>>

\* close(): the descriptor is free again, and the connection is no more.
Close(c) ==
    /\ sock' = [sock EXCEPT ![c] = "closed"]
    /\ fd' = [fd EXCEPT ![c] = NoFd]
    /\ peer' = [peer EXCEPT ![c] = "up"]
    /\ inbox' = [inbox EXCEPT ![c] = 0]
    /\ outbox' = [outbox EXCEPT ![c] = 0]

\* recv() returns a message; 0 or an error when there is none to come.
RecvFrom(c) ==
    /\ inbox[c] > 0
    /\ inbox' = [inbox EXCEPT ![c] = @ - 1]
    /\ UNCHANGED <<sock, peer, fd, outbox>>
AtEnd(c) == inbox[c] = 0 /\ peer[c] # "up"

\* send() returns: the message is in the buffer, or the client has closed its
\* end, and will answer it by a reset.
SendTo(c) ==
    /\ \/ /\ peer[c] = "up" /\ outbox[c] < SendCap
          /\ outbox' = [outbox EXCEPT ![c] = @ + 1]
          /\ UNCHANGED peer
       \/ /\ peer[c] \in {"fin", "written"}
          /\ peer' = [peer EXCEPT ![c] = "written"]
          /\ UNCHANGED outbox
    /\ UNCHANGED <<sock, fd, inbox>>

\* A send after the reset fails, or raises SIGPIPE.
Broken(c) == peer[c] = "reset"

-------------------------------------------------------------------------------
(* The clients *)

Connect(c) ==
    /\ sock[c] = "off"
    /\ sock' = [sock EXCEPT ![c] = "pending"]
    /\ UNCHANGED <<peer, fd, inbox, outbox>>

Connected(c) == sock[c] \in {"pending", "accepted"} /\ peer[c] = "up"

ClientSend(c) ==
    /\ Connected(c) /\ inbox[c] < RecvCap
    /\ inbox' = [inbox EXCEPT ![c] = @ + 1]
    /\ UNCHANGED <<sock, peer, fd, outbox>>

ClientRead(c) ==
    /\ Connected(c) /\ outbox[c] > 0
    /\ outbox' = [outbox EXCEPT ![c] = @ - 1]
    /\ UNCHANGED <<sock, peer, fd, inbox>>

\* The client exits.  Closing a socket with unread data resets the connection.
HangUp(c) ==
    /\ Connected(c)
    /\ peer' = [peer EXCEPT ![c] = IF outbox[c] > 0 THEN "reset" ELSE "fin"]
    /\ outbox' = [outbox EXCEPT ![c] = 0]
    /\ UNCHANGED <<sock, fd, inbox>>

\* The answer to a send after the client has closed reaches the server.
ResetArrives(c) ==
    /\ peer[c] = "written"
    /\ peer' = [peer EXCEPT ![c] = "reset"]
    /\ UNCHANGED <<sock, fd, inbox, outbox>>

\* Everything a connected client does on its own.
ClientStep(c) == ClientSend(c) \/ ClientRead(c) \/ HangUp(c) \/ ResetArrives(c)
===============================================================================
