----------------------------- MODULE SelectServer -----------------------------
(***************************************************************************)
(* The select() chat server of socket/io_model/select.c and its clients,   *)
(* socket/io_model/client.c.                                               *)
(*                                                                         *)
(* The server is one thread.  Between two of its system calls the clients  *)
(* connect, send, read and leave, so what select() reported may be old     *)
(* when it is used.  A loop of the server over its table skips the slots   *)
(* it does nothing with in one step: only the server writes the table.     *)
(***************************************************************************)
EXTENDS Sockets

CONSTANT MaxClient    \* MAX_CLIENT of select.c

ASSUME ServerAssumption == MaxClient \in Nat \ {0}

Slots == 0 .. MaxClient-1             \* the indexes of fds

VARIABLES
    fds, connections,     \* the table and its counter
    pc, i,                \* where the server is, the index of its inner loop
    slot,                 \* the slot whose message server_handle sends on
    rd, wd                \* what select() reported

server  == <<fds, connections, pc, i, slot, rd, wd>>
vars    == <<server, kernel>>

TypeOK ==
    /\ fds \in [Slots -> Fds \union {NoFd}]
    /\ connections \in 0 .. MaxClient
    /\ pc \in {"select", "clients", "send", "accept", "notify", "killed"}
    /\ i \in 0 .. MaxClient /\ slot \in Slots
    /\ rd \subseteq Fds \union {ss} /\ wd \subseteq Fds
    /\ KernelTypeOK

Occupied == {k \in Slots : fds[k] # NoFd}
Watched == {fds[k] : k \in Occupied}

-------------------------------------------------------------------------------
Init ==
    /\ fds = [k \in Slots |-> NoFd] /\ connections = 0
    /\ pc = "select" /\ i = 0 /\ slot = 0
    /\ rd = {} /\ wd = {}
    /\ KernelInit

-------------------------------------------------------------------------------
(* The server: select *)

\* max_client(): the largest descriptor in the table, or the listening one.
LastSlotFd == \* mutant: the listening descriptor is left out
    IF Watched = {} THEN 0 ELSE CHOOSE f \in Watched : \A g \in Watched : g <= f

MaxFd == CHOOSE f \in Watched \union {ss} : \A g \in Watched \union {ss} : g <= f

\* One turn of the loop up to and including select(): with nothing ready it
\* times out and starts again.
Select ==
    /\ pc = "select"
    /\ connections' = Cardinality(Occupied)
    /\ rd' = {f \in Watched \union {ss} : f < MaxFd + 1 /\ Readable(f)}
    /\ wd' = {f \in Watched : f < MaxFd + 1 /\ Writable(f)}
    /\ pc' = IF rd' \union wd' = {} THEN "select" ELSE "clients"
    /\ i' = 0
    /\ UNCHANGED <<fds, slot, kernel>>

-------------------------------------------------------------------------------
(* The server: messages from clients *)

Ready == {k \in Slots : k >= i /\ fds[k] \in rd \intersect wd}

\* server_handle(): recv returns a message, to be sent on to everyone.
Receive(k) ==
    LET c == ClientOf(fds[k]) IN
    /\ RecvFrom(c)
    /\ pc' = "send" /\ slot' = k /\ i' = 0
    /\ UNCHANGED <<fds, connections>>

\* server_handle(): recv returns 0 or an error, the connection is closed.
DropWith(k, table, n) ==
    /\ AtEnd(ClientOf(fds[k])) /\ Close(ClientOf(fds[k]))
    /\ fds' = table /\ connections' = n
    /\ i' = k + 1
    /\ UNCHANGED <<pc, slot>>

Without(k) == [fds EXCEPT ![k] = NoFd]

DropKeepSlot(k) == \* mutant: the result of server_handle is not looked at
    DropWith(k, fds, connections)

DropUncounted(k) == \* mutant: connections-- is missing
    DropWith(k, Without(k), connections)

DropCountedTwice(k) == \* mutant: server_handle and its caller both decrement
    DropWith(k, Without(k), connections - 2)

Drop(k) == DropWith(k, Without(k), connections - 1)

HandleClient ==
    /\ pc = "clients" /\ Ready # {}
    /\ LET k == Smallest(Ready) IN Receive(k) \/ Drop(k)
    /\ UNCHANGED <<rd, wd>>

ClientsDone ==
    /\ pc = "clients" /\ Ready = {}
    /\ pc' = "accept"
    /\ UNCHANGED <<fds, connections, i, slot, rd, wd, kernel>>

\* send() on an open descriptor blocks while the buffer is full.  A send to a
\* connection that was reset fails, or kills the server by SIGPIPE.
SendOn(f) ==
    \/ SendTo(ClientOf(f)) /\ UNCHANGED pc
    \/ /\ Broken(ClientOf(f))
       /\ pc' \in {pc, "killed"}
       /\ UNCHANGED kernel

Unsent == {k \in Occupied : k >= i}

Broadcast ==
    /\ pc = "send" /\ Unsent # {}
    /\ SendOn(fds[Smallest(Unsent)])
    /\ i' = Smallest(Unsent) + 1
    /\ UNCHANGED <<fds, connections, slot, rd, wd>>

BroadcastDone ==
    /\ pc = "send" /\ Unsent = {}
    /\ pc' = "clients" /\ i' = slot + 1 /\ slot' = 0
    /\ UNCHANGED <<fds, connections, rd, wd, kernel>>

-------------------------------------------------------------------------------
(* The server: new connections *)

NoNewClient ==
    /\ pc = "accept" /\ ss \notin rd
    /\ pc' = "select" /\ i' = 0 /\ rd' = {} /\ wd' = {}
    /\ UNCHANGED <<fds, connections, slot, kernel>>

\* accept() fails: the connection is gone.
AcceptFails(c) ==
    /\ Close(c)
    /\ pc' = "select" /\ rd' = {} /\ wd' = {}
    /\ UNCHANGED <<fds, connections>>

\* The table is full: tell the client, close.
Refuse(c) ==
    /\ connections + 1 >= MaxClient
    /\ Close(c)
    /\ pc' = "select" /\ rd' = {} /\ wd' = {}
    /\ UNCHANGED <<fds, connections>>

AdmitWhen(c, room) ==
    /\ room
    /\ AcceptFrom(c)
    /\ fds' = [fds EXCEPT ![connections] = NewFd]
    /\ connections' = connections + 1
    /\ pc' = "notify"
    /\ UNCHANGED <<rd, wd>>

AdmitOneMore(c) == \* mutant: the test against MAX_CLIENT is off by one
    AdmitWhen(c, connections + 1 <= MaxClient)

Admit(c) == AdmitWhen(c, connections + 1 < MaxClient)

Accept ==
    /\ pc = "accept" /\ ss \in rd
    /\ i' = 0
    /\ \E c \in Pending : AcceptFails(c) \/ Refuse(c) \/ Admit(c)
    /\ UNCHANGED slot

\* The clients in the first slots hear of the new one, if select() reported
\* them writable.
Hearers == {k \in Slots : k >= i /\ k < connections /\ fds[k] \in wd}

Notify ==
    /\ pc = "notify" /\ Hearers # {}
    /\ SendOn(fds[Smallest(Hearers)])
    /\ i' = Smallest(Hearers) + 1
    /\ UNCHANGED <<fds, connections, slot, rd, wd>>

NotifyDone ==
    /\ pc = "notify" /\ Hearers = {}
    /\ pc' = "select" /\ i' = 0 /\ rd' = {} /\ wd' = {}
    /\ UNCHANGED <<fds, connections, slot, kernel>>

-------------------------------------------------------------------------------
Server ==
    \/ Select \/ HandleClient \/ ClientsDone \/ Broadcast \/ BroadcastDone
    \/ NoNewClient \/ Accept \/ Notify \/ NotifyDone

\* The port accepts no connection once the server has been killed.
Client(c) ==
    /\ \/ pc # "killed" /\ Connect(c)
       \/ ClientStep(c)
    /\ UNCHANGED server

Next == Server \/ \E c \in Clients : Client(c)

Spec == Init /\ [][Next]_vars

\* The server runs whenever a system call it is in can return; the receiver
\* thread of a client reads what arrives.
FairSpec ==
    /\ Spec
    /\ WF_vars(Server)
    /\ \A c \in Clients : WF_vars(ClientRead(c) /\ UNCHANGED server)

-------------------------------------------------------------------------------
(* Safety *)

\* Every descriptor in the table is open, and in one slot only, although the
\* kernel hands the number of a closed one to the next client.
SlotsOpen ==
    /\ \A k \in Occupied : fds[k] \in OpenFds
    /\ \A k, n \in Occupied : fds[k] = fds[n] => k = n

\* While the clients are served connections is the number of occupied slots:
\* every close takes off one that was counted, and once.
CountExact ==
    pc \in {"clients", "send", "accept"} => connections = Cardinality(Occupied)

\* One slot always stays unused: the server refuses a client that would make
\* connections reach MAX_CLIENT.
BelowCapacity == connections < MaxClient /\ Cardinality(Occupied) < MaxClient

\* Every client that has been accepted and not closed is in the table (line
\* 59, "add the client connections that exist").
NoneForgotten ==
    \A c \in Clients : sock[c] = "accepted" => \E k \in Slots : fds[k] = fd[c]

-------------------------------------------------------------------------------
(* Liveness, of FairSpec *)

\* A client that connects is accepted or refused, however busy the others
\* keep the server, unless SIGPIPE kills it.
PendingAnswered ==
    \A c \in Clients : sock[c] = "pending" ~> sock[c] # "pending" \/ pc = "killed"
===============================================================================
