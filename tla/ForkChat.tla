------------------------------- MODULE ForkChat -------------------------------
(***************************************************************************)
(* The chat server of practise/chat/server.c: a parent process that        *)
(* accepts clients, a child process per client that it forks, and the      *)
(* System V shared memory segment in which the parent lists the clients'   *)
(* descriptors for the children.                                           *)
(*                                                                         *)
(* A descriptor is a number that means something in one process only.  A   *)
(* child has the descriptors that were open in the parent when it was      *)
(* forked, but reads the list as it is now.  The segment is not cleared    *)
(* when the server starts and outlives it, so that the list begins with    *)
(* what earlier servers left.  The broadcast loop reads an entry twice, to *)
(* test it and to write to it, without a lock.                             *)
(*                                                                         *)
(* write() never blocks here: the clients of this model read what they are *)
(* sent.                                                                   *)
(***************************************************************************)
EXTENDS Integers, FiniteSets

CONSTANTS
    Clients,       \* the client processes, each connects once
    NoClient,      \* the meaning of a descriptor that is not open
    MaxClient,     \* MAX_CLIENT of server.c
    MaxRestarts    \* bound: how often the server is started again

ASSUME ChatAssumption ==
    /\ IsFiniteSet(Clients) /\ NoClient \notin Clients
    /\ MaxClient \in Nat \ {0}
    /\ MaxRestarts \in Nat

Slots == 0 .. MaxClient-1
Fds   == 4 .. 3+MaxClient+Cardinality(Clients)   \* 0 to 3: the terminal and ss

VARIABLES
    shm,               \* the list of descriptors in the shared memory
    owner,             \* history: the client each slot was filled for
    count,             \* the static variable of push_fd
    mainPc, cs,        \* the parent and the client it is accepting
    backlog,           \* the clients connected and not accepted
    parentFd,          \* the parent's descriptor table
    restarts,
    child,             \* the process that serves each client
    childFd,           \* its descriptor table
    idx,               \* its i in the broadcast loop
    due, got,          \* history: who should hear its message, who did
    client,            \* the client, as far as the server can tell
    inbox              \* does the client have a message to be read?

listVars   == <<shm, owner, count>>
parentVars == <<mainPc, cs, backlog, parentFd, restarts>>
childVars  == <<child, childFd, idx, due, got>>
clientVars == <<client, inbox>>
vars       == <<listVars, parentVars, childVars, clientVars>>

Meaning == [Fds -> Clients \union {NoClient}]

TypeOK ==
    /\ shm \in [Slots -> Fds \union {0}]
    /\ owner \in [Slots -> Clients \union {NoClient}]
    /\ count \in Slots
    /\ mainPc \in {"accept", "store", "terminate", "fork", "dead"}
    /\ cs \in Clients \union {NoClient}
    /\ backlog \subseteq Clients
    /\ parentFd \in Meaning
    /\ restarts \in 0 .. MaxRestarts
    /\ child \in [Clients -> {"none", "reading", "sending", "writing", "exited"}]
    /\ childFd \in [Clients -> Meaning]
    /\ idx \in [Clients -> Slots]
    /\ due \in [Clients -> SUBSET Clients] /\ got \in [Clients -> SUBSET Clients]
    /\ client \in [Clients -> {"off", "up", "left", "reset"}]
    /\ inbox \in [Clients -> BOOLEAN]

-------------------------------------------------------------------------------
NothingOpen == [f \in Fds |-> NoClient]

\* accept() returns the lowest descriptor that is not open in the parent.
NewFd == CHOOSE f \in Fds :
            /\ parentFd[f] = NoClient
            /\ \A g \in Fds : parentFd[g] = NoClient => f <= g

FdOf(c) == CHOOSE f \in Fds : parentFd[f] = c

Alive(c) == child[c] \in {"reading", "sending", "writing"}

\* The clients in the list that have not left.
Listed == {c \in Clients : client[c] = "up" /\ \E k \in 0 .. count-1 : owner[k] = c}

\* The slots that can be filled: push_fd stops one slot before the last.
Fillable == 0 .. MaxClient-2

\* What earlier servers leave: slot 0, once filled, is filled for ever, and any
\* other slot holds its number or the terminator of a shorter list.
LeftOver == {S \in SUBSET Fillable : S # {} => 0 \in S}

Init ==
    /\ \E S \in LeftOver : shm = [k \in Slots |-> IF k \in S THEN 4+k ELSE 0]
    /\ owner = [k \in Slots |-> NoClient] /\ count = 0
    /\ mainPc = "accept" /\ cs = NoClient /\ backlog = {}
    /\ parentFd = NothingOpen /\ restarts = 0
    /\ child = [c \in Clients |-> "none"]
    /\ childFd = [c \in Clients |-> NothingOpen]
    /\ idx = [c \in Clients |-> 0]
    /\ due = [c \in Clients |-> {}] /\ got = [c \in Clients |-> {}]
    /\ client = [c \in Clients |-> "off"]
    /\ inbox = [c \in Clients |-> FALSE]

-------------------------------------------------------------------------------
(* The parent.  push_fd writes the list in two stores, without a lock.     *)

AcceptUpTo(full) ==
    /\ mainPc = "accept"
    /\ \E c \in backlog :
         /\ cs' = c /\ backlog' = backlog \ {c}
         /\ parentFd' = [parentFd EXCEPT ![NewFd] = c]
    /\ mainPc' = IF count = full THEN "fork" ELSE "store"
    /\ UNCHANGED <<listVars, restarts, childVars, clientVars>>

AcceptOneMore == \* mutant: push_fd compares count with length, not length - 1
    AcceptUpTo(MaxClient)

Accept == AcceptUpTo(MaxClient-1)

AcceptFails ==
    /\ mainPc = "accept"
    /\ \E c \in backlog :
         /\ backlog' = backlog \ {c}
         /\ client' = [client EXCEPT ![c] = "reset"]
         /\ inbox' = [inbox EXCEPT ![c] = FALSE]
    /\ UNCHANGED <<listVars, mainPc, cs, parentFd, restarts, childVars>>

Store ==
    /\ mainPc = "store"
    /\ shm' = [shm EXCEPT ![count] = FdOf(cs)]
    /\ owner' = [owner EXCEPT ![count] = cs]
    /\ count' = count + 1
    /\ mainPc' = "terminate"
    /\ UNCHANGED <<cs, backlog, parentFd, restarts, childVars, clientVars>>

TerminateAt(k) ==
    /\ mainPc = "terminate"
    /\ shm' = [shm EXCEPT ![k] = 0]
    /\ mainPc' = "fork"
    /\ UNCHANGED <<owner, count, cs, backlog, parentFd, restarts, childVars, clientVars>>

TerminateEarly == \* mutant: the 0 is written where count was before count++
    TerminateAt(count-1)

Terminate == TerminateAt(count)

ForkWith(table) ==
    /\ mainPc = "fork"
    /\ child' = [child EXCEPT ![cs] = "reading"]
    /\ childFd' = [childFd EXCEPT ![cs] = parentFd]
    /\ parentFd' = table
    /\ mainPc' = "accept" /\ cs' = NoClient
    /\ UNCHANGED <<listVars, backlog, restarts, idx, due, got, clientVars>>

ForkAndClose == \* mutant: the parent closes the client's descriptor (line 69)
    ForkWith([parentFd EXCEPT ![FdOf(cs)] = NoClient])

\* The parent keeps the client's descriptor open: close(cs) is commented out.
Fork == ForkWith(parentFd)

\* fork() returned -1: the parent takes it for its own branch and goes on.
ForkFails ==
    /\ mainPc = "fork"
    /\ mainPc' = "accept" /\ cs' = NoClient
    /\ UNCHANGED <<listVars, backlog, parentFd, restarts, childVars, clientVars>>

\* The parent is killed; the children live on.
ParentDies ==
    /\ mainPc # "dead"
    /\ mainPc' = "dead" /\ cs' = NoClient /\ backlog' = {}
    /\ parentFd' = NothingOpen
    /\ client' = [c \in Clients |-> IF c \in backlog THEN "reset" ELSE client[c]]
    /\ UNCHANGED <<listVars, restarts, childVars, inbox>>

\* bind() succeeds again once no child holds a connection of the port.
Restart ==
    /\ mainPc = "dead" /\ restarts < MaxRestarts
    /\ \A c \in Clients : ~Alive(c)
    /\ mainPc' = "accept" /\ count' = 0
    /\ restarts' = restarts + 1
    /\ UNCHANGED <<shm, owner, cs, backlog, parentFd, childVars, clientVars>>

-------------------------------------------------------------------------------
(* A child: server_handle *)

Read(c) ==
    /\ child[c] = "reading" /\ inbox[c]
    /\ inbox' = [inbox EXCEPT ![c] = FALSE]
    /\ child' = [child EXCEPT ![c] = "sending"]
    /\ idx' = [idx EXCEPT ![c] = 0]
    /\ due' = [due EXCEPT ![c] = Listed]
    /\ UNCHANGED <<listVars, parentVars, childFd, got, client>>

\* The end of the input: the child says goodbye, closes and exits.
ReadEnd(c) ==
    /\ child[c] = "reading" /\ ~inbox[c] /\ client[c] # "up"
    /\ child' = [child EXCEPT ![c] = "exited"]
    /\ childFd' = [childFd EXCEPT ![c] = NothingOpen]
    /\ UNCHANGED <<listVars, parentVars, idx, due, got, clientVars>>

\* The loop's test, line 95: the first of the two reads of the entry.
TestIf(c, goOn) ==
    /\ child[c] = "sending" /\ goOn
    /\ child' = [child EXCEPT ![c] = "writing"]
    /\ UNCHANGED <<listVars, parentVars, childFd, idx, due, got, clientVars>>

TestByLength(c) == \* mutant: the loop ends at the array's length, not at the 0
    TestIf(c, idx[c] \in Slots)

Test(c) == TestIf(c, shm[idx[c]] # 0)

\* Whom the child writes to, line 96: the client its own table has for the
\* number that is in the entry now.  If the parent has put its terminator there
\* since the test, that is 0, the terminal.
Target(c) == IF shm[idx[c]] = 0 THEN NoClient ELSE childFd[c][shm[idx[c]]]
TargetState(c) == IF Target(c) = NoClient THEN "none" ELSE client[Target(c)]

WriteTo(c) ==
    /\ child[c] = "writing"
    /\ child' = [child EXCEPT ![c] = "sending"]
    /\ idx' = [idx EXCEPT ![c] = @ + 1]
    /\ UNCHANGED <<listVars, parentVars, childFd, due, inbox>>

\* The descriptor is open here and the client is there.
Deliver(c) ==
    /\ WriteTo(c)
    /\ TargetState(c) = "up"
    /\ got' = [got EXCEPT ![c] = @ \union {Target(c)}]
    /\ UNCHANGED client

\* The client has left: the write succeeds, and is answered by a reset.
WriteToLeft(c) ==
    /\ WriteTo(c)
    /\ TargetState(c) = "left"
    /\ client' = [client EXCEPT ![Target(c)] = "reset"]
    /\ UNCHANGED got

\* The descriptor is the terminal, or not open in this process, or the
\* connection was reset: nobody hears it, and the loop goes on.
WriteUnheard(c) ==
    /\ WriteTo(c)
    /\ TargetState(c) \in {"none", "reset"}
    /\ UNCHANGED <<got, client>>

\* A write to a connection that was reset raises SIGPIPE.
KilledByPipe(c) ==
    /\ child[c] = "writing"
    /\ TargetState(c) = "reset"
    /\ child' = [child EXCEPT ![c] = "exited"]
    /\ childFd' = [childFd EXCEPT ![c] = NothingOpen]
    /\ idx' = [idx EXCEPT ![c] = 0]
    /\ due' = [due EXCEPT ![c] = {}] /\ got' = [got EXCEPT ![c] = {}]
    /\ UNCHANGED <<listVars, parentVars, clientVars>>

SendingDone(c) ==
    /\ child[c] = "sending" /\ shm[idx[c]] = 0
    /\ child' = [child EXCEPT ![c] = "reading"]
    /\ idx' = [idx EXCEPT ![c] = 0]
    /\ due' = [due EXCEPT ![c] = {}] /\ got' = [got EXCEPT ![c] = {}]
    /\ UNCHANGED <<listVars, parentVars, childFd, clientVars>>

-------------------------------------------------------------------------------
(* The clients *)

Connect(c) ==
    /\ client[c] = "off" /\ mainPc # "dead"
    /\ client' = [client EXCEPT ![c] = "up"]
    /\ backlog' = backlog \union {c}
    /\ UNCHANGED <<listVars, mainPc, cs, parentFd, restarts, childVars, inbox>>

Say(c) ==
    /\ client[c] = "up" /\ ~inbox[c]
    /\ inbox' = [inbox EXCEPT ![c] = TRUE]
    /\ UNCHANGED <<listVars, parentVars, childVars, client>>

Leave(c) ==
    /\ client[c] = "up"
    /\ client' = [client EXCEPT ![c] = "left"]
    /\ UNCHANGED <<listVars, parentVars, childVars, inbox>>

-------------------------------------------------------------------------------
Parent ==
    \/ Accept \/ AcceptFails \/ Store \/ Terminate \/ Fork \/ ForkFails
    \/ ParentDies \/ Restart

Broadcast(c) ==
    \/ Test(c) \/ Deliver(c) \/ WriteToLeft(c) \/ WriteUnheard(c)
    \/ KilledByPipe(c) \/ SendingDone(c)
Child(c)  == Read(c) \/ ReadEnd(c) \/ Broadcast(c)
Client(c) == Connect(c) \/ Say(c) \/ Leave(c)

Next == Parent \/ \E c \in Clients : Child(c) \/ Client(c)

Spec == Init /\ [][Next]_vars

-------------------------------------------------------------------------------
(* Safety *)

\* The list ends inside the array, whatever earlier servers left in it and
\* wherever the parent is between its two stores: no child walks out of it, not
\* even one that has tested an entry just before the terminator went there, and
\* walks on behind it (lines 95, 96 and 114).
ListEnds ==
    /\ shm[MaxClient-1] = 0
    /\ \A c \in Clients : child[c] = "writing" => idx[c] < MaxClient-1

\* A number in the list means the same client in the child that reads it as
\* it meant in the parent that wrote it, or nothing: no message goes to a
\* client it was not meant for.  It holds because the parent never closes a
\* client's descriptor, so that no number is used twice.
SameMeaning ==
    \A c \in Clients, k \in Slots :
        Alive(c) /\ shm[k] # 0 => childFd[c][shm[k]] \in {NoClient, owner[k]}

\* A child's message reaches every client that was listed when it was read,
\* stays, and whose descriptor the child has inherited.
Inherited(c) == {childFd[c][f] : f \in Fds} \ {NoClient}
InheritedHear ==
    [][\A c \in Clients :
          child[c] = "sending" /\ child'[c] = "reading" =>
              \A t \in due[c] \intersect Inherited(c) :
                  client[t] = "up" => t \in got[c]]_vars

\* A child's message reaches every client that was listed when it was read
\* and stays (lines 94 and 95: get the descriptors of all clients, broadcast).
AllHear ==
    [][\A c \in Clients :
          child[c] = "sending" /\ child'[c] = "reading" =>
              \A t \in due[c] : client[t] = "up" => t \in got[c]]_vars
===============================================================================
