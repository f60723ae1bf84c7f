------------------------------- MODULE ForkEcho -------------------------------
(***************************************************************************)
(* The forking server of socket/exmaple/TCP/server.c and its client,       *)
(* socket/exmaple/TCP/client.c.  Every process runs the same program: the  *)
(* child that has served its client returns from server_handle into the    *)
(* accept loop of the parent, and stays there for ever, because it has     *)
(* closed the listening socket.                                            *)
(***************************************************************************)
EXTENDS Integers, FiniteSets

CONSTANTS
    Clients,     \* the client processes, each connects once
    Parent,      \* the process that the user has started
    Children     \* the processes that fork() can make

Procs == Children \union {Parent}

VARIABLES
    pc,          \* where each process is
    hasSs,       \* the processes in which ss is open
    holds,       \* the clients whose connections are open in each process
    cs,          \* the client that each process means by cs, as a set
    client,      \* "up", "waiting" for an answer, "left", ...
    backlog,     \* the clients that are connected and not accepted
    request,     \* the clients whose message is to be read
    reply        \* the clients that have an answer to read

server  == <<pc, hasSs, holds, cs>>
clients == <<client, backlog, request, reply>>
vars    == <<server, clients>>

TypeOK ==
    /\ pc \in [Procs -> {"none", "accept", "fork", "close", "child", "read",
                         "reply", "dead"}]
    /\ hasSs \subseteq Procs
    /\ holds \in [Procs -> SUBSET Clients]
    /\ cs \in [Procs -> SUBSET Clients] /\ \A p \in Procs : Cardinality(cs[p]) <= 1
    /\ client \in [Clients -> {"off", "up", "waiting", "left", "reset"}]
    /\ backlog \subseteq Clients /\ request \subseteq Clients /\ reply \subseteq Clients

Init ==
    /\ pc = [p \in Procs |-> IF p = Parent THEN "accept" ELSE "none"]
    /\ hasSs = {Parent}
    /\ holds = [p \in Procs |-> {}] /\ cs = [p \in Procs |-> {}]
    /\ client = [c \in Clients |-> "off"]
    /\ backlog = {} /\ request = {} /\ reply = {}

Go(p, where) == pc' = [pc EXCEPT ![p] = where]

-------------------------------------------------------------------------------
(* The accept loop.  When accept() fails it is called again. *)

Accept(p) ==
    /\ pc[p] = "accept" /\ p \in hasSs
    /\ \E c \in backlog :
         /\ backlog' = backlog \ {c}
         /\ cs' = [cs EXCEPT ![p] = {c}]
         /\ holds' = [holds EXCEPT ![p] = @ \union {c}]
    /\ Go(p, "fork")
    /\ UNCHANGED <<hasSs, client, request, reply>>

Fork(p) ==
    /\ pc[p] = "fork"
    /\ \E q \in Children :
         /\ pc[q] = "none"
         /\ pc' = [pc EXCEPT ![p] = "close", ![q] = "child"]
         /\ hasSs' = IF p \in hasSs THEN hasSs \union {q} ELSE hasSs
         /\ holds' = [holds EXCEPT ![q] = holds[p]]
         /\ cs' = [cs EXCEPT ![q] = cs[p]]
    /\ UNCHANGED <<clients>>

\* fork() returned -1, which is not 0: the process takes itself for the parent.
ForkFails(p) ==
    /\ pc[p] = "fork"
    /\ Go(p, "close")
    /\ UNCHANGED <<hasSs, holds, cs, clients>>

CloseOnly(p, which) ==
    /\ pc[p] = "close"
    /\ holds' = [holds EXCEPT ![p] = @ \ which]
    /\ Go(p, "accept")
    /\ UNCHANGED <<hasSs, cs, clients>>

KeepClient(p)  == CloseOnly(p, {}) \* mutant: the parent does not close cs (line 53)
CloseClient(p) == CloseOnly(p, cs[p])

-------------------------------------------------------------------------------
(* The child: server_handle *)

ListenIn(p, procs) ==
    /\ pc[p] = "child"
    /\ hasSs' = procs
    /\ Go(p, "read")
    /\ UNCHANGED <<holds, cs, clients>>

KeepListening(p)  == ListenIn(p, hasSs) \* mutant: the child does not close ss (line 50)
CloseListening(p) == ListenIn(p, hasSs \ {p})

Read(p) ==
    /\ pc[p] = "read" /\ cs[p] \subseteq request
    /\ request' = request \ cs[p]
    /\ Go(p, "reply")
    /\ UNCHANGED <<hasSs, holds, cs, client, backlog, reply>>

Gone(c) == client[c] \in {"left", "reset"}

\* The end of the input: server_handle returns to the loop of main, without
\* closing the client.
ReadEnd(p) ==
    /\ pc[p] = "read"
    /\ \A c \in cs[p] : c \notin request /\ client[c] = "left"
    /\ Go(p, "accept")
    /\ UNCHANGED <<hasSs, holds, cs, clients>>

\* read() returns -1, which is not 0: the child goes on to write.
ReadFails(p) ==
    /\ pc[p] = "read"
    /\ \A c \in cs[p] : c \notin request /\ client[c] = "reset"
    /\ Go(p, "reply")
    /\ UNCHANGED <<hasSs, holds, cs, clients>>

ReplyThen(p, where) ==
    /\ pc[p] = "reply" /\ \A c \in cs[p] : ~Gone(c)
    /\ reply' = reply \union cs[p]
    /\ Go(p, where)
    /\ UNCHANGED <<hasSs, holds, cs, client, backlog, request>>

ReplyOnce(p) == ReplyThen(p, "accept") \* mutant: server_handle returns after one answer
Reply(p)     == ReplyThen(p, "read")

\* The client has left: the first write is answered by a reset.
ReplyLost(p) ==
    /\ pc[p] = "reply" /\ \A c \in cs[p] : client[c] = "left"
    /\ client' = [c \in Clients |-> IF c \in cs[p] THEN "reset" ELSE client[c]]
    /\ Go(p, "read")
    /\ UNCHANGED <<hasSs, holds, cs, backlog, request, reply>>

\* A write after the reset: SIGPIPE.
ReplyKills(p) ==
    /\ pc[p] = "reply" /\ \A c \in cs[p] : client[c] = "reset"
    /\ Go(p, "dead")
    /\ holds' = [holds EXCEPT ![p] = {}] /\ cs' = [cs EXCEPT ![p] = {}]
    /\ UNCHANGED <<hasSs, clients>>

-------------------------------------------------------------------------------
(* The clients *)

Connect(c) ==
    /\ client[c] = "off"
    /\ client' = [client EXCEPT ![c] = "up"]
    /\ backlog' = backlog \union {c}
    /\ UNCHANGED <<server, request, reply>>

Served(c) == c \in backlog \/ \E p \in Procs : c \in holds[p]

Send(c) ==
    /\ client[c] = "up"
    /\ client' = [client EXCEPT ![c] = "waiting"]
    /\ request' = request \union {c}
    /\ UNCHANGED <<server, backlog, reply>>

Receive(c) ==
    /\ client[c] = "waiting" /\ c \in reply
    /\ client' = [client EXCEPT ![c] = "up"]
    /\ reply' = reply \ {c}
    /\ UNCHANGED <<server, backlog, request>>

\* The server has closed the connection (ForkFails): SIGPIPE, or the user
\* gives up.  A socket closed with an answer unread resets the connection.
Leave(c) ==
    /\ client[c] \in {"up", "waiting"}
    /\ client' = [client EXCEPT ![c] = IF c \in reply THEN "reset" ELSE "left"]
    /\ reply' = reply \ {c}
    /\ UNCHANGED <<server, backlog, request>>

-------------------------------------------------------------------------------
Loop(p)   == Accept(p) \/ Fork(p) \/ ForkFails(p) \/ CloseClient(p)
Handle(p) ==
    \/ CloseListening(p) \/ Read(p) \/ ReadEnd(p) \/ ReadFails(p)
    \/ Reply(p) \/ ReplyLost(p) \/ ReplyKills(p)
Client(c) == Connect(c) \/ Send(c) \/ Receive(c) \/ Leave(c)

Next ==
    \/ \E p \in Procs : Loop(p) \/ Handle(p)
    \/ \E c \in Clients : Client(c)

Spec == Init /\ [][Next]_vars

\* Every process runs.
Fairness == \A p \in Procs : WF_vars(Loop(p) \/ Handle(p))
FairSpec == Spec /\ Fairness

-------------------------------------------------------------------------------
(* Safety *)

\* A process that has served its client goes round the accept loop, but only
\* the first process ever accepts anyone.
OnlyParentAccepts == \A p \in Procs : pc[p] = "fork" => p = Parent

\* A child has its own client's connection and no other, so that a client's
\* connection ends when its own child does.
HoldsOwn == \A p \in Children :
    pc[p] \in {"child", "read", "reply"} => holds[p] = cs[p]

-------------------------------------------------------------------------------
(* Liveness, of FairSpec *)

\* A message is answered, unless fork() failed for its client or it leaves.
Answered == \A c \in Clients :
    c \in request ~> c \in reply \/ Gone(c) \/ ~Served(c)
===============================================================================
