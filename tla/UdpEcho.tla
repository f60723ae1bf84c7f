------------------------------- MODULE UdpEcho -------------------------------
(***************************************************************************)
(* The UDP echo server and client of socket/exmaple/UDP.  The server has   *)
(* no state but the last datagram and its address; a client sends one      *)
(* datagram and takes the first that comes in for its answer.  Datagrams   *)
(* get lost, on the way or before the server was started, and come in any  *)
(* order; no timeout makes a client try again.                             *)
(***************************************************************************)
EXTENDS Integers

CONSTANTS Clients, Nobody

VARIABLES
    server,               \* "recv" or "send"
    buf, from,            \* the datagram it has, as the client that made it
    requests, answers,    \* the datagrams under way, <<whose, for whom>>
    client, answer,       \* each client, and what it took for its answer
    lost                  \* history: the clients whose datagrams were lost

socket == <<server, buf, from>>
vars   == <<socket, requests, answers, client, answer, lost>>

TypeOK ==
    /\ server \in {"recv", "send"}
    /\ buf \in Clients \union {Nobody} /\ from \in Clients \union {Nobody}
    /\ requests \subseteq Clients \X Clients /\ answers \subseteq Clients \X Clients
    /\ client \in [Clients -> {"start", "waits", "ended"}]
    /\ answer \in [Clients -> Clients \union {Nobody}]
    /\ lost \subseteq Clients

Init ==
    /\ server = "recv" /\ buf = Nobody /\ from = Nobody
    /\ requests = {} /\ answers = {}
    /\ client = [c \in Clients |-> "start"] /\ answer = [c \in Clients |-> Nobody]
    /\ lost = {}

\* udpserver_echo
Recv ==
    /\ server = "recv" /\ server' = "send"
    /\ \E d \in requests :
         buf' = d[1] /\ from' = d[2] /\ requests' = requests \ {d}
    /\ UNCHANGED <<answers, client, answer, lost>>

Send ==
    /\ server = "send" /\ server' = "recv"
    /\ answers' = answers \union {<<buf, from>>}
    /\ UNCHANGED <<buf, from, requests, client, answer, lost>>

\* udpclie_echo
Ask(c) ==
    /\ client[c] = "start"
    /\ client' = [client EXCEPT ![c] = "waits"]
    /\ requests' = requests \union {<<c, c>>}
    /\ UNCHANGED <<socket, answers, answer, lost>>

Take(c) ==
    /\ client[c] = "waits"
    /\ \E d \in answers :
         /\ d[2] = c /\ answers' = answers \ {d}
         /\ answer' = [answer EXCEPT ![c] = d[1]]
    /\ client' = [client EXCEPT ![c] = "ended"]
    /\ UNCHANGED <<socket, requests, lost>>

Lose ==
    /\ \E d \in requests \union answers :
         /\ requests' = requests \ {d} /\ answers' = answers \ {d}
         /\ lost' = lost \union {d[2]}
    /\ UNCHANGED <<socket, client, answer>>

Server == Recv \/ Send
Client(c) == Ask(c) \/ Take(c)

Next == Server \/ Lose \/ \E c \in Clients : Client(c)

Spec == Init /\ [][Next]_vars

\* The server runs; so does a client once it has been started.
FairSpec == Spec /\ WF_vars(Server) /\ \A c \in Clients : WF_vars(Take(c))

\* What a client prints is its own datagram.
OwnEcho == \A c \in Clients : client[c] = "ended" => answer[c] = c

\* Liveness, of FairSpec: a client that waits is answered unless a datagram
\* of its own was lost; then it waits for ever.
Answered == \A c \in Clients :
    client[c] = "waits" ~> client[c] = "ended" \/ c \in lost
===============================================================================
