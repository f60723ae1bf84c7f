--------------------------------- MODULE Ping ---------------------------------
(***************************************************************************)
(* The ping program of socket/socket_raw/ping.c: the main thread, the      *)
(* sending thread, the receiving thread, the handler of SIGINT, and the    *)
(* network.  The threads share the table of packets, the address dest and  *)
(* the flag alive without a lock.                                          *)
(*                                                                         *)
(* A raw ICMP socket receives every ICMP packet that reaches the machine.  *)
(* Times, checksums and the text of packets are left out.                  *)
(***************************************************************************)
EXTENDS Integers, FiniteSets

CONSTANTS
    TableSize,    \* the length of pingpacket
    ShortRange,   \* how many values a short has: both counters count modulo it
    Hosts,        \* the hosts that send ICMP packets to this one
    Target,       \* the host named on the command line
    MaxSent,      \* bound: how many packets are sent
    NetCap        \* bound: how many packets wait to be received

ASSUME PingAssumption ==
    /\ TableSize \in Nat \ {0}
    /\ ShortRange \in Nat \ {0}
    /\ Target \in Hosts
    /\ MaxSent \in Nat
    /\ NetCap \in Nat \ {0}

Slots == 0 .. TableSize-1
Counter == 0 .. ShortRange-1
NoSlot == TableSize        \* icmp_findpacket returns NULL

VARIABLES
    pingpacket,                 \* the seq and the flag of each slot
    packet_send, packet_recv,
    dest,                       \* where sendto sends to
    alive,
    mainPc, sendPc, recvPc,
    sendSlot, recvSlot,         \* what each thread's icmp_findpacket found
    reply,                      \* the echo reply being handled
    wire,                       \* history: the packets sent, numbered from 0
    arrived,                    \* the packets waiting in the raw socket
    answered                    \* history: the seqs of the replies that were counted

counters == <<packet_send, packet_recv>>
shared   == <<pingpacket, counters, dest>>
control  == <<alive, mainPc>>
sender   == <<sendPc, sendSlot>>
receiver == <<recvPc, recvSlot, reply>>
network  == <<wire, arrived, answered>>
vars == <<shared, control, sender, receiver, network>>

\* An echo reply to this process, an echo reply to another process with the
\* same id (the id is getuid(), so any ping of the same user), or another
\* ICMP packet.
Packet == [src : Hosts, seq : Counter, kind : {"own", "sameId", "other"}]
NoReply == [seq |-> 0, kind |-> "other"]

TypeOK ==
    /\ pingpacket \in [Slots -> [seq : Counter, flag : {0, 1}]]
    /\ packet_send \in Counter /\ packet_recv \in Counter
    /\ dest \in Hosts
    /\ alive \in BOOLEAN
    /\ mainPc \in {"start", "create", "joinSend", "joinRecv", "stats", "done", "crashed"}
    /\ sendPc \in {"none", "test", "find", "fill", "send", "sleep", "ended"}
    /\ recvPc \in {"none", "test", "select", "find", "clear", "count", "ended"}
    /\ sendSlot \in Slots \union {NoSlot} /\ recvSlot \in Slots \union {NoSlot}
    /\ reply \in [seq : Counter, kind : {"own", "sameId", "other"}]
    /\ wire \subseteq [nr : 0 .. MaxSent-1, to : Hosts, seq : Counter]
    /\ arrived \subseteq Packet
    /\ answered \subseteq Counter

-------------------------------------------------------------------------------
Init ==
    /\ pingpacket = [s \in Slots |-> [seq |-> 0, flag |-> 0]]
    /\ packet_send = 0 /\ packet_recv = 0
    /\ dest = Target /\ alive = FALSE
    /\ mainPc = "start" /\ sendPc = "none" /\ recvPc = "none"
    /\ sendSlot = NoSlot /\ recvSlot = NoSlot /\ reply = NoReply
    /\ wire = {} /\ arrived = {} /\ answered = {}

-------------------------------------------------------------------------------
(* icmp_findpacket.  Its first test assigns -1 to seq, so that it looks for *)
(* a slot with flag 0 whatever it was asked for.                            *)

Empty == {s \in Slots : pingpacket[s].flag = 0}
FoundPacket ==
    IF Empty = {} THEN NoSlot ELSE CHOOSE s \in Empty : \A t \in Empty : s <= t

-------------------------------------------------------------------------------
(* The main thread *)

Running == mainPc \notin {"done", "crashed"}

\* SIGINT is handled already; a signal that came before this is overwritten.
Start ==
    /\ mainPc = "start"
    /\ alive' = TRUE
    /\ sendPc' = "test" /\ mainPc' = "create"
    /\ UNCHANGED <<shared, sendSlot, receiver, network>>

StartReceiver ==
    /\ mainPc = "create"
    /\ recvPc' = "test" /\ mainPc' = "joinSend"
    /\ UNCHANGED <<shared, alive, sender, recvSlot, reply, network>>

MainGoes(from, to) ==
    /\ mainPc = from /\ mainPc' = to
    /\ UNCHANGED <<shared, alive, sender, receiver, network>>

JoinSender   == sendPc = "ended" /\ MainGoes("joinSend", "joinRecv")
NoJoin       == MainGoes("joinRecv", "stats") \* mutant: the receiving thread is not joined
JoinReceiver == recvPc = "ended" /\ MainGoes("joinRecv", "stats")

\* The loss is divided by packet_send: an integer division by zero kills the
\* process.
Statistics == MainGoes("stats", IF packet_send = 0 THEN "crashed" ELSE "done")

\* icmp_sigint
Interrupt ==
    /\ Running
    /\ alive' = FALSE
    /\ UNCHANGED <<shared, mainPc, sender, receiver, network>>

-------------------------------------------------------------------------------
(* The sending thread *)

Total == Cardinality(wire)      \* the packets sent so far

SenderTest ==
    /\ sendPc = "test"
    /\ \/ alive /\ Total < MaxSent /\ sendPc' = "find"
       \/ ~alive /\ sendPc' = "ended"
    /\ UNCHANGED <<shared, control, sendSlot, receiver, network>>

SenderFind ==
    /\ sendPc = "find"
    /\ sendSlot' = FoundPacket
    /\ sendPc' = IF FoundPacket = NoSlot THEN "send" ELSE "fill"
    /\ UNCHANGED <<shared, control, receiver, network>>

SenderFill ==
    /\ sendPc = "fill"
    /\ pingpacket' = [pingpacket EXCEPT ![sendSlot] = [seq |-> packet_send, flag |-> 1]]
    /\ sendPc' = "send"
    /\ UNCHANGED <<counters, dest, control, sendSlot, receiver, network>>

\* sendto returns: the next number, and what the thread does then.
Sent(next, to) ==
    /\ sendPc = "send"
    /\ packet_send' = next /\ sendSlot' = NoSlot /\ sendPc' = to
    /\ UNCHANGED <<pingpacket, packet_recv, dest, control, receiver, arrived, answered>>

NextSeq == (packet_send + 1) % ShortRange

FailCounted == \* mutant: packet_send++ comes before the test of sendto's result
    Sent(NextSeq, "test") /\ UNCHANGED wire

\* sendto fails: the same number is tried again, in another slot.
SendFails == Sent(packet_send, "test") /\ UNCHANGED wire

Send ==
    /\ Sent(NextSeq, "sleep")
    /\ wire' = wire \union {[nr |-> Total, to |-> dest, seq |-> packet_send]}

SenderWake ==
    /\ sendPc = "sleep"
    /\ sendPc' = "test"
    /\ UNCHANGED <<shared, control, sendSlot, receiver, network>>

-------------------------------------------------------------------------------
(* The receiving thread *)

ReceiverGoes(from, to) ==
    /\ recvPc = from /\ recvPc' = to
    /\ UNCHANGED <<shared, control, sender, recvSlot, reply, network>>

ReceiverTestNever == ReceiverGoes("test", "select") \* mutant: the loop does not test alive
ReceiverTest      == ReceiverGoes("test", IF alive THEN "select" ELSE "ended")

\* select() times out or fails, or recvfrom() fails.
NothingReceived == ReceiverGoes("select", "test")

\* recvfrom() writes the source of the packet to dest, for the sender too.
\* Any packet but an echo reply with this id is dropped.
Receive ==
    /\ recvPc = "select"
    /\ \E p \in arrived :
         /\ arrived' = arrived \ {p}
         /\ dest' = p.src
         /\ IF p.kind = "other"
              THEN reply' = reply /\ recvPc' = "test"
              ELSE reply' = [seq |-> p.seq, kind |-> p.kind] /\ recvPc' = "find"
    /\ UNCHANGED <<pingpacket, counters, control, sender, recvSlot, wire, answered>>

ReceiverFind ==
    /\ recvPc = "find"
    /\ recvSlot' = FoundPacket
    /\ recvPc' = IF FoundPacket = NoSlot THEN "test" ELSE "clear"
    /\ reply' = IF FoundPacket = NoSlot THEN NoReply ELSE reply
    /\ UNCHANGED <<shared, control, sender, network>>

ReceiverClear ==
    /\ recvPc = "clear"
    /\ pingpacket' = [pingpacket EXCEPT ![recvSlot].flag = 0]
    /\ recvPc' = "count"
    /\ UNCHANGED <<counters, dest, control, sender, recvSlot, reply, network>>

Counted(n) ==
    /\ recvPc = "count"
    /\ packet_recv' = n
    /\ answered' = answered \union (IF reply.kind = "own" THEN {reply.seq} ELSE {})
    /\ recvSlot' = NoSlot /\ reply' = NoReply
    /\ recvPc' = "test"
    /\ UNCHANGED <<pingpacket, packet_send, dest, control, sender, wire, arrived>>

CountUnbounded == Counted(packet_recv + 1) \* mutant: packet_recv does not wrap
Count          == Counted((packet_recv + 1) % ShortRange)

-------------------------------------------------------------------------------
(* The network *)

Arrive(p) ==
    /\ Running
    /\ p \notin arrived /\ Cardinality(arrived) < NetCap
    /\ arrived' = arrived \union {p}
    /\ UNCHANGED <<shared, control, sender, receiver, wire, answered>>

\* A host answers a packet, late, twice or never.
Answer == \E q \in wire : Arrive([src |-> q.to, seq |-> q.seq, kind |-> "own"])

\* A packet that is not for this process comes in.
OtherPacket ==
    \E h \in Hosts, k \in {"sameId", "other"} : Arrive([src |-> h, seq |-> 0, kind |-> k])

-------------------------------------------------------------------------------
Main     == Start \/ StartReceiver \/ JoinSender \/ JoinReceiver \/ Statistics
Sender   == SenderTest \/ SenderFind \/ SenderFill \/ SendFails \/ Send \/ SenderWake
Receiver ==
    \/ ReceiverTest \/ NothingReceived \/ Receive \/ ReceiverFind
    \/ ReceiverClear \/ Count

Next == Main \/ Interrupt \/ Sender \/ Receiver \/ Answer \/ OtherPacket

Spec == Init /\ [][Next]_vars

\* The three threads are scheduled.
FairSpec == Spec /\ WF_vars(Main) /\ WF_vars(Sender) /\ WF_vars(Receiver)

-------------------------------------------------------------------------------
(* Safety *)

\* The n-th packet carries the number n, as a short: none is skipped and none is
\* used for two packets until the short has wrapped, although sends fail, are
\* repeated, and take a slot of the table each time.
SeqsConsecutive ==
    /\ {q.nr : q \in wire} = 0 .. Total-1
    /\ \A q \in wire : q.seq = q.nr % ShortRange
    /\ packet_send = Total % ShortRange

\* The numbers that icmp_statistics prints are final: both threads have ended.
StatisticsFinal == [][(mainPc \in {"stats", "done", "crashed"}) => UNCHANGED counters]_vars

\* A flag of 1 says that the slot's packet has not been answered (line 36), as
\* long as every number names one packet.
AnsweredCleared ==
    Total < ShortRange => \A s \in Slots :
        pingpacket[s].flag = 1 /\ pingpacket[s].seq < packet_send =>
            pingpacket[s].seq \notin answered

-------------------------------------------------------------------------------
(* Liveness, of FairSpec *)

\* Once the threads have been started, SIGINT ends the program, which prints
\* its statistics unless the number of packets sent is 0 as a short.
Stops == mainPc # "start" /\ ~alive ~>
    mainPc = "done" \/ (mainPc = "crashed" /\ Total % ShortRange = 0)
===============================================================================
