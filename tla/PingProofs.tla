------------------------------ MODULE PingProofs ------------------------------
(***************************************************************************)
(* Theorems about Ping, for every set of hosts, every table of packets and *)
(* every range of the counters.                                            *)
(***************************************************************************)
EXTENDS Ping, FiniteSetTheorems, TLAPS

-------------------------------------------------------------------------------
(* The inductive invariant *)

\* The main thread is past a join only when the thread it joins has ended, and
\* a thread runs only after it has been created.
ThreadsInv ==
    /\ mainPc = "start" => sendPc = "none"
    /\ mainPc \in {"start", "create"} => recvPc = "none"
    /\ mainPc \in {"joinRecv", "stats", "done", "crashed"} => sendPc = "ended"
    /\ mainPc \in {"stats", "done", "crashed"} => recvPc = "ended"

\* A thread writes to a slot only if it has found one.
SlotsInv ==
    /\ sendPc = "fill" => sendSlot \in Slots
    /\ recvPc = "clear" => recvSlot \in Slots

\* packet_send has wrapped k times.
Wrapped == \E k \in Nat : Total = ShortRange*k + packet_send

\* The number of the next packet is the number of those sent, as a short.
SendInv ==
    /\ IsFiniteSet(wire) /\ SeqsConsecutive
    /\ Wrapped
    /\ Total <= MaxSent
    /\ sendPc \in {"find", "fill", "send"} => Total < MaxSent

PingInv == TypeOK /\ ThreadsInv /\ SlotsInv /\ SendInv

-------------------------------------------------------------------------------
(* The table *)

\* A set of natural numbers that is not empty has a smallest element.
LEMMA LeastOf ==
  ASSUME NEW S \in SUBSET Nat, S # {}
  PROVE  \E m \in S : \A n \in S : m <= n
<1>1. PICK m \in S : \A n \in S : <<n, m>> \notin OpToRel(<, Nat)
  BY WFMin, NatLessThanWellFounded, Zenon
<1>2. \A n \in S : ~(n < m)
  BY <1>1, Zenon DEF OpToRel
<1>3. \A n \in S : m <= n
  BY <1>2
<1> QED
  BY <1>3

\* icmp_findpacket returns the first empty slot, or NULL when there is none.
LEMMA FoundIsEmpty ==
  /\ FoundPacket \in Slots \union {NoSlot} /\ NoSlot \notin Slots
  /\ FoundPacket = NoSlot <=> Empty = {}
  /\ FoundPacket # NoSlot => FoundPacket \in Empty /\ \A s \in Empty : FoundPacket <= s
<1>1. NoSlot \notin Slots /\ Empty \in SUBSET Slots /\ Slots \in SUBSET Nat
  BY PingAssumption DEF NoSlot, Slots, Empty
<1>2. CASE Empty = {}
  BY <1>1, <1>2 DEF FoundPacket
<1>3. CASE Empty # {}
  <2>1. \E s \in Empty : \A t \in Empty : s <= t
    BY <1>1, <1>3, LeastOf
  <2>2. FoundPacket \in Empty /\ \A t \in Empty : FoundPacket <= t
    BY <1>3, <2>1 DEF FoundPacket
  <2> QED
    BY <1>1, <1>3, <2>2
<1> QED
  BY <1>2, <1>3

\* The constants are numbers.
LEMMA Numbers ==
  ASSUME PingInv
  PROVE  /\ ShortRange \in Nat /\ ShortRange > 0 /\ MaxSent \in Nat
         /\ packet_send \in Nat /\ packet_recv \in Nat /\ Total \in Nat
         /\ Counter \subseteq Nat /\ 0 \in Counter
  BY PingAssumption, FS_CardinalityType DEF PingInv, TypeOK, Counter, SendInv, Total

\* The remainder of a sum of a multiple and a number below the divisor.
LEMMA Remainder ==
  ASSUME NEW r \in Nat \ {0}, NEW k \in Nat, NEW m \in 0 .. r-1
  PROVE  (r*k + m) % r = m
  OBVIOUS

\* Adding one to the remainder adds one to the number, or wraps.
LEMMA RemainderStep ==
  \A r \in Nat \ {0} : \A k \in Nat : \A m \in 0 .. r-1 : \A n \in Nat : n = r*k + m =>
         /\ (m + 1) % r \in 0 .. r-1
         /\ \E j \in Nat : n + 1 = r*j + ((m + 1) % r)
<1> TAKE r \in Nat \ {0}
<1> TAKE k \in Nat
<1> TAKE m \in 0 .. r-1
<1> TAKE n \in Nat
<1> HAVE n = r*k + m
<1> DEFINE p == r*k
<1>1. p \in Int /\ r*(k + 1) = p + r /\ n = p + m /\ r*k = p
  OBVIOUS
<1> HIDE DEF p
<1>2. CASE m + 1 < r
  <2>1. (m + 1) % r = m + 1 /\ m + 1 \in 0 .. r-1
    BY <1>2
  <2>2. n + 1 = p + (m + 1)
    BY <1>1
  <2> QED
    BY <1>1, <2>1, <2>2
<1>3. CASE m + 1 = r
  <2>1. (m + 1) % r = 0 /\ 0 \in 0 .. r-1
    BY <1>3
  <2>2. k + 1 \in Nat /\ n + 1 = r*(k + 1) + 0
    BY <1>1, <1>3
  <2> QED
    BY <2>1, <2>2
<1> QED
  BY <1>2, <1>3

-------------------------------------------------------------------------------
(* The steps *)

\* What is not said of the threads' steps is kept by a step that neither sends
\* nor counts.
LEMMA SendSame ==
  ASSUME PingInv, UNCHANGED <<packet_send, wire>>,
         sendPc' \in {"find", "fill", "send"} =>
             sendPc \in {"find", "fill", "send"} \/ Total < MaxSent
  PROVE  SendInv'
  BY DEF PingInv, SendInv, SeqsConsecutive, Wrapped, Total

LEMMA MainKeeps ==
  ASSUME PingInv, Main \/ Interrupt
  PROVE  PingInv'
<1>1. /\ UNCHANGED <<shared, sendSlot, recvSlot, reply, network>>
      /\ alive' \in BOOLEAN
  BY DEF Main, Interrupt, Start, StartReceiver, JoinSender, JoinReceiver, Statistics, MainGoes,
         sender, receiver, PingInv, TypeOK
<1>2. \/ mainPc = "start" /\ mainPc' = "create" /\ sendPc' = "test" /\ recvPc' = recvPc
      \/ mainPc = "create" /\ mainPc' = "joinSend" /\ recvPc' = "test" /\ sendPc' = sendPc
      \/ /\ UNCHANGED <<sendPc, recvPc>>
         /\ \/ mainPc = "joinSend" /\ mainPc' = "joinRecv" /\ sendPc = "ended"
            \/ mainPc = "joinRecv" /\ mainPc' = "stats" /\ recvPc = "ended"
            \/ mainPc = "stats" /\ mainPc' \in {"done", "crashed"}
            \/ mainPc' = mainPc
  BY DEF Main, Interrupt, Start, StartReceiver, JoinSender, JoinReceiver, Statistics, MainGoes,
         sender, receiver
<1>3. UNCHANGED <<pingpacket, packet_send, packet_recv, dest, wire, arrived, answered>>
  BY <1>1 DEF shared, counters, network
<1>4. TypeOK'
  BY <1>1, <1>2, <1>3 DEF PingInv, TypeOK
<1>5. ThreadsInv'
  BY <1>2 DEF PingInv, ThreadsInv
<1>6. SlotsInv'
  BY <1>1, <1>2 DEF PingInv, SlotsInv
<1>7. SendInv'
  BY <1>2, <1>3, SendSame
<1> QED
  BY <1>4, <1>5, <1>6, <1>7 DEF PingInv

\* The sending thread looks for a slot and fills it.
LEMMA SenderKeeps ==
  ASSUME PingInv, SenderTest \/ SenderFind \/ SenderFill \/ SenderWake
  PROVE  PingInv'
<1>1. /\ UNCHANGED <<packet_send, packet_recv, dest, alive, mainPc, recvPc, recvSlot, reply, wire,
                     arrived, answered>>
      /\ \/ sendPc = "test" /\ Total < MaxSent /\ sendPc' = "find"
         \/ sendPc = "test" /\ sendPc' = "ended"
         \/ sendPc = "find" /\ sendPc' \in {"send", "fill"}
         \/ sendPc = "fill" /\ sendPc' = "send"
         \/ sendPc = "sleep" /\ sendPc' = "test"
  BY DEF SenderTest, SenderFind, SenderFill, SenderWake, shared, counters, control, receiver,
         network
<1>2. /\ sendSlot' \in Slots \union {NoSlot}
      /\ sendPc' = "fill" => sendSlot' \in Slots
  BY FoundIsEmpty
     DEF SenderTest, SenderFind, SenderFill, SenderWake, PingInv, TypeOK
<1>3. pingpacket' \in [Slots -> [seq : Counter, flag : {0, 1}]]
  <2>1. CASE SenderFill
    BY <2>1 DEF SenderFill, PingInv, TypeOK
  <2>2. CASE UNCHANGED pingpacket
    BY <2>2 DEF PingInv, TypeOK
  <2> QED
    BY <2>1, <2>2 DEF SenderTest, SenderFind, SenderWake, shared
<1>4. TypeOK'
  BY <1>1, <1>2, <1>3 DEF PingInv, TypeOK
<1>5. ThreadsInv'
  BY <1>1 DEF PingInv, ThreadsInv
<1>6. SlotsInv'
  BY <1>1, <1>2 DEF PingInv, SlotsInv
<1>7. SendInv'
  BY <1>1, SendSame
<1> QED
  BY <1>4, <1>5, <1>6, <1>7 DEF PingInv

\* sendto fails, or sends the packet with the next number.
LEMMA SendKeeps ==
  ASSUME PingInv, SendFails \/ Send
  PROVE  PingInv'
<1> USE Numbers
<1>1. /\ sendPc = "send" /\ sendPc' \in {"test", "sleep"} /\ sendSlot' = NoSlot
      /\ UNCHANGED <<pingpacket, packet_recv, dest, alive, mainPc, recvPc, recvSlot, reply,
                     arrived, answered>>
  BY DEF SendFails, Send, Sent, control, receiver
<1>2. ThreadsInv' /\ SlotsInv'
  BY <1>1 DEF PingInv, ThreadsInv, SlotsInv
<1>3. CASE SendFails
  <2>1. UNCHANGED <<packet_send, wire>>
    BY <1>3 DEF SendFails, Sent
  <2>2. TypeOK'
    BY <1>1, <2>1 DEF PingInv, TypeOK
  <2>3. SendInv'
    BY <1>1, <2>1, SendSame
  <2> QED
    BY <1>2, <2>2, <2>3 DEF PingInv
<1>4. CASE Send
  <2> DEFINE q == [nr |-> Total, to |-> dest, seq |-> packet_send]
  <2>1. Total < MaxSent /\ Total \in 0 .. MaxSent-1
    BY <1>1 DEF PingInv, SendInv
  <2>2. packet_send' = (packet_send + 1) % ShortRange /\ wire' = wire \union {q}
    BY <1>4 DEF Send, Sent, NextSeq
  <2>3. packet_send' \in Counter /\ \E k \in Nat : Total + 1 = ShortRange*k + packet_send'
    <3>1. PICK k \in Nat : Total = ShortRange*k + packet_send
      BY DEF PingInv, SendInv, Wrapped
    <3>2. ShortRange \in Nat \ {0} /\ packet_send \in 0 .. ShortRange-1 /\ Total \in Nat
      BY PingAssumption DEF PingInv, TypeOK, Counter
    <3>3. /\ (packet_send + 1) % ShortRange \in 0 .. ShortRange-1
          /\ \E j \in Nat : Total + 1 = ShortRange*j + ((packet_send + 1) % ShortRange)
      BY ONLY <3>1, <3>2, RemainderStep, Zenon
    <3> QED
      BY <2>2, <3>3 DEF Counter
  <2>4. q \in [nr : 0 .. MaxSent-1, to : Hosts, seq : Counter]
    BY <2>1 DEF PingInv, TypeOK
  <2>5. TypeOK'
    BY <1>1, <2>2, <2>3, <2>4 DEF PingInv, TypeOK
  <2>6. q \notin wire
    <3>1. \A p \in wire : p.nr \in 0 .. Total-1
      BY DEF PingInv, SendInv, SeqsConsecutive
    <3> QED
      BY <3>1
  <2>7. IsFiniteSet(wire') /\ Total' = Total + 1
    BY <2>2, <2>6, FS_AddElement DEF PingInv, SendInv, Total
  <2>8. {p.nr : p \in wire'} = 0 .. Total'-1
    <3>1. {p.nr : p \in wire'} = {p.nr : p \in wire} \union {q.nr} /\ q.nr = Total
      BY <2>2
    <3>2. {p.nr : p \in wire} = 0 .. Total-1
      BY DEF PingInv, SendInv, SeqsConsecutive
    <3>3. (0 .. Total-1) \union {Total} = 0 .. Total
      OBVIOUS
    <3>4. Total' - 1 = Total
      BY <2>7
    <3> QED
      BY <3>1, <3>2, <3>3, <3>4
  <2>9. \A p \in wire' : p.seq = p.nr % ShortRange
    BY <2>2 DEF PingInv, SendInv, SeqsConsecutive
  <2>10. packet_send' = Total' % ShortRange
    BY <2>3, <2>7, Remainder DEF Counter
  <2>11. SendInv'
    BY <1>1, <2>1, <2>3, <2>7, <2>8, <2>9, <2>10 DEF SendInv, SeqsConsecutive, Wrapped
  <2> QED
    BY <1>2, <2>5, <2>11 DEF PingInv
<1> QED
  BY <1>3, <1>4

LEMMA ReceiverKeeps ==
  ASSUME PingInv, Receiver
  PROVE  PingInv'
<1> USE Numbers
<1>1. /\ UNCHANGED <<packet_send, alive, mainPc, sendPc, sendSlot, wire>>
      /\ recvPc \in {"test", "select", "find", "clear", "count"}
      /\ recvPc' \in {"test", "select", "find", "clear", "count", "ended"}
  BY DEF Receiver, ReceiverTest, NothingReceived, ReceiverGoes, Receive, ReceiverFind,
         ReceiverClear, Count, Counted, shared, counters, control, sender, network
<1>2. ThreadsInv'
  BY <1>1 DEF PingInv, ThreadsInv
<1>3. SendInv'
  BY <1>1, SendSame
<1>4. CASE ReceiverTest \/ NothingReceived
  <2>1. /\ UNCHANGED <<pingpacket, packet_recv, dest, recvSlot, reply, arrived, answered>>
        /\ recvPc' # "clear"
    BY <1>4 DEF ReceiverTest, NothingReceived, ReceiverGoes, shared, counters, network
  <2>2. TypeOK' /\ SlotsInv'
    BY <1>1, <2>1 DEF PingInv, TypeOK, SlotsInv
  <2> QED
    BY <1>2, <1>3, <2>2 DEF PingInv
<1>5. CASE Receive
  <2>1. PICK p \in arrived :
           /\ arrived' = arrived \ {p} /\ dest' = p.src
           /\ reply' \in {reply, [seq |-> p.seq, kind |-> p.kind]}
           /\ recvPc' \in {"test", "find"}
    BY <1>5 DEF Receive
  <2>2. UNCHANGED <<pingpacket, packet_recv, recvSlot, answered>>
    BY <1>5 DEF Receive, counters
  <2>3. p.src \in Hosts /\ [seq |-> p.seq, kind |-> p.kind] \in [seq : Counter, kind : {"own", "sameId", "other"}]
    BY DEF PingInv, TypeOK, Packet
  <2>4. TypeOK' /\ SlotsInv'
    BY <1>1, <2>1, <2>2, <2>3 DEF PingInv, TypeOK, SlotsInv
  <2> QED
    BY <1>2, <1>3, <2>4 DEF PingInv
<1>6. CASE ReceiverFind
  <2>1. /\ UNCHANGED <<pingpacket, packet_recv, dest, arrived, answered>>
        /\ recvSlot' = FoundPacket /\ reply' \in {reply, NoReply}
        /\ recvPc' = "clear" => FoundPacket # NoSlot
    BY <1>6 DEF ReceiverFind, shared, counters, network
  <2>2. TypeOK' /\ SlotsInv'
    BY <1>1, <2>1, FoundIsEmpty DEF PingInv, TypeOK, SlotsInv, NoReply
  <2> QED
    BY <1>2, <1>3, <2>2 DEF PingInv
<1>7. CASE ReceiverClear
  <2>1. /\ recvPc = "clear" /\ recvPc' = "count"
        /\ pingpacket' = [pingpacket EXCEPT ![recvSlot].flag = 0]
        /\ UNCHANGED <<packet_recv, dest, recvSlot, reply, arrived, answered>>
    BY <1>7 DEF ReceiverClear, counters, network
  <2>2. pingpacket' \in [Slots -> [seq : Counter, flag : {0, 1}]]
    BY <2>1 DEF PingInv, TypeOK, SlotsInv
  <2>3. TypeOK' /\ SlotsInv'
    BY <1>1, <2>1, <2>2 DEF PingInv, TypeOK, SlotsInv
  <2> QED
    BY <1>2, <1>3, <2>3 DEF PingInv
<1>8. CASE Count
  <2>1. /\ packet_recv' = (packet_recv + 1) % ShortRange
        /\ answered' \subseteq answered \union {reply.seq}
        /\ recvSlot' = NoSlot /\ reply' = NoReply /\ recvPc' = "test"
        /\ UNCHANGED <<pingpacket, dest, arrived>>
    BY <1>8 DEF Count, Counted
  <2>2. packet_recv' \in Counter
    BY <2>1, PingAssumption DEF Counter
  <2>3. reply.seq \in Counter /\ NoReply \in [seq : Counter, kind : {"own", "sameId", "other"}]
    BY DEF PingInv, TypeOK, NoReply
  <2>4. TypeOK' /\ SlotsInv'
    BY <1>1, <2>1, <2>2, <2>3 DEF PingInv, TypeOK, SlotsInv
  <2> QED
    BY <1>2, <1>3, <2>4 DEF PingInv
<1> QED
  BY <1>4, <1>5, <1>6, <1>7, <1>8 DEF Receiver

\* A packet arrives.
LEMMA NetworkKeeps ==
  ASSUME PingInv, Answer \/ OtherPacket
  PROVE  PingInv'
<1> USE Numbers
<1>1. PICK p : Arrive(p) /\ p \in Packet
  <2>1. CASE Answer
    <3>1. PICK q \in wire : Arrive([src |-> q.to, seq |-> q.seq, kind |-> "own"])
      BY <2>1 DEF Answer
    <3>2. q.to \in Hosts /\ q.seq \in Counter
      BY DEF PingInv, TypeOK
    <3> QED
      BY <3>1, <3>2 DEF Packet
  <2>2. CASE OtherPacket
    BY <2>2 DEF OtherPacket, Packet
  <2> QED
    BY <2>1, <2>2
<1>2. /\ arrived' = arrived \union {p}
      /\ UNCHANGED <<pingpacket, packet_send, packet_recv, dest, alive, mainPc, sendPc, sendSlot,
                     recvPc, recvSlot, reply, wire, answered>>
  BY <1>1 DEF Arrive, shared, counters, control, sender, receiver
<1>3. TypeOK'
  BY <1>1, <1>2 DEF PingInv, TypeOK
<1>4. ThreadsInv' /\ SlotsInv'
  BY <1>2 DEF PingInv, ThreadsInv, SlotsInv
<1>5. SendInv'
  BY <1>2, SendSame
<1> QED
  BY <1>3, <1>4, <1>5 DEF PingInv

-------------------------------------------------------------------------------
(* The theorems *)

\* The threads, the table and the network agree in every reachable state.
THEOREM PingCorrect == Spec => []PingInv
<1>1. Init => PingInv
  <2> SUFFICES ASSUME Init PROVE PingInv
    OBVIOUS
  <2>1. 0 \in Counter
    BY PingAssumption DEF Counter
  <2>2. TypeOK
    BY <2>1, PingAssumption DEF Init, TypeOK, NoReply
  <2>3. ThreadsInv /\ SlotsInv
    BY DEF Init, ThreadsInv, SlotsInv
  <2>4. SendInv
    <3>1. IsFiniteSet(wire) /\ Total = 0 /\ packet_send = 0 /\ ShortRange \in Nat \ {0}
      BY PingAssumption, FS_EmptySet DEF Init, Total
    <3>2. Wrapped /\ 0 % ShortRange = 0
      <4>1. 0 = ShortRange*0 + 0
        BY <3>1
      <4> QED
        BY <3>1, <4>1 DEF Wrapped
    <3>3. wire = {} /\ sendPc = "none"
      BY DEF Init
    <3> QED
      BY <3>1, <3>2, <3>3, PingAssumption DEF SendInv, SeqsConsecutive
  <2> QED
    BY <2>2, <2>3, <2>4 DEF PingInv
<1>2. PingInv /\ [Next]_vars => PingInv'
  <2> SUFFICES ASSUME PingInv, [Next]_vars
               PROVE  PingInv'
    OBVIOUS
  <2>1. CASE Next
    BY <2>1, MainKeeps, SenderKeeps, SendKeeps, ReceiverKeeps, NetworkKeeps DEF Next, Sender
  <2>2. CASE UNCHANGED vars
    BY <2>2 DEF vars, shared, counters, control, sender, receiver, network, PingInv, TypeOK,
                ThreadsInv, SlotsInv, SendInv, SeqsConsecutive, Wrapped, Total
  <2> QED
    BY <2>1, <2>2
<1> QED
  BY <1>1, <1>2, PTL DEF Spec

\* Every variable keeps its type; both counters stay in the range of a short.
THEOREM TypeCorrect == Spec => []TypeOK
<1>1. PingInv => TypeOK
  BY DEF PingInv
<1> QED
  BY <1>1, PingCorrect, PTL

\* The n-th packet sent carries the number n as a short, however often the short
\* has wrapped (ping.c:146-162: packet_send++ only when sendto succeeds).
THEOREM SeqsCorrect == Spec => []SeqsConsecutive
<1>1. PingInv => SeqsConsecutive
  BY DEF PingInv, SendInv
<1> QED
  BY <1>1, PingCorrect, PTL

\* No thread counts while the statistics are printed, or later: both are joined
\* before (ping.c:275-279).
THEOREM StatisticsCorrect == Spec => StatisticsFinal
<1>1. PingInv /\ [Next]_vars =>
          [(mainPc \in {"stats", "done", "crashed"}) => UNCHANGED counters]_vars
  <2> SUFFICES ASSUME PingInv, Next, mainPc \in {"stats", "done", "crashed"}
               PROVE  UNCHANGED counters
    BY DEF vars, shared
  <2>1. sendPc = "ended" /\ recvPc = "ended"
    BY DEF PingInv, ThreadsInv
  <2>2. Main \/ Interrupt \/ Answer \/ OtherPacket
    BY <2>1 DEF Next, Sender, SenderTest, SenderFind, SenderFill, SendFails, Send, Sent,
                SenderWake, Receiver, ReceiverTest, NothingReceived, ReceiverGoes, Receive,
                ReceiverFind, ReceiverClear, Count, Counted
  <2> QED
    BY <2>2 DEF Main, Interrupt, Start, StartReceiver, JoinSender, JoinReceiver, Statistics,
                MainGoes, Answer, OtherPacket, Arrive, shared, counters
<1> QED
  BY <1>1, PingCorrect, PTL DEF Spec, StatisticsFinal
===============================================================================
