-------------------------- MODULE SelectServerProofs --------------------------
(***************************************************************************)
(* Theorems about SelectServer, for every set of clients, every size of    *)
(* the table and of the buffers.                                           *)
(***************************************************************************)
EXTENDS SelectServer, SocketsProofs

\* The safety properties are inductive together, with what the kernel keeps:
\* the table holds open descriptors, and the counter bounds where the next one
\* goes.
ServerInv == TypeOK /\ KernelInv /\ SlotsOpen /\ CountExact /\ BelowCapacity

-------------------------------------------------------------------------------
(* The table *)

\* The occupied slots can be counted.
LEMMA OccupiedFinite ==
  IsFiniteSet(Slots) /\ IsFiniteSet(Occupied) /\ Cardinality(Occupied) \in Nat
<1>1. IsFiniteSet(Slots)
  BY ServerAssumption, FS_Interval DEF Slots
<1>2. Occupied \in SUBSET Slots
  BY DEF Occupied
<1> QED
  BY <1>1, <1>2, FS_Subset, FS_CardinalityType

\* An occupied slot is that of one client.
LEMMA SlotClient ==
  ASSUME ServerInv, NEW k \in Occupied
  PROVE  /\ k \in Slots /\ fds[k] \in OpenFds
         /\ ClientOf(fds[k]) \in Clients /\ fd[ClientOf(fds[k])] = fds[k]
<1>1. k \in Slots /\ fds[k] \in OpenFds
  BY DEF ServerInv, SlotsOpen, Occupied
<1> QED
  BY <1>1, OpenFdClient DEF ServerInv

\* What select() reported, and is still in the table, is in an occupied slot.
LEMMA ReportedOccupied ==
  ASSUME ServerInv, NEW k \in Slots, fds[k] \in wd
  PROVE  k \in Occupied
  BY FdsType DEF ServerInv, TypeOK, Occupied

\* The first slot of a set that the server goes on with.
LEMMA FirstSlot ==
  ASSUME NEW S \in SUBSET Slots, S # {}
  PROVE  Smallest(S) \in S /\ Smallest(S) \in Slots /\ Smallest(S) + 1 \in 0 .. MaxClient
<1>1. S \in SUBSET Nat
  BY DEF Slots
<1>2. Smallest(S) \in S
  BY <1>1, SmallestOf
<1>3. Smallest(S) \in 0 .. MaxClient-1 /\ MaxClient \in Nat
  BY <1>2, ServerAssumption DEF Slots
<1> QED
  BY <1>2, <1>3 DEF Slots

\* A step that leaves the table and its counter alone, and in the kernel opens
\* and closes nothing, keeps what relates them.
LEMMA TableSame ==
  ASSUME ServerInv, TypeOK', KernelInv', OpenFds' = OpenFds, fds' = fds,
         connections' = connections,
         pc' \in {"clients", "send", "accept"} => pc \in {"clients", "send", "accept"}
  PROVE  ServerInv'
<1>1. Occupied' = Occupied
  BY DEF Occupied
<1> QED
  BY <1>1 DEF ServerInv, SlotsOpen, CountExact, BelowCapacity

-------------------------------------------------------------------------------
(* The steps *)

\* select() counts the table.
LEMMA SelectKeeps ==
  ASSUME ServerInv, Select
  PROVE  ServerInv'
<1>1. Occupied' = Occupied /\ OpenFds' = OpenFds /\ KernelInv' /\ KernelTypeOK'
  BY DEF Select, Occupied, OpenFds, KernelInv, KernelTypeOK, kernel, ServerInv
<1>2. Watched \subseteq Fds
  BY DEF Watched, Occupied, ServerInv, TypeOK
<1>3. TypeOK'
  BY <1>1, <1>2, OccupiedFinite, ServerAssumption
     DEF Select, ServerInv, TypeOK, BelowCapacity
<1> QED
  BY <1>1, <1>3 DEF Select, ServerInv, SlotsOpen, CountExact, BelowCapacity

\* A client's message is received, or its connection is closed and leaves the
\* table with its descriptor.
LEMMA HandleClientKeeps ==
  ASSUME ServerInv, HandleClient
  PROVE  ServerInv'
<1> DEFINE k == Smallest(Ready)
           c == ClientOf(fds[k])
<1>1. k \in Slots /\ k + 1 \in 0 .. MaxClient /\ fds[k] \in wd
  <2>1. Ready \in SUBSET Slots /\ Ready # {}
    BY DEF HandleClient, Ready
  <2>2. k \in Ready /\ k + 1 \in 0 .. MaxClient
    BY <2>1, FirstSlot
  <2> QED
    BY <2>2 DEF Ready
<1>2. k \in Occupied
  BY <1>1, ReportedOccupied
<1>3. c \in Clients /\ fd[c] = fds[k] /\ fds[k] \in OpenFds
  BY <1>2, SlotClient
<1>4. CASE Receive(k)
  <2>1. KernelInv' /\ OpenFds' = OpenFds
    BY <1>3, <1>4, TransferKeeps DEF Receive, ServerInv
  <2>2. pc' = "send" /\ slot' = k /\ i' = 0 /\ UNCHANGED <<fds, connections, rd, wd>>
    BY <1>4 DEF Receive, HandleClient
  <2>3. TypeOK'
    BY <1>1, <2>1, <2>2, ServerAssumption DEF ServerInv, TypeOK, KernelInv
  <2> QED
    BY <2>1, <2>2, <2>3, TableSame DEF HandleClient
<1>5. CASE Drop(k)
  <2>1. /\ Close(c) /\ pc = "clients"
        /\ fds' = [fds EXCEPT ![k] = NoFd] /\ connections' = connections - 1
        /\ i' = k + 1 /\ UNCHANGED <<pc, slot, rd, wd>>
    BY <1>5 DEF Drop, DropWith, Without, HandleClient
  <2>2. KernelInv' /\ OpenFds' = OpenFds \ {fds[k]}
    BY <1>3, <2>1, CloseKeeps DEF ServerInv
  <2>3. Occupied' = Occupied \ {k}
    BY <1>1, <2>1 DEF Occupied, ServerInv, TypeOK
  <2>4. Cardinality(Occupied') = Cardinality(Occupied) - 1
    BY <1>2, <2>3, OccupiedFinite, FS_RemoveElement
  <2>5. connections = Cardinality(Occupied) /\ connections \in Nat /\ connections # 0
    <3>1. connections = Cardinality(Occupied)
      BY <2>1 DEF ServerInv, CountExact
    <3> QED
      BY <3>1, <1>2, OccupiedFinite, FS_EmptySet
  <2>6. TypeOK'
    <3>1. connections \in 0 .. MaxClient /\ MaxClient \in Nat
      BY ServerAssumption DEF ServerInv, TypeOK
    <3>2. connections - 1 \in 0 .. MaxClient
      BY <3>1, <2>5
    <3> QED
      BY <1>1, <2>1, <2>2, <3>2 DEF ServerInv, TypeOK, KernelInv
  <2>7. SlotsOpen'
    <3>1. \A n \in Occupied' : n \in Occupied /\ n # k /\ fds'[n] = fds[n]
      BY <2>1, <2>3 DEF Occupied, ServerInv, TypeOK
    <3> QED
      BY <1>2, <2>2, <3>1 DEF ServerInv, SlotsOpen
  <2>8. CountExact' /\ BelowCapacity'
    <3>1. connections < MaxClient /\ MaxClient \in Nat
      BY ServerAssumption DEF ServerInv, BelowCapacity
    <3> QED
      BY <2>1, <2>4, <2>5, <3>1 DEF CountExact, BelowCapacity
  <2> QED
    BY <2>2, <2>6, <2>7, <2>8 DEF ServerInv
<1> QED
  BY <1>4, <1>5 DEF HandleClient

\* A send to the client of an occupied slot.
LEMMA SendOnKeeps ==
  ASSUME ServerInv, NEW k \in Occupied, SendOn(fds[k])
  PROVE  KernelInv' /\ OpenFds' = OpenFds
<1>1. ClientOf(fds[k]) \in Clients
  BY SlotClient
<1>2. CASE SendTo(ClientOf(fds[k]))
  BY <1>1, <1>2, TransferKeeps DEF ServerInv
<1>3. CASE UNCHANGED kernel
  BY <1>3 DEF kernel, KernelInv, KernelTypeOK, OpenFds, ServerInv
<1> QED
  BY <1>2, <1>3 DEF SendOn

\* A message is sent on, to each occupied slot or to those reported writable.
LEMMA SendingKeeps ==
  ASSUME ServerInv, Broadcast \/ Notify
  PROVE  ServerInv'
<1> DEFINE S == IF pc = "send" THEN Unsent ELSE Hearers
           k == Smallest(S)
<1>1. S \in SUBSET Slots /\ S # {} /\ S \subseteq Occupied
  <2>1. CASE Broadcast
    BY <2>1 DEF Broadcast, Unsent, Occupied
  <2>2. CASE Notify
    <3>1. pc = "notify" /\ Hearers # {}
      BY <2>2 DEF Notify
    <3>2. \A n \in Hearers : n \in Slots /\ fds[n] \in wd
      BY DEF Hearers
    <3> QED
      BY <3>1, <3>2, ReportedOccupied
  <2> QED
    BY <2>1, <2>2
<1>2. k \in Occupied /\ k + 1 \in 0 .. MaxClient
  BY <1>1, FirstSlot
<1>3. /\ SendOn(fds[k]) /\ i' = k + 1
      /\ UNCHANGED <<fds, connections, slot, rd, wd>>
      /\ pc \in {"send", "notify"} /\ pc' \in {pc, "killed"}
  BY DEF Broadcast, Notify, SendOn
<1>4. KernelInv' /\ OpenFds' = OpenFds
  BY <1>2, <1>3, SendOnKeeps
<1>5. TypeOK'
  BY <1>2, <1>3, <1>4 DEF ServerInv, TypeOK, KernelInv
<1> QED
  BY <1>3, <1>4, <1>5, TableSame

\* The server refuses a client, or loses it: it has no descriptor yet.
LEMMA RefuseKeeps ==
  ASSUME ServerInv, pc = "accept", i' = 0, UNCHANGED slot,
         NEW c \in Pending, AcceptFails(c) \/ Refuse(c)
  PROVE  ServerInv'
<1>1. c \in Clients /\ fd[c] = NoFd
  BY DEF Pending, ServerInv, KernelInv
<1>2. /\ Close(c) /\ pc' = "select" /\ rd' = {} /\ wd' = {}
      /\ UNCHANGED <<fds, connections>>
  BY DEF AcceptFails, Refuse
<1>3. KernelInv' /\ OpenFds' = OpenFds
  BY <1>1, <1>2, CloseKeeps DEF ServerInv, OpenFds
<1>4. TypeOK'
  BY <1>2, <1>3, ServerAssumption DEF ServerInv, TypeOK, KernelInv
<1> QED
  BY <1>2, <1>3, <1>4, TableSame

\* A new client takes the slot that connections points to, whoever is there.
LEMMA AdmitKeeps ==
  ASSUME ServerInv, pc = "accept", i' = 0, UNCHANGED slot,
         NEW c \in Pending, Admit(c)
  PROVE  ServerInv'
<1>1. c \in Clients /\ sock[c] = "pending"
  BY DEF Pending
<1>2. /\ AcceptFrom(c) /\ connections + 1 < MaxClient
      /\ fds' = [fds EXCEPT ![connections] = NewFd]
      /\ connections' = connections + 1 /\ pc' = "notify"
      /\ UNCHANGED <<rd, wd>>
  BY DEF Admit, AdmitWhen
<1>3. KernelInv' /\ OpenFds' = OpenFds \union {NewFd}
  BY <1>1, <1>2, AcceptKeeps DEF ServerInv
<1>4. NewFd \in Fds /\ NewFd \notin OpenFds /\ NewFd # NoFd
  BY <1>1, NewFdFree, FdsType DEF ServerInv
<1>5. connections \in Slots
  BY <1>2, ServerAssumption DEF Slots, ServerInv, TypeOK, BelowCapacity
<1>6. TypeOK'
  BY <1>2, <1>3, <1>4, <1>5, ServerAssumption DEF ServerInv, TypeOK, KernelInv
<1>7. Occupied' = Occupied \union {connections}
  BY <1>2, <1>4, <1>5 DEF Occupied, ServerInv, TypeOK
<1>8. SlotsOpen'
  <2>1. \A n \in Occupied' \ {connections} : n \in Occupied /\ fds'[n] = fds[n]
    BY <1>2, <1>7 DEF Occupied, ServerInv, TypeOK
  <2>2. fds'[connections] = NewFd
    BY <1>2, <1>5 DEF ServerInv, TypeOK
  <2> QED
    BY <1>3, <1>4, <2>1, <2>2 DEF ServerInv, SlotsOpen
<1>9. Cardinality(Occupied') \in Nat /\ Cardinality(Occupied') <= connections + 1
  <2>1. connections = Cardinality(Occupied)
    BY DEF ServerInv, CountExact
  <2>2. Cardinality(Occupied \union {connections}) =
           IF connections \in Occupied THEN Cardinality(Occupied) ELSE Cardinality(Occupied) + 1
    BY OccupiedFinite, FS_AddElement
  <2> QED
    BY <2>1, <2>2, <1>7, OccupiedFinite
<1> QED
  BY <1>2, <1>3, <1>6, <1>8, <1>9, ServerAssumption
     DEF ServerInv, CountExact, BelowCapacity, TypeOK

\* The end of a loop over the table.
LEMMA LoopEndKeeps ==
  ASSUME ServerInv, ClientsDone \/ BroadcastDone \/ NoNewClient \/ NotifyDone
  PROVE  ServerInv'
<1>1. KernelInv' /\ OpenFds' = OpenFds
  BY DEF ClientsDone, BroadcastDone, NoNewClient, NotifyDone, kernel,
         KernelInv, KernelTypeOK, OpenFds, ServerInv
<1>2. TypeOK'
  BY <1>1, ServerAssumption
     DEF ClientsDone, BroadcastDone, NoNewClient, NotifyDone, ServerInv, TypeOK,
         KernelInv, Slots
<1> QED
  BY <1>1, <1>2, TableSame DEF ClientsDone, BroadcastDone, NoNewClient, NotifyDone

\* Whatever the clients do, the table and what is open stay as they are.
LEMMA ClientStepKeeps ==
  ASSUME ServerInv, NEW c \in Clients, Client(c)
  PROVE  ServerInv'
<1>1. KernelInv' /\ OpenFds' = OpenFds
  BY ClientKeeps DEF Client, ServerInv
<1>2. UNCHANGED server
  BY DEF Client
<1>3. TypeOK'
  BY <1>1, <1>2 DEF server, ServerInv, TypeOK, KernelInv
<1> QED
  BY <1>1, <1>2, <1>3, TableSame DEF server

-------------------------------------------------------------------------------
(* The theorems *)

\* The table, the counter and the kernel agree in every reachable state.
THEOREM ServerCorrect == Spec => []ServerInv
<1>1. Init => ServerInv
  <2> SUFFICES ASSUME Init PROVE ServerInv
    OBVIOUS
  <2>1. KernelInv
    BY KernelStarts DEF Init
  <2>2. Occupied = {}
    BY DEF Occupied, Init
  <2>3. Cardinality(Occupied) = 0
    BY <2>2, FS_EmptySet
  <2>4. TypeOK
    BY <2>1, ServerAssumption DEF Init, TypeOK, KernelInv, Slots
  <2> QED
    BY <2>1, <2>2, <2>3, <2>4, ServerAssumption
       DEF Init, ServerInv, SlotsOpen, CountExact, BelowCapacity
<1>2. ServerInv /\ [Next]_vars => ServerInv'
  <2> SUFFICES ASSUME ServerInv, [Next]_vars
               PROVE  ServerInv'
    OBVIOUS
  <2>1. CASE Select
    BY <2>1, SelectKeeps
  <2>2. CASE HandleClient
    BY <2>2, HandleClientKeeps
  <2>3. CASE Broadcast \/ Notify
    BY <2>3, SendingKeeps
  <2>4. CASE ClientsDone \/ BroadcastDone \/ NoNewClient \/ NotifyDone
    BY <2>4, LoopEndKeeps
  <2>5. CASE Accept
    BY <2>5, RefuseKeeps, AdmitKeeps DEF Accept
  <2>6. ASSUME NEW c \in Clients, Client(c)
        PROVE  ServerInv'
    BY <2>6, ClientStepKeeps
  <2>7. CASE UNCHANGED vars
    BY <2>7 DEF vars, server, kernel, ServerInv, TypeOK, KernelInv, KernelTypeOK,
                SlotsOpen, CountExact, BelowCapacity, OpenFds, Occupied
  <2> QED
    BY <2>1, <2>2, <2>3, <2>4, <2>5, <2>6, <2>7 DEF Next, Server
<1> QED
  BY <1>1, <1>2, PTL DEF Spec

\* Every variable keeps its type, for a table and buffers of any size.
THEOREM TypeCorrect == Spec => []TypeOK
<1>1. ServerInv => TypeOK
  BY DEF ServerInv
<1> QED
  BY <1>1, ServerCorrect, PTL

\* Every descriptor in the table is open and in one slot only (select.c:82-85:
\* the slot is cleared when its connection is closed).
THEOREM SlotsCorrect == Spec => []SlotsOpen
<1>1. ServerInv => SlotsOpen
  BY DEF ServerInv
<1> QED
  BY <1>1, ServerCorrect, PTL

\* While clients are served, connections counts the occupied slots.
THEOREM CountCorrect == Spec => []CountExact
<1>1. ServerInv => CountExact
  BY DEF ServerInv
<1> QED
  BY <1>1, ServerCorrect, PTL

\* fds[connections++] never leaves the table (select.c:95-101).
THEOREM CapacityCorrect == Spec => []BelowCapacity
<1>1. ServerInv => BelowCapacity
  BY DEF ServerInv
<1> QED
  BY <1>1, ServerCorrect, PTL
===============================================================================
