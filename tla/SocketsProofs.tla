---------------------------- MODULE SocketsProofs ----------------------------
(***************************************************************************)
(* What a server may rely on in the kernel, for every set of clients: the  *)
(* lemmas about Sockets that the proofs about the servers share.           *)
(***************************************************************************)
EXTENDS Sockets, FiniteSetTheorems, TLAPS

-------------------------------------------------------------------------------
(* Smallest elements *)

\* A set of natural numbers that is not empty has a smallest element.
LEMMA SmallestOf ==
  ASSUME NEW S \in SUBSET Nat, S # {}
  PROVE  Smallest(S) \in S /\ \A n \in S : Smallest(S) <= n
<1>1. PICK m \in S : \A k \in S : <<k, m>> \notin OpToRel(<, Nat)
  BY WFMin, NatLessThanWellFounded, Zenon
<1>2. \A k \in S : ~(k < m)
  BY <1>1, Zenon DEF OpToRel
<1>3. \A k \in S : m <= k
  BY <1>2
<1> QED
  BY <1>3 DEF Smallest

-------------------------------------------------------------------------------
(* The invariant of the kernel's table of descriptors *)

\* A connection has a descriptor from accept() to close(), and no descriptor
\* belongs to two connections.
KernelInv ==
    /\ KernelTypeOK
    /\ \A c \in Clients : fd[c] # NoFd <=> sock[c] = "accepted"
    /\ \A c, d \in Clients : fd[c] = fd[d] /\ fd[c] # NoFd => c = d

\* A descriptor is a number other than those of the terminal and of ss.
LEMMA FdsType ==
  /\ Cardinality(Clients) \in Nat /\ IsFiniteSet(Fds)
  /\ Cardinality(Fds) = Cardinality(Clients)
  /\ Fds \subseteq Nat /\ NoFd \notin Fds /\ ss \notin Fds
<1>1. Cardinality(Clients) \in Nat
  BY SocketsAssumption, FS_CardinalityType
<1>2. IsFiniteSet(Fds) /\ Cardinality(Fds) = Cardinality(Clients)
  <2>1. Fds = 4 .. 3 + Cardinality(Clients)
    BY DEF Fds, ss
  <2>2. /\ IsFiniteSet(4 .. 3 + Cardinality(Clients))
        /\ Cardinality(4 .. 3 + Cardinality(Clients)) =
             IF 4 > 3 + Cardinality(Clients) THEN 0 ELSE 3 + Cardinality(Clients) - 4 + 1
    BY <1>1, FS_Interval
  <2> QED
    BY <1>1, <2>1, <2>2
<1> QED
  BY <1>1, <1>2 DEF Fds, ss, NoFd

\* No connection is there when a server starts.
LEMMA KernelStarts == KernelInit => KernelInv /\ OpenFds = {}
  BY SocketsAssumption DEF KernelInit, KernelInv, KernelTypeOK, OpenFds

\* An open descriptor is that of one client.
LEMMA OpenFdClient ==
  ASSUME KernelInv, NEW f \in OpenFds
  PROVE  f \in Fds /\ ClientOf(f) \in Clients /\ fd[ClientOf(f)] = f
<1>1. \E c \in Clients : fd[c] = f
  BY DEF OpenFds
<1> QED
  BY <1>1 DEF ClientOf, OpenFds, KernelInv, KernelTypeOK

\* A client that has not been accepted leaves a number free for accept().
LEMMA NewFdFree ==
  ASSUME KernelInv, NEW c \in Clients, sock[c] # "accepted"
  PROVE  NewFd \in Fds \ OpenFds
<1> DEFINE A == {d \in Clients : fd[d] # NoFd}
           g == [d \in A |-> fd[d]]
<1>1. IsFiniteSet(A) /\ Cardinality(A) < Cardinality(Clients)
  <2>1. A \in SUBSET Clients /\ c \notin A
    BY DEF KernelInv
  <2>2. A # Clients
    BY <2>1
  <2> QED
    BY <2>1, <2>2, SocketsAssumption, FS_Subset, FS_CardinalityType
<1>2. g \in Surjection(A, OpenFds)
  BY DEF Surjection, OpenFds
<1>3. IsFiniteSet(OpenFds) /\ Cardinality(OpenFds) <= Cardinality(A)
  BY <1>1, <1>2, FS_Surjection
<1>4. ~ (Fds \subseteq OpenFds)
  <2> SUFFICES ASSUME Fds \in SUBSET OpenFds
               PROVE  FALSE
    OBVIOUS
  <2>1. Cardinality(Fds) <= Cardinality(OpenFds)
    BY <1>3, FS_Subset
  <2>2. Cardinality(A) \in Nat /\ Cardinality(OpenFds) \in Nat
    BY <1>1, <1>3, FS_CardinalityType
  <2> QED
    BY <2>1, <2>2, <1>1, <1>3, FdsType
<1>5. Fds \ OpenFds \in SUBSET Nat /\ Fds \ OpenFds # {}
  BY <1>4, FdsType
<1> QED
  BY <1>5, SmallestOf DEF NewFd

\* accept() opens one descriptor more.
LEMMA AcceptKeeps ==
  ASSUME KernelInv, NEW c \in Clients, sock[c] = "pending", AcceptFrom(c)
  PROVE  KernelInv' /\ OpenFds' = OpenFds \union {NewFd}
<1>1. NewFd \in Fds \ OpenFds /\ NewFd # NoFd
  BY NewFdFree, FdsType
<1>2. fd[c] = NoFd
  BY DEF KernelInv
<1>3. fd' = [fd EXCEPT ![c] = NewFd] /\ sock' = [sock EXCEPT ![c] = "accepted"]
      /\ UNCHANGED <<peer, inbox, outbox>>
  BY DEF AcceptFrom
<1>4. KernelTypeOK'
  BY <1>1, <1>3 DEF KernelTypeOK, KernelInv
<1>5. OpenFds' = OpenFds \union {NewFd}
  BY <1>1, <1>2, <1>3 DEF OpenFds, KernelInv, KernelTypeOK
<1>6. \A d \in Clients : fd[d] # NewFd
  BY <1>1 DEF OpenFds
<1> QED
  BY <1>1, <1>3, <1>4, <1>5, <1>6 DEF KernelInv, KernelTypeOK

\* close() frees the descriptor of its connection and no other.
LEMMA CloseKeeps ==
  ASSUME KernelInv, NEW c \in Clients, Close(c)
  PROVE  KernelInv' /\ OpenFds' = OpenFds \ {fd[c]}
<1>1. KernelTypeOK'
  BY SocketsAssumption DEF Close, KernelInv, KernelTypeOK
<1>2. OpenFds' = OpenFds \ {fd[c]}
  BY DEF OpenFds, Close, KernelInv, KernelTypeOK
<1> QED
  BY <1>1, <1>2 DEF Close, KernelInv, KernelTypeOK

\* What neither opens nor closes a descriptor keeps the table.
LEMMA KernelSame ==
  ASSUME KernelInv, KernelTypeOK', fd' = fd,
         \A c \in Clients : sock'[c] = "accepted" <=> sock[c] = "accepted"
  PROVE  KernelInv' /\ OpenFds' = OpenFds
  BY DEF KernelInv, OpenFds

\* recv() and send() do not touch the table.
LEMMA TransferKeeps ==
  ASSUME KernelInv, NEW c \in Clients, RecvFrom(c) \/ SendTo(c)
  PROVE  KernelInv' /\ OpenFds' = OpenFds
<1>1. KernelTypeOK' /\ fd' = fd /\ sock' = sock
  BY SocketsAssumption DEF RecvFrom, SendTo, KernelInv, KernelTypeOK
<1> QED
  BY <1>1, KernelSame

\* Nor does anything that a client does.
LEMMA ClientKeeps ==
  ASSUME KernelInv, NEW c \in Clients, Connect(c) \/ ClientStep(c)
  PROVE  KernelInv' /\ OpenFds' = OpenFds
<1>1. CASE Connect(c)
  BY <1>1, KernelSame DEF Connect, KernelInv, KernelTypeOK
<1>2. CASE ClientStep(c)
  <2>1. KernelTypeOK' /\ fd' = fd /\ sock' = sock
    BY <1>2, SocketsAssumption
       DEF ClientStep, ClientSend, ClientRead, HangUp, ResetArrives, KernelInv, KernelTypeOK
  <2> QED
    BY <2>1, KernelSame
<1> QED
  BY <1>1, <1>2
==============================================================================
