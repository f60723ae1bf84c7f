--------------------------- MODULE ThreadChatProofs ---------------------------
(***************************************************************************)
(* Theorems about ThreadChat, for every set of clients and every array that*)
(* is longer than their number.                                            *)
(***************************************************************************)
EXTENDS ThreadChat, SocketsProofs

Busy(c) == thread[c] \in {"reading", "testing", "writing"}

\* The clients that the main thread has come to store in the array.
Reached == {c \in Clients : sock[c] \in {"accepted", "closed"}}
Stored  == IF mainPc = "store" THEN Reached \ cs ELSE Reached

\* The client that the main thread is busy with has no thread yet; the room
\* for it has not been used up.
MainInv ==
    /\ mainPc = "accept" => cs = {} /\ count <= Cardinality(Stored)
    /\ mainPc # "accept" =>
         \E c \in Clients : cs = {c} /\ sock[c] = "accepted" /\ thread[c] = "none"
    /\ mainPc = "store" => count <= Cardinality(Stored)
    /\ mainPc = "create" => /\ count < Cardinality(Stored)
                            /\ \A c \in cs : cs_fds[count] = fd[c]

\* The array up to its end.  The entry at count is the new client's, or empty.
ArrayInv ==
    /\ \A k \in Slots : k < count => cs_fds[k] # NoFd
    /\ \A k \in Slots : k > count => cs_fds[k] = NoFd
    /\ mainPc # "create" => cs_fds[count] = NoFd

\* A thread's client is connected, its argument is an entry that is written no
\* more, and its loop stays within what has been stored.
ThreadInv ==
    \A c \in Clients :
        /\ Busy(c) => /\ sock[c] = "accepted" /\ slot[c] < count
                      /\ cs_fds[slot[c]] = fd[c]
        /\ sock[c] \in {"off", "pending"} => thread[c] = "none"
        /\ i[c] <= Cardinality(Stored)
        /\ thread[c] = "writing" => i[c] < Cardinality(Stored)

\* Who should hear the message has heard it or is still to come in the array.
HearInv ==
    \A c \in Clients : thread[c] \in {"testing", "writing"} =>
        \A t \in due[c] :
            /\ t \in Reached
            /\ Up(t) /\ t \notin got[c] =>
                 \E k \in Slots : i[c] <= k /\ k < count /\ cs_fds[k] = fd[t]

ChatInv == TypeOK /\ KernelInv /\ MainInv /\ ArrayInv /\ ThreadInv /\ HearInv

-------------------------------------------------------------------------------
(* What is stored *)

\* There is room in the array for all clients.
LEMMA StoredFits ==
  ASSUME ThreadChatAssumption
  PROVE  /\ IsFiniteSet(Stored) /\ Cardinality(Stored) \in Nat
         /\ Cardinality(Stored) < MaxClient
         /\ MaxClient \in Nat
<1>1. Stored \in SUBSET Clients
  BY DEF Stored, Reached
<1>2. IsFiniteSet(Stored) /\ Cardinality(Stored) <= Cardinality(Clients)
  BY <1>1, SocketsAssumption, FS_Subset
<1>3. Cardinality(Stored) \in Nat /\ Cardinality(Clients) \in Nat
  BY <1>2, SocketsAssumption, FS_CardinalityType
<1> QED
  BY <1>2, <1>3 DEF ThreadChatAssumption

\* Nothing is there when the server starts.
LEMMA ChatStarts ==
  ASSUME ThreadChatAssumption, Init
  PROVE  ChatInv
<1>1. KernelInv /\ KernelInit
  BY KernelStarts DEF Init
<1>2. MaxClient \in Nat /\ 0 \in Slots /\ Cardinality(Stored) \in Nat
  BY StoredFits DEF Slots
<1>3. TypeOK
  BY <1>1, <1>2 DEF Init, TypeOK, KernelInv
<1>4. \A c \in Clients : sock[c] = "off"
  BY <1>1 DEF KernelInit
<1>5. MainInv
  BY <1>2 DEF Init, MainInv
<1>6. ArrayInv
  BY <1>2 DEF Init, ArrayInv, Slots
<1>7. ThreadInv
  BY <1>2 DEF Init, ThreadInv, Busy
<1>8. HearInv
  BY DEF Init, HearInv
<1> QED
  BY <1>1, <1>3, <1>5, <1>6, <1>7, <1>8 DEF ChatInv

-------------------------------------------------------------------------------
(* The steps of the main thread *)

\* accept() gives the client a descriptor that nobody in the array has.
LEMMA AcceptStepKeeps ==
  ASSUME ChatInv, ThreadChatAssumption, Accept
  PROVE  ChatInv'
<1>1. PICK c \in Pending : AcceptFrom(c) /\ cs' = {c}
  BY DEF Accept
<1>2. /\ mainPc = "accept" /\ mainPc' = "store"
      /\ UNCHANGED <<cs_fds, count, thread, slot, i, due, got, killed>>
  BY DEF Accept, threads
<1>3. c \in Clients /\ sock[c] = "pending" /\ thread[c] = "none"
  BY <1>1 DEF Pending, ChatInv, ThreadInv
<1>4. KernelInv'
  BY <1>1, <1>3, AcceptKeeps DEF ChatInv
<1>5. /\ sock' = [sock EXCEPT ![c] = "accepted"] /\ UNCHANGED peer
      /\ \A d \in Clients : d # c => fd'[d] = fd[d] /\ sock'[d] = sock[d]
      /\ sock'[c] = "accepted"
  BY <1>1, <1>3 DEF AcceptFrom, ChatInv, KernelInv, KernelTypeOK
<1>6. c \notin Reached /\ Reached' = Reached \union {c}
  BY <1>3, <1>5 DEF Reached
<1>7. Stored' = Stored
  BY <1>1, <1>2, <1>6 DEF Stored
<1>8. TypeOK'
  BY <1>1, <1>2, <1>3, <1>4 DEF ChatInv, TypeOK, KernelInv
<1>9. MainInv'
  BY <1>1, <1>2, <1>3, <1>5, <1>7 DEF ChatInv, MainInv
<1>10. ArrayInv'
  BY <1>2 DEF ChatInv, ArrayInv
<1>11. ThreadInv'
  BY <1>2, <1>3, <1>5, <1>7 DEF ChatInv, ThreadInv, Busy
<1>12. HearInv'
  <2> SUFFICES ASSUME NEW d \in Clients, thread[d] \in {"testing", "writing"},
                      NEW t \in due[d]
               PROVE  /\ t \in Reached'
                      /\ Up(t)' /\ t \notin got[d] =>
                           \E k \in Slots : i[d] <= k /\ k < count /\ cs_fds[k] = fd'[t]
    BY <1>2 DEF HearInv
  <2>1. /\ t \in Reached
        /\ Up(t) /\ t \notin got[d] =>
             \E k \in Slots : i[d] <= k /\ k < count /\ cs_fds[k] = fd[t]
    BY DEF ChatInv, HearInv
  <2>2. t # c /\ t \in Clients
    BY <2>1, <1>6 DEF Reached
  <2>3. fd'[t] = fd[t] /\ Up(t)' = Up(t)
    BY <1>5, <2>2 DEF Up
  <2> QED
    BY <1>6, <2>1, <2>3
<1> QED
  BY <1>4, <1>8, <1>9, <1>10, <1>11, <1>12 DEF ChatInv

\* The descriptor is stored at count, which no thread's argument points to.
LEMMA StoreKeeps ==
  ASSUME ChatInv, ThreadChatAssumption, Store
  PROVE  ChatInv'
<1>1. /\ mainPc = "store" /\ mainPc' = "create"
      /\ UNCHANGED <<count, cs, thread, slot, i, due, got, killed, sock, peer, fd, inbox, outbox>>
  BY DEF Store, threads, kernel
<1>2. PICK c \in Clients : cs = {c} /\ sock[c] = "accepted" /\ thread[c] = "none"
  BY <1>1 DEF ChatInv, MainInv
<1>3. cs_fds' = [cs_fds EXCEPT ![count] = fd[c]]
  BY <1>2 DEF Store
<1>4. count \in Slots /\ cs_fds \in [Slots -> Fds \union {NoFd}] /\ count \in Nat
  BY StoredFits DEF ChatInv, TypeOK, Slots
<1>5. /\ cs_fds'[count] = fd[c]
      /\ \A k \in Slots : k # count => cs_fds'[k] = cs_fds[k]
  BY <1>3, <1>4
<1>6. KernelInv' /\ fd[c] \in Fds
  BY <1>1, <1>2 DEF ChatInv, KernelInv, KernelTypeOK
<1>7. Stored' = Stored \union {c} /\ c \notin Stored
  BY <1>1, <1>2 DEF Stored, Reached
<1>8. Cardinality(Stored') = Cardinality(Stored) + 1
  BY <1>7, StoredFits, FS_AddElement
<1>9. TypeOK'
  BY <1>1, <1>3, <1>4, <1>6 DEF ChatInv, TypeOK, KernelInv
<1>10. MainInv'
  <2>1. count < Cardinality(Stored')
    BY <1>1, <1>4, <1>8, StoredFits DEF ChatInv, MainInv
  <2> QED
    BY <1>1, <1>2, <1>5, <2>1 DEF MainInv
<1>11. ArrayInv'
  BY <1>1, <1>4, <1>5 DEF ChatInv, ArrayInv, Slots
<1>12. ThreadInv'
  <2>1. \A d \in Clients : Busy(d) => slot[d] < count /\ slot[d] \in Slots
    BY DEF ChatInv, ThreadInv, TypeOK
  <2>2. \A d \in Clients : Busy(d) => cs_fds'[slot[d]] = cs_fds[slot[d]]
    BY <1>4, <1>5, <2>1, StoredFits DEF Slots
  <2>3. \A d \in Clients : i[d] \in Nat
    BY StoredFits DEF ChatInv, TypeOK, Slots
  <2>4. \A d \in Clients : i[d] <= Cardinality(Stored) => i[d] < Cardinality(Stored')
    BY <1>8, <2>3, StoredFits
  <2> QED
    BY <1>1, <2>2, <2>4, <1>8, <2>3, StoredFits DEF ChatInv, ThreadInv, Busy
<1>13. HearInv'
  <2> SUFFICES ASSUME NEW d \in Clients, thread[d] \in {"testing", "writing"},
                      NEW t \in due[d]
               PROVE  /\ t \in Reached'
                      /\ Up(t)' /\ t \notin got[d] =>
                           \E k \in Slots : i[d] <= k /\ k < count /\ cs_fds'[k] = fd[t]
    BY <1>1 DEF HearInv
  <2>1. /\ t \in Reached
        /\ Up(t) /\ t \notin got[d] =>
             \E k \in Slots : i[d] <= k /\ k < count /\ cs_fds[k] = fd[t]
    BY DEF ChatInv, HearInv
  <2>2. \A k \in Slots : k < count => cs_fds'[k] = cs_fds[k]
    BY <1>4, <1>5 DEF Slots
  <2> QED
    BY <1>1, <2>1, <2>2 DEF Up, Reached
<1> QED
  BY <1>6, <1>9, <1>10, <1>11, <1>12, <1>13 DEF ChatInv

\* A thread is created for the client that was stored at count.
LEMMA CreateKeeps ==
  ASSUME ChatInv, ThreadChatAssumption, Create
  PROVE  ChatInv'
<1>1. /\ mainPc = "create" /\ mainPc' = "accept" /\ cs' = {} /\ count' = count + 1
      /\ UNCHANGED <<cs_fds, i, due, got, killed, sock, peer, fd, inbox, outbox>>
  BY DEF Create, CreateWith, kernel
<1>2. PICK c \in Clients : cs = {c} /\ sock[c] = "accepted" /\ thread[c] = "none"
  BY <1>1 DEF ChatInv, MainInv
<1>3. /\ thread' = [thread EXCEPT ![c] = "reading"]
      /\ slot' = [slot EXCEPT ![c] = count]
  BY <1>2 DEF Create, CreateWith
<1>4. /\ thread'[c] = "reading" /\ slot'[c] = count
      /\ \A d \in Clients : d # c => thread'[d] = thread[d] /\ slot'[d] = slot[d]
  BY <1>2, <1>3 DEF ChatInv, TypeOK
<1>5. count \in Nat /\ count < Cardinality(Stored) /\ Stored' = Stored
  BY <1>1, StoredFits DEF ChatInv, MainInv, TypeOK, Slots, Stored, Reached
<1>6. count + 1 \in Slots /\ count + 1 <= Cardinality(Stored)
  BY <1>5, StoredFits DEF Slots
<1>7. cs_fds[count] = fd[c] /\ fd[c] # NoFd
  BY <1>1, <1>2 DEF ChatInv, MainInv, KernelInv
<1>8. KernelInv'
  BY <1>1 DEF ChatInv, KernelInv, KernelTypeOK
<1>9. TypeOK'
  BY <1>1, <1>3, <1>6, <1>8 DEF ChatInv, TypeOK, KernelInv
<1>10. MainInv'
  BY <1>1, <1>5, <1>6 DEF MainInv
<1>11. ArrayInv'
  BY <1>1, <1>5, <1>6, <1>7, StoredFits DEF ChatInv, ArrayInv, Slots
<1>12. ThreadInv'
  <2>1. \A d \in Clients : slot[d] < count => slot[d] < count'
    BY <1>1, <1>5, StoredFits DEF ChatInv, TypeOK, Slots
  <2>2. count < count'
    BY <1>1, <1>5
  <2> QED
    BY <1>1, <1>2, <1>4, <1>5, <1>7, <2>1, <2>2 DEF ChatInv, ThreadInv, Busy
<1>13. HearInv'
  <2> SUFFICES ASSUME NEW d \in Clients, thread'[d] \in {"testing", "writing"},
                      NEW t \in due[d]
               PROVE  /\ t \in Reached'
                      /\ Up(t)' /\ t \notin got[d] =>
                           \E k \in Slots : i[d] <= k /\ k < count' /\ cs_fds[k] = fd[t]
    BY <1>1 DEF HearInv
  <2>1. thread[d] \in {"testing", "writing"}
    BY <1>4
  <2>2. /\ t \in Reached
        /\ Up(t) /\ t \notin got[d] =>
             \E k \in Slots : i[d] <= k /\ k < count /\ cs_fds[k] = fd[t]
    BY <2>1 DEF ChatInv, HearInv
  <2>3. \A k \in Slots : k < count => k < count'
    BY <1>1, <1>5 DEF Slots
  <2> QED
    BY <1>1, <2>2, <2>3 DEF Up, Reached
<1> QED
  BY <1>8, <1>9, <1>10, <1>11, <1>12, <1>13 DEF ChatInv

\* pthread_create fails: the entry at count is empty again.
LEMMA CreateFailsKeeps ==
  ASSUME ChatInv, ThreadChatAssumption, CreateFails
  PROVE  ChatInv'
<1>1. /\ mainPc = "create" /\ mainPc' = "accept" /\ cs' = {} /\ count' = count
      /\ cs_fds' = [cs_fds EXCEPT ![count] = NoFd]
      /\ UNCHANGED <<thread, slot, i, due, got, killed, sock, peer, fd, inbox, outbox>>
  BY DEF CreateFails, FailWith, threads, kernel
<1>2. count \in Slots /\ cs_fds \in [Slots -> Fds \union {NoFd}] /\ Stored' = Stored
  BY <1>1 DEF ChatInv, TypeOK, Stored, Reached
<1>3. /\ cs_fds'[count] = NoFd
      /\ \A k \in Slots : k # count => cs_fds'[k] = cs_fds[k]
      /\ \A k \in Slots : k < count => cs_fds'[k] = cs_fds[k]
  BY <1>1, <1>2, StoredFits DEF Slots
<1>4. KernelInv'
  BY <1>1 DEF ChatInv, KernelInv, KernelTypeOK
<1>5. TypeOK'
  BY <1>1, <1>2, <1>4 DEF ChatInv, TypeOK, KernelInv
<1>6. MainInv'
  BY <1>1, <1>2, StoredFits DEF ChatInv, MainInv, Slots
<1>7. ArrayInv'
  BY <1>1, <1>3 DEF ChatInv, ArrayInv
<1>8. ThreadInv'
  <2>1. \A d \in Clients : Busy(d) => cs_fds'[slot[d]] = cs_fds[slot[d]]
    BY <1>3 DEF ChatInv, ThreadInv, TypeOK
  <2> QED
    BY <1>1, <1>2, <2>1 DEF ChatInv, ThreadInv, Busy
<1>9. HearInv'
  BY <1>1, <1>3 DEF ChatInv, HearInv, Up, Reached
<1> QED
  BY <1>4, <1>5, <1>6, <1>7, <1>8, <1>9 DEF ChatInv

-------------------------------------------------------------------------------
(* The steps of a client's thread *)

\* A thread's argument leads to its own client.
LEMMA OwnClient ==
  ASSUME ChatInv, NEW c \in Clients, Busy(c)
  PROVE  Own(c) = fd[c] /\ Own(c) \in OpenFds /\ ClientOf(Own(c)) = c
<1>1. cs_fds[slot[c]] = fd[c] /\ fd[c] # NoFd
  BY DEF ChatInv, ThreadInv, KernelInv
<1>2. fd[c] \in OpenFds
  BY <1>1 DEF OpenFds
<1>3. ClientOf(fd[c]) = c
  BY <1>1, <1>2, OpenFdClient DEF ChatInv, KernelInv
<1> QED
  BY <1>1, <1>2, <1>3 DEF Own

\* What happens to the connections, and leaves those in the array what they
\* are, keeps the parts of the invariant that are about the array.
LEMMA ArrayKeeps ==
  ASSUME ChatInv, UNCHANGED <<cs_fds, count, mainPc, cs>>, fd' = fd,
         \A d \in Clients : thread[d] = "none" <=> thread'[d] = "none",
         \A d \in Clients : sock[d] \in {"accepted", "closed"} => sock'[d] = sock[d],
         \A d \in Clients : sock'[d] \in {"accepted", "closed"} => sock'[d] = sock[d]
  PROVE  MainInv' /\ ArrayInv' /\ Reached' = Reached /\ Stored' = Stored
<1>1. Reached' = Reached
  BY DEF Reached
<1>2. Stored' = Stored
  BY <1>1 DEF Stored
<1> QED
  BY <1>1, <1>2 DEF ChatInv, MainInv, ArrayInv

\* When the process is killed, nothing else changes.
LEMMA SameKeeps ==
  ASSUME ChatInv, UNCHANGED <<main, threads, kernel>>, killed' \in BOOLEAN
  PROVE  ChatInv'
<1>1. UNCHANGED <<cs_fds, count, mainPc, cs, thread, slot, i, due, got,
                  sock, peer, fd, inbox, outbox>>
  BY DEF main, threads, kernel
<1>2. KernelInv'
  BY <1>1 DEF ChatInv, KernelInv, KernelTypeOK
<1>3. MainInv' /\ ArrayInv' /\ Reached' = Reached /\ Stored' = Stored
  BY <1>1, ArrayKeeps
<1>4. TypeOK'
  BY <1>1, <1>2 DEF ChatInv, TypeOK, KernelInv
<1>5. ThreadInv'
  BY <1>1, <1>3 DEF ChatInv, ThreadInv, Busy
<1>6. HearInv'
  BY <1>1, <1>3 DEF ChatInv, HearInv, Up
<1> QED
  BY <1>2, <1>3, <1>4, <1>5, <1>6 DEF ChatInv

\* A message is read; the clients that should hear it are in the array.
LEMMA ReadKeeps ==
  ASSUME ChatInv, ThreadChatAssumption, NEW c \in Clients, Read(c)
  PROVE  ChatInv'
<1>1. /\ thread[c] = "reading" /\ RecvFrom(ClientOf(Own(c)))
      /\ thread' = [thread EXCEPT ![c] = "testing"]
      /\ i' = [i EXCEPT ![c] = 0]
      /\ due' = [due EXCEPT ![c] = Listed]
      /\ UNCHANGED <<cs_fds, count, mainPc, cs, slot, got, killed>>
  BY DEF Read, main
<1>2. /\ thread'[c] = "testing" /\ i'[c] = 0 /\ due'[c] = Listed
      /\ \A d \in Clients : d # c =>
           thread'[d] = thread[d] /\ i'[d] = i[d] /\ due'[d] = due[d]
  BY <1>1 DEF ChatInv, TypeOK
<1>3. ClientOf(Own(c)) = c
  BY <1>1, OwnClient DEF Busy
<1>4. KernelInv' /\ UNCHANGED <<sock, peer, fd>>
  BY <1>1, <1>3, TransferKeeps DEF RecvFrom, ChatInv
<1>5. MainInv' /\ ArrayInv' /\ Reached' = Reached /\ Stored' = Stored
  BY <1>1, <1>2, <1>4, ArrayKeeps
<1>6. TypeOK'
  <2>1. 0 \in Slots
    BY StoredFits DEF Slots
  <2>2. Listed \in SUBSET Clients
    BY DEF Listed
  <2> QED
    BY <1>1, <1>4, <2>1, <2>2 DEF ChatInv, TypeOK, KernelInv
<1>7. ThreadInv'
  BY <1>1, <1>2, <1>4, <1>5, StoredFits DEF ChatInv, ThreadInv, Busy
<1>8. HearInv'
  <2>1. ASSUME NEW t \in Listed
        PROVE  t \in Reached /\ \E k \in Slots : 0 <= k /\ k < count /\ cs_fds[k] = fd[t]
    <3>1. t \in Clients /\ Up(t)
      BY DEF Listed
    <3>2. PICK k \in 0 .. count-1 : cs_fds[k] = fd[t]
      BY DEF Listed
    <3>3. k \in Slots /\ 0 <= k /\ k < count
      BY StoredFits DEF ChatInv, TypeOK, Slots
    <3> QED
      BY <3>1, <3>2, <3>3 DEF Up, Reached
  <2> QED
    BY <1>1, <1>2, <1>4, <1>5, <2>1 DEF ChatInv, HearInv, Up
<1> QED
  BY <1>4, <1>5, <1>6, <1>7, <1>8 DEF ChatInv

\* The thread closes its own client, and no other.
LEMMA ReadEndKeeps ==
  ASSUME ChatInv, ThreadChatAssumption, NEW c \in Clients, ReadEnd(c)
  PROVE  ChatInv'
<1>1. /\ thread[c] = "reading"
      /\ UNCHANGED <<cs_fds, count, mainPc, cs, slot, i, due, got>>
  BY DEF ReadEnd, main
<1>2. ClientOf(Own(c)) = c
  BY <1>1, OwnClient DEF Busy
<1>3. CASE killed' = TRUE /\ UNCHANGED <<thread, kernel>>
  BY <1>1, <1>3, SameKeeps DEF main, threads
<1>4. CASE /\ Close(c) /\ UNCHANGED killed
           /\ thread' = [thread EXCEPT ![c] = "ended"]
  <2>1. KernelInv'
    BY <1>4, CloseKeeps DEF ChatInv
  <2>2. /\ sock'[c] = "closed" /\ sock[c] = "accepted"
        /\ \A d \in Clients : d # c =>
             sock'[d] = sock[d] /\ fd'[d] = fd[d] /\ peer'[d] = peer[d]
    BY <1>1, <1>4 DEF Close, ChatInv, KernelInv, KernelTypeOK, ThreadInv, Busy
  <2>3. /\ thread'[c] = "ended"
        /\ \A d \in Clients : d # c => thread'[d] = thread[d]
    BY <1>4 DEF ChatInv, TypeOK
  <2>4. Reached' = Reached
    BY <2>2 DEF Reached
  <2>5. Stored' = Stored
    BY <1>1, <2>4 DEF Stored
  <2>6. TypeOK'
    BY <1>1, <1>4, <2>1 DEF ChatInv, TypeOK, KernelInv
  <2>7. MainInv'
    BY <1>1, <2>2, <2>3, <2>5 DEF ChatInv, MainInv
  <2>8. ArrayInv'
    BY <1>1 DEF ChatInv, ArrayInv
  <2>9. ThreadInv'
    BY <1>1, <2>2, <2>3, <2>5 DEF ChatInv, ThreadInv, Busy
  <2>10. HearInv'
    <3>1. \A t \in Clients : Up(t)' => Up(t) /\ fd'[t] = fd[t]
      BY <2>2 DEF Up
    <3>2. \A d \in Clients : thread'[d] \in {"testing", "writing"} =>
                             thread[d] \in {"testing", "writing"}
      BY <2>3
    <3>3. \A t \in Reached : t \in Clients
      BY DEF Reached
    <3> QED
      BY <1>1, <2>4, <3>1, <3>2, <3>3 DEF ChatInv, HearInv
  <2> QED
    BY <2>1, <2>6, <2>7, <2>8, <2>9, <2>10 DEF ChatInv
<1> QED
  BY <1>2, <1>3, <1>4 DEF ReadEnd

\* The loop goes on only over entries that have been stored.
LEMMA TestKeeps ==
  ASSUME ChatInv, ThreadChatAssumption, NEW c \in Clients, Test(c)
  PROVE  ChatInv'
<1>1. /\ thread[c] = "testing" /\ cs_fds[i[c]] # NoFd
      /\ thread' = [thread EXCEPT ![c] = "writing"]
      /\ UNCHANGED <<cs_fds, count, mainPc, cs, slot, i, due, got, killed,
                     sock, peer, fd, inbox, outbox>>
  BY DEF Test, main, kernel
<1>2. /\ thread'[c] = "writing"
      /\ \A d \in Clients : d # c => thread'[d] = thread[d]
  BY <1>1 DEF ChatInv, TypeOK
<1>3. KernelInv'
  BY <1>1 DEF ChatInv, KernelInv, KernelTypeOK
<1>4. MainInv' /\ ArrayInv' /\ Reached' = Reached /\ Stored' = Stored
  BY <1>1, <1>2, ArrayKeeps
<1>5. TypeOK'
  BY <1>1, <1>3 DEF ChatInv, TypeOK, KernelInv
<1>6. i[c] < Cardinality(Stored)
  <2>1. i[c] \in Slots /\ count \in Slots
    BY DEF ChatInv, TypeOK
  <2>2. i[c] < count \/ (i[c] = count /\ mainPc = "create")
    BY <1>1, <2>1 DEF ChatInv, ArrayInv, Slots
  <2>3. count <= Cardinality(Stored) /\ (mainPc = "create" => count < Cardinality(Stored))
    BY <2>1, StoredFits DEF ChatInv, MainInv, TypeOK, Slots
  <2> QED
    BY <2>1, <2>2, <2>3, StoredFits DEF Slots
<1>7. ThreadInv'
  BY <1>1, <1>2, <1>4, <1>6 DEF ChatInv, ThreadInv, Busy
<1>8. HearInv'
  BY <1>1, <1>2, <1>4 DEF ChatInv, HearInv, Up
<1> QED
  BY <1>3, <1>4, <1>5, <1>7, <1>8 DEF ChatInv

\* The end of the array: the next message starts afresh.
LEMMA BroadcastDoneKeeps ==
  ASSUME ChatInv, ThreadChatAssumption, NEW c \in Clients, BroadcastDone(c)
  PROVE  ChatInv'
<1>1. /\ thread[c] = "testing"
      /\ thread' = [thread EXCEPT ![c] = "reading"]
      /\ i' = [i EXCEPT ![c] = 0]
      /\ due' = [due EXCEPT ![c] = {}] /\ got' = [got EXCEPT ![c] = {}]
      /\ UNCHANGED <<cs_fds, count, mainPc, cs, slot, killed, sock, peer, fd, inbox, outbox>>
  BY DEF BroadcastDone, main, kernel
<1>2. /\ thread'[c] = "reading" /\ i'[c] = 0
      /\ \A d \in Clients : d # c =>
           thread'[d] = thread[d] /\ i'[d] = i[d] /\ due'[d] = due[d] /\ got'[d] = got[d]
  BY <1>1 DEF ChatInv, TypeOK
<1>3. KernelInv'
  BY <1>1 DEF ChatInv, KernelInv, KernelTypeOK
<1>4. MainInv' /\ ArrayInv' /\ Reached' = Reached /\ Stored' = Stored
  BY <1>1, <1>2, ArrayKeeps
<1>5. TypeOK'
  <2>1. 0 \in Slots
    BY StoredFits DEF Slots
  <2> QED
    BY <1>1, <1>3, <2>1 DEF ChatInv, TypeOK, KernelInv
<1>6. ThreadInv'
  BY <1>1, <1>2, <1>4, StoredFits DEF ChatInv, ThreadInv, Busy
<1>7. HearInv'
  BY <1>1, <1>2, <1>4 DEF ChatInv, HearInv, Up
<1> QED
  BY <1>3, <1>4, <1>5, <1>6, <1>7 DEF ChatInv

\* Whoever an entry belongs to hears the message, or has left.
LEMMA WrittenKeeps ==
  ASSUME ChatInv, ThreadChatAssumption, NEW c \in Clients,
         thread[c] = "writing", Written(c),
         UNCHANGED <<main, slot, due, killed, sock, fd>>, KernelInv',
         \A t \in Clients : Up(t)' => Up(t),
         got' \in [Clients -> SUBSET Clients],
         \A d \in Clients : got[d] \subseteq got'[d],
         \A t \in Clients : Up(t) /\ cs_fds[i[c]] = fd[t] => t \in got'[c]
  PROVE  ChatInv'
<1>1. /\ thread' = [thread EXCEPT ![c] = "testing"]
      /\ i' = [i EXCEPT ![c] = @ + 1]
      /\ UNCHANGED <<cs_fds, count, mainPc, cs>>
  BY DEF Written, main
<1>2. /\ thread'[c] = "testing" /\ i'[c] = i[c] + 1
      /\ \A d \in Clients : d # c => thread'[d] = thread[d] /\ i'[d] = i[d]
  BY <1>1 DEF ChatInv, TypeOK
<1>3. MainInv' /\ ArrayInv' /\ Reached' = Reached /\ Stored' = Stored
  BY <1>1, <1>2, ArrayKeeps
<1>4. i[c] \in Nat /\ i[c] < Cardinality(Stored)
  BY StoredFits DEF ChatInv, TypeOK, ThreadInv, Slots
<1>5. i[c] + 1 \in Slots /\ i[c] + 1 <= Cardinality(Stored)
  BY <1>4, StoredFits DEF Slots
<1>6. TypeOK'
  BY <1>1, <1>5 DEF ChatInv, TypeOK, KernelInv
<1>7. ThreadInv'
  BY <1>1, <1>2, <1>3, <1>5 DEF ChatInv, ThreadInv, Busy
<1>8. HearInv'
  <2> SUFFICES ASSUME NEW d \in Clients, thread'[d] \in {"testing", "writing"},
                      NEW t \in due[d]
               PROVE  /\ t \in Reached
                      /\ Up(t)' /\ t \notin got'[d] =>
                           \E k \in Slots : i'[d] <= k /\ k < count /\ cs_fds[k] = fd[t]
    BY <1>1, <1>3 DEF HearInv
  <2>1. thread[d] \in {"testing", "writing"}
    BY <1>2
  <2>2. t \in Reached /\ t \in Clients
    BY <2>1 DEF ChatInv, HearInv, Reached
  <2>3. ASSUME Up(t)', t \notin got'[d]
        PROVE  \E k \in Slots : i'[d] <= k /\ k < count /\ cs_fds[k] = fd[t]
    <3>1. Up(t) /\ t \notin got[d]
      BY <2>2, <2>3
    <3>2. PICK k \in Slots : i[d] <= k /\ k < count /\ cs_fds[k] = fd[t]
      BY <2>1, <3>1 DEF ChatInv, HearInv
    <3>3. d = c => k # i[c]
      BY <2>2, <2>3, <3>1, <3>2
    <3>4. i'[d] <= k
      BY <1>2, <1>4, <3>2, <3>3 DEF Slots
    <3> QED
      BY <3>2, <3>4
  <2> QED
    BY <2>2, <2>3
<1> QED
  BY <1>3, <1>6, <1>7, <1>8 DEF ChatInv

LEMMA WriteKeeps ==
  ASSUME ChatInv, ThreadChatAssumption, NEW c \in Clients, Write(c)
  PROVE  ChatInv'
<1> DEFINE d == ClientOf(Target(c))
<1>1. /\ thread[c] = "writing" /\ Target(c) \in OpenFds /\ SendTo(d)
      /\ got' = [got EXCEPT ![c] = @ \union {d}]
      /\ Written(c) /\ UNCHANGED <<main, slot, due, killed>>
  BY DEF Write
<1>2. d \in Clients /\ fd[d] = Target(c)
  BY <1>1, OpenFdClient DEF ChatInv
<1>3. KernelInv'
  BY <1>1, <1>2, TransferKeeps DEF ChatInv
<1>4. UNCHANGED <<sock, fd>> /\ \A t \in Clients : Up(t)' => Up(t)
  BY <1>1, <1>2 DEF SendTo, Up, ChatInv, KernelInv, KernelTypeOK
<1>5. /\ got' \in [Clients -> SUBSET Clients]
      /\ \A e \in Clients : got[e] \subseteq got'[e]
      /\ d \in got'[c]
  BY <1>1, <1>2 DEF ChatInv, TypeOK
<1>6. \A t \in Clients : cs_fds[i[c]] = fd[t] => t = d
  BY <1>1, <1>2 DEF Target, ChatInv, KernelInv, OpenFds
<1> QED
  BY <1>1, <1>3, <1>4, <1>5, <1>6, WrittenKeeps

LEMMA WriteFailsKeeps ==
  ASSUME ChatInv, ThreadChatAssumption, NEW c \in Clients, WriteFails(c)
  PROVE  ChatInv'
<1>1. /\ thread[c] = "writing" /\ Written(c)
      /\ Target(c) \in OpenFds => Broken(ClientOf(Target(c)))
      /\ UNCHANGED <<main, slot, due, got, killed, sock, peer, fd, inbox, outbox>>
  BY DEF WriteFails, kernel
<1>2. KernelInv' /\ \A t \in Clients : Up(t)' => Up(t)
  BY <1>1 DEF ChatInv, KernelInv, KernelTypeOK, Up
<1>3. \A t \in Clients : ~ (Up(t) /\ cs_fds[i[c]] = fd[t])
  <2> SUFFICES ASSUME NEW t \in Clients, Up(t), Target(c) = fd[t]
               PROVE  FALSE
    BY DEF Target
  <2>1. fd[t] # NoFd /\ fd[t] \in OpenFds
    BY DEF Up, ChatInv, KernelInv, OpenFds
  <2>2. ClientOf(fd[t]) = t
    BY <2>1, OpenFdClient DEF ChatInv, KernelInv
  <2> QED
    BY <1>1, <2>1, <2>2 DEF Broken, Up
<1>4. got' \in [Clients -> SUBSET Clients] /\ \A d \in Clients : got[d] \subseteq got'[d]
  BY <1>1 DEF ChatInv, TypeOK
<1> QED
  BY <1>1, <1>2, <1>3, <1>4, WrittenKeeps

\* A client that connects, types, reads or leaves.
LEMMA ClientStepKeeps ==
  ASSUME ChatInv, ThreadChatAssumption, NEW c \in Clients, Client(c)
  PROVE  ChatInv'
<1>1. /\ UNCHANGED <<cs_fds, count, mainPc, cs, thread, slot, i, due, got, killed>>
      /\ Connect(c) \/ ClientStep(c)
  BY DEF Client, server, main, threads
<1>2. KernelInv'
  BY <1>1, ClientKeeps DEF ChatInv
<1>3. /\ fd' = fd
      /\ \A d \in Clients : sock'[d] = sock[d] \/ (sock[d] = "off" /\ sock'[d] = "pending")
      /\ \A d \in Clients : peer'[d] = "up" => peer[d] = "up"
  <2>1. CASE Connect(c)
    BY <2>1 DEF Connect, ChatInv, KernelInv, KernelTypeOK
  <2>2. CASE ClientStep(c)
    BY <2>2 DEF ClientStep, ClientSend, ClientRead, HangUp, ResetArrives, Connected,
                ChatInv, KernelInv, KernelTypeOK
  <2> QED
    BY <1>1, <2>1, <2>2
<1>4. MainInv' /\ ArrayInv' /\ Reached' = Reached /\ Stored' = Stored
  BY <1>1, <1>3, ArrayKeeps
<1>5. TypeOK'
  BY <1>1, <1>2 DEF ChatInv, TypeOK, KernelInv
<1>6. ThreadInv'
  BY <1>1, <1>3, <1>4 DEF ChatInv, ThreadInv, Busy
<1>7. HearInv'
  <2>1. \A t \in Reached : Up(t)' => Up(t)
    BY <1>3 DEF Up, Reached
  <2> QED
    BY <1>1, <1>3, <1>4, <2>1 DEF ChatInv, HearInv
<1> QED
  BY <1>2, <1>4, <1>5, <1>6, <1>7 DEF ChatInv

-------------------------------------------------------------------------------
(* The theorems *)

\* The array, the threads and the connections agree in every reachable state.
THEOREM ChatCorrect ==
  ASSUME ThreadChatAssumption
  PROVE  Spec => []ChatInv
<1>1. Init => ChatInv
  BY ChatStarts
<1>2. ChatInv /\ [Next]_vars => ChatInv'
  <2> SUFFICES ASSUME ChatInv, [Next]_vars
               PROVE  ChatInv'
    OBVIOUS
  <2>1. CASE Main
    BY <2>1, AcceptStepKeeps, StoreKeeps, CreateKeeps, CreateFailsKeeps DEF Main
  <2>2. ASSUME NEW c \in Clients, Thread(c)
        PROVE  ChatInv'
    <3>1. CASE KilledByPipe(c) \/ Overrun(c)
      BY <3>1, SameKeeps DEF KilledByPipe, Overrun
    <3> QED
      BY <2>2, <3>1, ReadKeeps, ReadEndKeeps, TestKeeps, BroadcastDoneKeeps, WriteKeeps,
         WriteFailsKeeps DEF Thread
  <2>3. ASSUME NEW c \in Clients, Client(c)
        PROVE  ChatInv'
    BY <2>3, ClientStepKeeps
  <2>4. CASE UNCHANGED vars
    BY <2>4, SameKeeps DEF vars, server, ChatInv, TypeOK
  <2> QED
    BY <2>1, <2>2, <2>3, <2>4 DEF Next
<1> QED
  BY <1>1, <1>2, PTL DEF Spec

\* Every variable keeps its type; count and the index of every loop stay within
\* cs_fds, which has room for more than all clients.
THEOREM TypeCorrect ==
  ASSUME ThreadChatAssumption
  PROVE  Spec => []TypeOK
<1>1. ChatInv => TypeOK
  BY DEF ChatInv
<1> QED
  BY <1>1, ChatCorrect, PTL

\* The pointer into cs_fds that a thread was given leads to its own client's
\* descriptor for as long as the thread runs (client_thread, *c_fd).
THEOREM SlotCorrect ==
  ASSUME ThreadChatAssumption
  PROVE  Spec => []OwnSlot
<1>1. ChatInv => OwnSlot
  BY DEF ChatInv, ThreadInv, Busy, OwnSlot, Own
<1> QED
  BY <1>1, ChatCorrect, PTL

\* A message that has been sent round was heard by everyone who was in the
\* array when it was read and is still there.
THEOREM HearCorrect ==
  ASSUME ThreadChatAssumption
  PROVE  Spec => AllHear
<1> DEFINE Heard == \A c \in Clients :
                      thread[c] = "testing" /\ thread'[c] = "reading" =>
                          \A t \in due[c] : Up(t) => t \in got[c]
<1>1. ChatInv /\ [Next]_vars => [Heard]_vars
  <2> SUFFICES ASSUME ChatInv, Next, NEW c \in Clients,
                      thread[c] = "testing", thread'[c] = "reading",
                      NEW t \in due[c], Up(t)
               PROVE  t \in got[c]
    OBVIOUS
  <2>1. BroadcastDone(c)
    <3>1. thread \in [Clients -> {"none", "reading", "testing", "writing", "ended"}]
      BY DEF ChatInv, TypeOK
    <3>2. ~ Main
      <4>1. CASE Create
        <5>1. PICK d \in Clients : cs = {d} /\ thread[d] = "none"
          BY <4>1 DEF Create, CreateWith, ChatInv, MainInv
        <5>2. thread' = [thread EXCEPT ![d] = "reading"] /\ d # c
          BY <4>1, <5>1 DEF Create, CreateWith
        <5> QED
          BY <3>1, <5>2
      <4> QED
        BY <4>1 DEF Main, Accept, Store, CreateFails, FailWith, threads
    <3>3. \A d \in Clients : Thread(d) => BroadcastDone(c)
      BY <3>1 DEF Thread, Overrun, Read, ReadEnd, Test, BroadcastDone, Write, WriteFails,
                  KilledByPipe, Written, threads, kernel
    <3>4. \A d \in Clients : ~ Client(d)
      BY DEF Client, server, threads
    <3> QED
      BY <3>2, <3>3, <3>4 DEF Next
  <2>2. \A k \in Slots : i[c] <= k /\ k < count => cs_fds[i[c]] # NoFd
    BY DEF ChatInv, ArrayInv, TypeOK, Slots
  <2> QED
    BY <2>1, <2>2 DEF BroadcastDone, ChatInv, HearInv
<1> QED
  BY <1>1, ChatCorrect, PTL DEF Spec, AllHear
===============================================================================
