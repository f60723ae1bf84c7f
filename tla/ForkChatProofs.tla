---------------------------- MODULE ForkChatProofs ----------------------------
(***************************************************************************)
(* Theorems about ForkChat, for every set of clients, every MAX_CLIENT and *)
(* every number of restarts.                                               *)
(***************************************************************************)
EXTENDS ForkChat, FiniteSetTheorems, TLAPS

-------------------------------------------------------------------------------
(* The inductive invariant *)

\* The slots that the parent has filled since it started.
Filled == 0 .. count-1

\* The parent never closes a client's descriptor, so it gets the numbers 4, 5,
\* ... one after the other, and the k-th slot holds 4+k or is empty, in what an
\* earlier server left there too.  Nobody writes the last slot.
ListInv ==
    /\ shm[MaxClient-1] = 0
    /\ \A k \in Slots : shm[k] \in {0, 4+k}
    /\ \A k \in Filled : shm[k] = 4+k /\ owner[k] \in Clients

NothingFrom(n) == \A f \in Fds : f >= n => parentFd[f] = NoClient

\* What the parent has open is what it has listed, until the list is full.
ParentInv ==
    /\ mainPc = "dead" => parentFd = NothingOpen
    /\ mainPc # "dead" => \A k \in Filled : parentFd[4+k] = owner[k]
    /\ mainPc = "store" =>
          /\ count < MaxClient-1
          /\ 4+count \in Fds /\ parentFd[4+count] = cs
          /\ NothingFrom(5+count)
    /\ mainPc \notin {"store", "dead"} /\ count < MaxClient-1 => NothingFrom(4+count)
    /\ mainPc \in {"store", "terminate", "fork"} =>
          /\ cs \in Clients \ backlog
          /\ child[cs] = "none" /\ client[cs] # "off"

\* A client is accepted once, and has a child after that only.
KnownInv ==
    /\ \A f, g \in Fds : parentFd[f] = parentFd[g] /\ parentFd[f] # NoClient => f = g
    /\ \A f \in Fds : parentFd[f] # NoClient =>
          client[parentFd[f]] # "off" /\ parentFd[f] \notin backlog
    /\ \A c \in Clients : client[c] = "off" => child[c] = "none" /\ c \notin backlog
    /\ \A c \in backlog : child[c] = "none"

\* What a child has open it has from the parent; as far as the list can name
\* it, it is in the list, once, and means the client that it was listed for.
ChildInv ==
    \A c \in Clients, f \in Fds : Alive(c) /\ childFd[c][f] # NoClient =>
        /\ mainPc # "dead" => parentFd[f] = childFd[c][f]
        /\ f < MaxClient+3 => f < 4+count /\ childFd[c][f] = owner[f-4]
        /\ \A k \in Filled : owner[k] = childFd[c][f] => f = 4+k

\* A child writes only at slots whose entry it has found not to be 0.  Who should
\* hear its message is in the list, and has heard it once the child is past its
\* slot.
HearInv ==
    \A c \in Clients :
        /\ child[c] = "writing" => idx[c] < MaxClient-1
        /\ child[c] \in {"sending", "writing"} => \A t \in due[c] :
              /\ client[t] # "off"
              /\ \E k \in Filled : owner[k] = t
              /\ \A k \in Filled :
                    owner[k] = t /\ k < idx[c] /\ t \in Inherited(c) /\ client[t] = "up"
                        => t \in got[c]

ChatInv == TypeOK /\ ListInv /\ ParentInv /\ KnownInv /\ ChildInv /\ HearInv

-------------------------------------------------------------------------------
(* Descriptors *)

\* A set of natural numbers that is not empty has a smallest element.
LEMMA LeastOf ==
  ASSUME NEW S \in SUBSET Nat, S # {}
  PROVE  \E m \in S : \A n \in S : m <= n
<1>1. PICK m \in S : \A n \in S : <<n, m>> \notin OpToRel(<, Nat)
  BY WFMin, NatLessThanWellFounded, Zenon
<1>2. \A n \in S : ~(n < m)
  BY <1>1, Zenon DEF OpToRel
<1>3. \A n \in S : m <= n
  BY <1>2
<1> QED
  BY <1>3

\* The filled slots are slots, and the numbers in them are descriptors.
LEMMA FilledSlots ==
  ASSUME ChatInv
  PROVE  /\ MaxClient \in Nat /\ MaxClient > 0 /\ count \in Nat /\ count < MaxClient
         /\ Cardinality(Clients) \in Nat /\ Fds \subseteq Nat
         /\ \A k \in Filled : k \in Slots /\ k \in Nat /\ 4+k \in Fds
<1>1. MaxClient \in Nat /\ MaxClient > 0 /\ count \in Nat /\ count < MaxClient
  BY ChatAssumption DEF ChatInv, TypeOK, Slots
<1>2. Cardinality(Clients) \in Nat
  BY ChatAssumption, FS_CardinalityType
<1>3. Fds \subseteq Nat
  BY <1>2 DEF Fds
<1>4. \A k \in Filled : k \in Slots /\ k \in Nat
  BY <1>1 DEF Filled, Slots
<1>5. \A k \in Filled : shm[k] \in Fds \union {0} /\ shm[k] = 4+k /\ 4+k # 0
  BY <1>4 DEF ChatInv, ListInv, TypeOK
<1> QED
  BY <1>1, <1>2, <1>3, <1>4, <1>5

\* While a client waits to be accepted a number is free for it.
LEMMA NewFdFree ==
  ASSUME ChatInv, NEW c \in backlog
  PROVE  /\ NewFd \in Fds /\ parentFd[NewFd] = NoClient
         /\ \A g \in Fds : parentFd[g] = NoClient => NewFd <= g
<1> DEFINE Free == {f \in Fds : parentFd[f] = NoClient}
<1>1. c \in Clients /\ \A f \in Fds : parentFd[f] \in Clients \union {NoClient} /\ parentFd[f] # c
  BY ChatAssumption DEF ChatInv, TypeOK, KnownInv, Meaning
<1>2. /\ Cardinality(Clients) \in Nat
      /\ IsFiniteSet(Fds) /\ Cardinality(Fds) = MaxClient + Cardinality(Clients)
  <2> DEFINE top == 3 + MaxClient + Cardinality(Clients)
  <2>1. Cardinality(Clients) \in Nat /\ MaxClient \in Nat
    BY ChatAssumption, FS_CardinalityType
  <2>2. top \in Int /\ 4 <= top + 1 /\ top - 4 + 1 = MaxClient + Cardinality(Clients)
    BY <2>1
  <2> HIDE DEF top
  <2>3. \A b \in Int : /\ IsFiniteSet(4 .. b)
                       /\ Cardinality(4 .. b) = IF 4 > b THEN 0 ELSE b - 4 + 1
    BY FS_Interval
  <2>4. /\ IsFiniteSet(4 .. top)
        /\ Cardinality(4 .. top) = IF 4 > top THEN 0 ELSE top - 4 + 1
    BY <2>2, <2>3
  <2>5. Cardinality(4 .. top) = MaxClient + Cardinality(Clients)
    <3>1. CASE 4 > top
      BY <2>1, <2>2, <2>4, <3>1
    <3>2. CASE ~(4 > top)
      BY <2>2, <2>4, <3>2
    <3> QED
      BY <3>1, <3>2
  <2> QED
    BY <2>1, <2>4, <2>5 DEF Fds, top
<1>3. Free # {}
  <2> SUFFICES ASSUME Free = {}
               PROVE  FALSE
    OBVIOUS
  <2> DEFINE Others == Clients \ {c}
  <2>1. parentFd \in Injection(Fds, Others)
    <3>1. \A f \in Fds : parentFd[f] \in Others
      BY <1>1
    <3>2. parentFd \in [Fds -> Others]
      BY <3>1 DEF ChatInv, TypeOK, Meaning
    <3> QED
      BY <3>2 DEF Injection, IsInjective, ChatInv, KnownInv
  <2>2. IsFiniteSet(Others) /\ Cardinality(Others) = Cardinality(Clients) - 1
    BY <1>1, ChatAssumption, FS_RemoveElement
  <2>3. Cardinality(Fds) <= Cardinality(Others)
    BY <2>1, <2>2, FS_Injection
  <2> QED
    BY <1>2, <2>2, <2>3, ChatAssumption
<1>4. Free \in SUBSET Nat
  BY FilledSlots
<1>5. \E m \in Free : \A f \in Free : m <= f
  BY <1>3, <1>4, LeastOf
<1> QED
  BY <1>5 DEF NewFd

\* The parent finds the descriptor of the client that it is accepting.
LEMMA StoredFd ==
  ASSUME ChatInv, mainPc = "store"
  PROVE  /\ 4+count \in Fds /\ FdOf(cs) = 4+count /\ parentFd[4+count] = cs
         /\ cs \in Clients /\ cs # NoClient
         /\ \A f \in Fds : parentFd[f] = cs => f = 4+count
         /\ \A k \in Filled : owner[k] # cs
<1>1. 4+count \in Fds /\ parentFd[4+count] = cs /\ cs \in Clients /\ cs # NoClient
  BY ChatAssumption DEF ChatInv, ParentInv
<1>2. \A f \in Fds : parentFd[f] = cs => f = 4+count
  BY <1>1 DEF ChatInv, KnownInv
<1>3. FdOf(cs) = 4+count
  BY <1>1, <1>2 DEF FdOf
<1>4. \A k \in Filled : owner[k] # cs
  <2> SUFFICES ASSUME NEW k \in Filled, owner[k] = cs
               PROVE  FALSE
    OBVIOUS
  <2>1. parentFd[4+k] = cs /\ 4+k \in Fds
    BY FilledSlots DEF ChatInv, ParentInv
  <2>2. 4+k = 4+count
    BY <1>2, <2>1
  <2> QED
    BY <2>2, FilledSlots DEF Filled
<1> QED
  BY <1>1, <1>2, <1>3, <1>4

-------------------------------------------------------------------------------
(* The parent's steps *)

LEMMA AcceptKeeps ==
  ASSUME ChatInv, Accept
  PROVE  ChatInv'
<1> USE FilledSlots
<1>1. PICK c \in backlog : cs' = c /\ backlog' = backlog \ {c}
                           /\ parentFd' = [parentFd EXCEPT ![NewFd] = c]
  BY DEF Accept, AcceptUpTo
<1>2. /\ mainPc = "accept" /\ mainPc' = IF count = MaxClient-1 THEN "fork" ELSE "store"
      /\ UNCHANGED <<shm, owner, count, restarts, child, childFd, idx, due, got, client, inbox>>
  BY DEF Accept, AcceptUpTo, listVars, childVars, clientVars
<1>3. /\ NewFd \in Fds /\ parentFd[NewFd] = NoClient
      /\ \A g \in Fds : parentFd[g] = NoClient => NewFd <= g
  BY NewFdFree
<1>4. c \in Clients /\ c # NoClient
  BY ChatAssumption DEF ChatInv, TypeOK
<1>5. \A f \in Fds : parentFd'[f] = IF f = NewFd THEN c ELSE parentFd[f]
  BY <1>1, <1>3 DEF ChatInv, TypeOK, Meaning
<1>6. \A k \in Filled : 4+k # NewFd
  BY <1>2, <1>3, <1>4, ChatAssumption DEF ChatInv, ParentInv, ListInv
<1>7. ASSUME count < MaxClient-1
      PROVE  NewFd = 4+count
  <2>1. NewFd >= 4+count
    BY <1>3, <1>6 DEF Filled, Fds
  <2>2. 4+count \in Fds
    BY <1>3, <2>1 DEF Fds
  <2>3. parentFd[4+count] = NoClient
    BY <1>2, <1>7, <2>2 DEF ChatInv, ParentInv, NothingFrom
  <2>4. NewFd <= 4+count
    BY <1>3, <2>2, <2>3
  <2> QED
    BY <1>3, <2>1, <2>4
<1>8. TypeOK'
  BY <1>1, <1>2, <1>3, <1>4 DEF ChatInv, TypeOK, Meaning
<1>9. ListInv'
  BY <1>2 DEF ChatInv, ListInv, Filled
<1>10. ParentInv'
  BY <1>1, <1>2, <1>3, <1>4, <1>5, <1>6, <1>7
     DEF ChatInv, ParentInv, NothingFrom, Filled, KnownInv
<1>11. KnownInv'
  BY <1>1, <1>2, <1>4, <1>5 DEF ChatInv, KnownInv
<1>12. ChildInv'
  BY <1>2, <1>3, <1>5 DEF ChatInv, ChildInv, Alive, Filled
<1>13. HearInv'
  BY <1>2 DEF ChatInv, HearInv, Inherited, Filled
<1> QED
  BY <1>8, <1>9, <1>10, <1>11, <1>12, <1>13 DEF ChatInv

LEMMA AcceptFailsKeeps ==
  ASSUME ChatInv, AcceptFails
  PROVE  ChatInv'
<1>1. PICK c \in backlog : /\ backlog' = backlog \ {c}
                           /\ client' = [client EXCEPT ![c] = "reset"]
                           /\ inbox' = [inbox EXCEPT ![c] = FALSE]
  BY DEF AcceptFails
<1>2. UNCHANGED <<shm, owner, count, mainPc, cs, parentFd, restarts, child, childFd, idx, due, got>>
  BY DEF AcceptFails, listVars, childVars
<1>3. c \in Clients
  BY DEF ChatInv, TypeOK
<1>4. TypeOK'
  BY <1>1, <1>2, <1>3 DEF ChatInv, TypeOK
<1>5. ListInv'
  BY <1>2 DEF ChatInv, ListInv, Filled
<1>6. ParentInv'
  BY <1>1, <1>2, <1>3 DEF ChatInv, ParentInv, NothingFrom, Filled, TypeOK
<1>7. KnownInv'
  BY <1>1, <1>2, <1>3 DEF ChatInv, KnownInv, TypeOK
<1>8. ChildInv'
  BY <1>2 DEF ChatInv, ChildInv, Alive, Filled
<1>9. HearInv'
  BY <1>1, <1>2, <1>3 DEF ChatInv, HearInv, Inherited, Filled, TypeOK
<1> QED
  BY <1>4, <1>5, <1>6, <1>7, <1>8, <1>9 DEF ChatInv

LEMMA StoreKeeps ==
  ASSUME ChatInv, Store
  PROVE  ChatInv'
<1> USE FilledSlots, StoredFd
<1>1. /\ mainPc = "store" /\ mainPc' = "terminate"
      /\ shm' = [shm EXCEPT ![count] = 4+count]
      /\ owner' = [owner EXCEPT ![count] = cs]
      /\ count' = count + 1
      /\ UNCHANGED <<cs, backlog, parentFd, restarts, child, childFd, idx, due, got, client, inbox>>
  BY DEF Store, childVars, clientVars
<1>2. count < MaxClient-1 /\ count \in Slots
  BY <1>1 DEF ChatInv, ParentInv, Slots
<1>3. TypeOK'
  BY <1>1, <1>2 DEF ChatInv, TypeOK, Slots
<1>4. Filled' = Filled \union {count} /\ count \notin Filled
  BY <1>1 DEF Filled
<1>5. \A k \in Filled : shm'[k] = shm[k] /\ owner'[k] = owner[k]
  BY <1>1, <1>4 DEF ChatInv, TypeOK
<1>6. shm'[count] = 4+count /\ owner'[count] = cs
  BY <1>1, <1>2 DEF ChatInv, TypeOK
<1>7. ListInv'
  BY <1>1, <1>2, <1>4, <1>5, <1>6 DEF ChatInv, ListInv, TypeOK
<1>8. ParentInv'
  BY <1>1, <1>2, <1>4, <1>5, <1>6 DEF ChatInv, ParentInv, NothingFrom
<1>9. KnownInv'
  BY <1>1 DEF ChatInv, KnownInv
<1>10. ChildInv'
  BY <1>1, <1>2, <1>4, <1>5, <1>6 DEF ChatInv, ChildInv, Alive, Filled
<1>11. HearInv'
  BY <1>1, <1>4, <1>5, <1>6 DEF ChatInv, HearInv, Inherited
<1> QED
  BY <1>3, <1>7, <1>8, <1>9, <1>10, <1>11 DEF ChatInv

LEMMA TerminateKeeps ==
  ASSUME ChatInv, Terminate
  PROVE  ChatInv'
<1> USE FilledSlots
<1>1. /\ mainPc = "terminate" /\ mainPc' = "fork"
      /\ shm' = [shm EXCEPT ![count] = 0]
      /\ UNCHANGED <<owner, count, cs, backlog, parentFd, restarts, child, childFd, idx, due,
                     got, client, inbox>>
  BY DEF Terminate, TerminateAt, childVars, clientVars
<1>2. count \in Slots /\ count \notin Filled /\ Filled' = Filled
  BY <1>1 DEF Filled, Slots
<1>3. \A k \in Slots : shm'[k] = IF k = count THEN 0 ELSE shm[k]
  BY <1>1, <1>2 DEF ChatInv, TypeOK
<1>4. TypeOK'
  BY <1>1, <1>2 DEF ChatInv, TypeOK
<1>5. ListInv'
  BY <1>1, <1>2, <1>3 DEF ChatInv, ListInv, Slots
<1>6. ParentInv'
  BY <1>1, <1>2 DEF ChatInv, ParentInv, NothingFrom
<1>7. KnownInv' /\ ChildInv' /\ HearInv'
  BY <1>1, <1>2 DEF ChatInv, KnownInv, ChildInv, Alive, HearInv, Inherited
<1> QED
  BY <1>4, <1>5, <1>6, <1>7 DEF ChatInv

\* The child's descriptors are the parent's; it has not begun to send.
LEMMA ForkKeeps ==
  ASSUME ChatInv, Fork
  PROVE  ChatInv'
<1> USE FilledSlots
<1>1. /\ mainPc = "fork" /\ mainPc' = "accept" /\ cs' = NoClient
      /\ child' = [child EXCEPT ![cs] = "reading"]
      /\ childFd' = [childFd EXCEPT ![cs] = parentFd]
      /\ UNCHANGED <<shm, owner, count, backlog, parentFd, restarts, idx, due, got, client, inbox>>
  BY DEF Fork, ForkWith, listVars, clientVars
<1>2. cs \in Clients \ backlog /\ child[cs] = "none" /\ client[cs] # "off"
  BY <1>1 DEF ChatInv, ParentInv
<1>3. \A c \in Clients : /\ child'[c] = IF c = cs THEN "reading" ELSE child[c]
                         /\ childFd'[c] = IF c = cs THEN parentFd ELSE childFd[c]
  BY <1>1 DEF ChatInv, TypeOK
<1>4. TypeOK'
  BY <1>1, <1>2 DEF ChatInv, TypeOK
<1>5. ListInv'
  BY <1>1 DEF ChatInv, ListInv, Filled
<1>6. ParentInv'
  BY <1>1 DEF ChatInv, ParentInv, NothingFrom, Filled
<1>7. KnownInv'
  BY <1>1, <1>2, <1>3 DEF ChatInv, KnownInv, TypeOK
<1>8. \A f \in Fds : parentFd[f] # NoClient =>
          /\ f < MaxClient+3 => f < 4+count /\ parentFd[f] = owner[f-4]
          /\ \A k \in Filled : owner[k] = parentFd[f] => f = 4+k
  <2> SUFFICES ASSUME NEW f \in Fds, parentFd[f] # NoClient
               PROVE  /\ f < MaxClient+3 => f < 4+count /\ parentFd[f] = owner[f-4]
                      /\ \A k \in Filled : owner[k] = parentFd[f] => f = 4+k
    OBVIOUS
  <2>1. f < MaxClient+3 => f < 4+count
    BY <1>1 DEF ChatInv, ParentInv, NothingFrom
  <2>2. f < 4+count => f-4 \in Filled /\ parentFd[f] = owner[f-4]
    BY <1>1 DEF ChatInv, ParentInv, Filled, Fds
  <2>3. \A k \in Filled : owner[k] = parentFd[f] => f = 4+k
    BY <1>1 DEF ChatInv, ParentInv, KnownInv
  <2> QED
    BY <2>1, <2>2, <2>3
<1>9. ChildInv'
  BY <1>1, <1>3, <1>8 DEF ChatInv, ChildInv, Alive, Filled
<1>10. HearInv'
  BY <1>1, <1>3 DEF ChatInv, HearInv, Inherited, Filled
<1> QED
  BY <1>4, <1>5, <1>6, <1>7, <1>9, <1>10 DEF ChatInv

LEMMA ForkFailsKeeps ==
  ASSUME ChatInv, ForkFails
  PROVE  ChatInv'
<1>1. /\ mainPc = "fork" /\ mainPc' = "accept" /\ cs' = NoClient
      /\ UNCHANGED <<shm, owner, count, backlog, parentFd, restarts, child, childFd, idx, due,
                     got, client, inbox>>
  BY DEF ForkFails, listVars, childVars, clientVars
<1>2. TypeOK'
  BY <1>1 DEF ChatInv, TypeOK
<1>3. ListInv' /\ ParentInv' /\ KnownInv'
  BY <1>1 DEF ChatInv, ListInv, ParentInv, NothingFrom, KnownInv, Filled
<1>4. ChildInv' /\ HearInv'
  BY <1>1 DEF ChatInv, ChildInv, Alive, HearInv, Inherited, Filled
<1> QED
  BY <1>2, <1>3, <1>4 DEF ChatInv

LEMMA ParentDiesKeeps ==
  ASSUME ChatInv, ParentDies
  PROVE  ChatInv'
<1>1. /\ mainPc' = "dead" /\ cs' = NoClient /\ backlog' = {} /\ parentFd' = NothingOpen
      /\ client' = [c \in Clients |-> IF c \in backlog THEN "reset" ELSE client[c]]
      /\ UNCHANGED <<shm, owner, count, restarts, child, childFd, idx, due, got, inbox>>
  BY DEF ParentDies, listVars, childVars
<1>2. TypeOK'
  BY <1>1 DEF ChatInv, TypeOK, Meaning, NothingOpen
<1>3. ListInv'
  BY <1>1 DEF ChatInv, ListInv, Filled
<1>4. ParentInv'
  BY <1>1 DEF ChatInv, ParentInv
<1>5. KnownInv'
  BY <1>1 DEF ChatInv, KnownInv, NothingOpen
<1>6. ChildInv'
  BY <1>1 DEF ChatInv, ChildInv, Alive, Filled
<1>7. HearInv'
  <2>1. \A t \in Clients : /\ client[t] # "off" => client'[t] # "off"
                           /\ client'[t] = "up" => client[t] = "up"
    BY <1>1
  <2>2. \A c \in Clients : due[c] \subseteq Clients
    BY DEF ChatInv, TypeOK
  <2> QED
    BY <1>1, <2>1, <2>2 DEF ChatInv, HearInv, Inherited, Filled
<1> QED
  BY <1>2, <1>3, <1>4, <1>5, <1>6, <1>7 DEF ChatInv

\* The list is taken to be empty, and no child is left that reads it.
LEMMA RestartKeeps ==
  ASSUME ChatInv, Restart
  PROVE  ChatInv'
<1> USE FilledSlots
<1>1. /\ mainPc = "dead" /\ mainPc' = "accept" /\ count' = 0
      /\ restarts' = restarts + 1 /\ restarts < MaxRestarts
      /\ \A c \in Clients : ~Alive(c)
      /\ UNCHANGED <<shm, owner, cs, backlog, parentFd, child, childFd, idx, due, got, client, inbox>>
  BY DEF Restart, childVars, clientVars
<1>2. Filled' = {}
  BY <1>1 DEF Filled
<1>3. TypeOK'
  BY <1>1, ChatAssumption DEF ChatInv, TypeOK, Slots
<1>4. ListInv'
  BY <1>1, <1>2 DEF ChatInv, ListInv
<1>5. ParentInv'
  BY <1>1, <1>2 DEF ChatInv, ParentInv, NothingFrom, NothingOpen
<1>6. KnownInv'
  BY <1>1 DEF ChatInv, KnownInv
<1>7. ChildInv' /\ HearInv'
  BY <1>1 DEF ChildInv, HearInv, Alive
<1> QED
  BY <1>3, <1>4, <1>5, <1>6, <1>7 DEF ChatInv

-------------------------------------------------------------------------------
(* The children's steps and the clients' *)

\* A child touches neither the list nor the parent, nor does a client that is
\* connected; what they change keeps the rest of the invariant if no child gets
\* descriptors and no client is forgotten.
LEMMA OthersKeep ==
  ASSUME ChatInv, TypeOK', HearInv', UNCHANGED <<listVars, parentVars>>,
         \A c \in Clients : Alive(c)' => Alive(c) /\ childFd'[c] = childFd[c],
         \A c \in Clients : child[c] = "none" <=> child'[c] = "none",
         \A c \in Clients : client[c] = "off" <=> client'[c] = "off"
  PROVE  ChatInv'
<1>1. UNCHANGED <<shm, owner, count, mainPc, cs, backlog, parentFd, restarts>> /\ Filled' = Filled
  BY DEF listVars, parentVars, Filled
<1>2. ListInv'
  BY <1>1 DEF ChatInv, ListInv
<1>3. ParentInv'
  BY <1>1 DEF ChatInv, ParentInv, NothingFrom
<1>4. KnownInv'
  <2>1. \A f \in Fds : parentFd[f] # NoClient => parentFd[f] \in Clients
    BY DEF ChatInv, TypeOK, Meaning
  <2>2. backlog \subseteq Clients
    BY DEF ChatInv, TypeOK
  <2> QED
    BY <1>1, <2>1, <2>2 DEF ChatInv, KnownInv
<1>5. ChildInv'
  BY <1>1 DEF ChatInv, ChildInv
<1> QED
  BY <1>2, <1>3, <1>4, <1>5 DEF ChatInv

\* A message is read: who should hear it is in the list.
LEMMA ReadKeeps ==
  ASSUME ChatInv, NEW c \in Clients, Read(c)
  PROVE  ChatInv'
<1> USE FilledSlots
<1>1. /\ child[c] = "reading" /\ child' = [child EXCEPT ![c] = "sending"]
      /\ inbox' = [inbox EXCEPT ![c] = FALSE] /\ idx' = [idx EXCEPT ![c] = 0]
      /\ due' = [due EXCEPT ![c] = Listed]
      /\ UNCHANGED <<listVars, parentVars, childFd, got, client>>
  BY DEF Read
<1>2. /\ UNCHANGED <<owner, count>> /\ Filled' = Filled
      /\ UNCHANGED <<shm, mainPc, cs, backlog, parentFd, restarts>>
  BY <1>1 DEF listVars, parentVars, Filled
<1>3. \A d \in Clients \ {c} :
         child'[d] = child[d] /\ idx'[d] = idx[d] /\ due'[d] = due[d]
  BY <1>1 DEF ChatInv, TypeOK
<1>4. child'[c] = "sending" /\ idx'[c] = 0 /\ due'[c] = Listed
  BY <1>1 DEF ChatInv, TypeOK
<1>5. Listed \subseteq Clients
  BY DEF Listed
<1>6. TypeOK'
  BY <1>1, <1>2, <1>5 DEF ChatInv, TypeOK, Slots
<1>7. \A t \in Listed : client[t] = "up" /\ \E k \in Filled : owner[k] = t
  BY DEF Listed, Filled
<1>8. HearInv'
  BY <1>1, <1>2, <1>3, <1>4, <1>7 DEF ChatInv, HearInv, Inherited
<1> QED
  BY <1>1, <1>3, <1>4, <1>6, <1>8, OthersKeep DEF Alive

\* The last slot holds 0, so that the child finds it and does not write there.
LEMMA TestKeeps ==
  ASSUME ChatInv, NEW c \in Clients, Test(c)
  PROVE  ChatInv'
<1>1. /\ child[c] = "sending" /\ shm[idx[c]] # 0
      /\ child' = [child EXCEPT ![c] = "writing"]
      /\ UNCHANGED <<listVars, parentVars, childFd, idx, due, got, client, inbox>>
  BY DEF Test, TestIf, clientVars
<1>2. UNCHANGED <<shm, owner, count, mainPc, cs, backlog, parentFd, restarts>> /\ Filled' = Filled
  BY <1>1 DEF listVars, parentVars, Filled
<1>3. \A d \in Clients : child'[d] = IF d = c THEN "writing" ELSE child[d]
  BY <1>1 DEF ChatInv, TypeOK
<1>4. idx[c] < MaxClient-1
  BY <1>1, FilledSlots DEF ChatInv, TypeOK, ListInv, Slots
<1>5. TypeOK'
  BY <1>1, <1>2 DEF ChatInv, TypeOK
<1>6. HearInv'
  BY <1>1, <1>2, <1>3, <1>4 DEF ChatInv, HearInv, Inherited
<1> QED
  BY <1>1, <1>3, <1>5, <1>6, OthersKeep DEF Alive

\* A child stops to send, or to live.
LEMMA StopKeeps ==
  ASSUME ChatInv, NEW c \in Clients, ReadEnd(c) \/ KilledByPipe(c) \/ SendingDone(c)
  PROVE  ChatInv'
<1> USE FilledSlots
<1> DEFINE Stopped == childFd' = [childFd EXCEPT ![c] = NothingOpen]
<1>1. /\ child[c] \in {"reading", "sending", "writing"}
      /\ UNCHANGED <<listVars, parentVars, clientVars>>
      /\ \/ child' = [child EXCEPT ![c] = "exited"] /\ Stopped
         \/ child' = [child EXCEPT ![c] = "reading"] /\ childFd' = childFd
      /\ \/ UNCHANGED <<idx, due, got>>
         \/ /\ idx' = [idx EXCEPT ![c] = 0]
            /\ due' = [due EXCEPT ![c] = {}] /\ got' = [got EXCEPT ![c] = {}]
  BY DEF ReadEnd, KilledByPipe, SendingDone
<1>2. /\ UNCHANGED <<owner, count, client, inbox>> /\ Filled' = Filled
      /\ UNCHANGED <<shm, mainPc, cs, backlog, parentFd, restarts>>
  BY <1>1 DEF listVars, parentVars, clientVars, Filled
<1>3. TypeOK'
  <2>1. NothingOpen \in Meaning /\ 0 \in Slots
    BY DEF Meaning, NothingOpen, Slots
  <2>2. child' \in [Clients -> {"none", "reading", "sending", "writing", "exited"}]
    BY <1>1 DEF ChatInv, TypeOK
  <2>3. childFd' \in [Clients -> Meaning]
    BY <1>1, <2>1 DEF ChatInv, TypeOK
  <2>4. /\ idx' \in [Clients -> Slots]
        /\ due' \in [Clients -> SUBSET Clients] /\ got' \in [Clients -> SUBSET Clients]
    BY <1>1, <2>1 DEF ChatInv, TypeOK
  <2> QED
    BY <1>2, <2>2, <2>3, <2>4 DEF ChatInv, TypeOK
<1>4. child'[c] \in {"exited", "reading"} /\ (child'[c] = "reading" => childFd'[c] = childFd[c])
  BY <1>1 DEF ChatInv, TypeOK
<1>5. \A d \in Clients \ {c} : /\ child'[d] = child[d] /\ childFd'[d] = childFd[d]
                               /\ idx'[d] = idx[d] /\ due'[d] = due[d] /\ got'[d] = got[d]
  BY <1>1 DEF ChatInv, TypeOK
<1>6. HearInv'
  BY <1>2, <1>4, <1>5 DEF ChatInv, HearInv, Inherited
<1> QED
  BY <1>1, <1>2, <1>3, <1>4, <1>5, <1>6, OthersKeep DEF Alive

\* A child passes one slot: the client listed there, if it has inherited the
\* descriptor and is up, hears the message.  A slot that the parent has filled
\* still holds its number when it is read for the second time.
LEMMA WriteKeeps ==
  ASSUME ChatInv, NEW c \in Clients, Deliver(c) \/ WriteToLeft(c) \/ WriteUnheard(c)
  PROVE  ChatInv'
<1> USE FilledSlots
<1> DEFINE n == idx[c]
<1>1. /\ child[c] = "writing" /\ child' = [child EXCEPT ![c] = "sending"]
      /\ idx' = [idx EXCEPT ![c] = n + 1]
      /\ UNCHANGED <<listVars, parentVars, due, inbox, childFd>>
  BY DEF Deliver, WriteToLeft, WriteUnheard, WriteTo
<1>2. /\ UNCHANGED <<owner, count>> /\ Filled' = Filled
      /\ UNCHANGED <<shm, mainPc, cs, backlog, parentFd, restarts>>
  BY <1>1 DEF listVars, parentVars, Filled
<1>3. n \in Slots /\ n + 1 \in Slots /\ shm[n] \in Fds \union {0}
  BY <1>1 DEF ChatInv, TypeOK, HearInv, Slots
<1>4. /\ Target(c) \in Clients \union {NoClient}
      /\ n \in Filled => Target(c) = childFd[c][4+n]
  <2>1. n \in Filled => shm[n] = 4+n /\ shm[n] # 0
    BY DEF ChatInv, ListInv
  <2> QED
    BY <1>3, <2>1 DEF Target, ChatInv, TypeOK, Meaning
<1>5. \/ /\ Target(c) \in Clients /\ client[Target(c)] = "up"
         /\ got' = [got EXCEPT ![c] = @ \union {Target(c)}] /\ client' = client
      \/ /\ Target(c) \in Clients /\ client[Target(c)] = "left"
         /\ client' = [client EXCEPT ![Target(c)] = "reset"] /\ got' = got
      \/ /\ Target(c) # NoClient => client[Target(c)] # "up"
         /\ got' = got /\ client' = client
  BY <1>4, ChatAssumption DEF Deliver, WriteToLeft, WriteUnheard, TargetState
<1>6. TypeOK'
  BY <1>1, <1>2, <1>3, <1>5 DEF ChatInv, TypeOK
<1>7. \A t \in Clients : /\ client[t] = "off" <=> client'[t] = "off"
                         /\ client'[t] = "up" => client[t] = "up"
  BY <1>5 DEF ChatInv, TypeOK
<1>8. \A d \in Clients : got[d] \subseteq got'[d]
  BY <1>5 DEF ChatInv, TypeOK
<1>9. \A d \in Clients : /\ idx'[d] = IF d = c THEN n + 1 ELSE idx[d]
                         /\ child'[d] = IF d = c THEN "sending" ELSE child[d]
  BY <1>1 DEF ChatInv, TypeOK
<1>10. ASSUME NEW t \in Inherited(c), n \in Filled, owner[n] = t, client'[t] = "up"
       PROVE  t \in got'[c]
  <2>1. PICK f \in Fds : childFd[c][f] = t /\ t # NoClient
    BY <1>10 DEF Inherited
  <2>2. f = 4+n
    BY <1>1, <1>10, <2>1 DEF ChatInv, ChildInv, Alive
  <2>3. Target(c) = t /\ t \in Clients
    BY <1>4, <1>10, <2>1, <2>2 DEF ChatInv, TypeOK, Meaning
  <2> QED
    BY <1>5, <1>7, <1>10, <2>1, <2>3 DEF ChatInv, TypeOK
<1>11. HearInv'
  <2>0. \A d \in Clients : child'[d] = "writing" => idx'[d] < MaxClient-1
    BY <1>9 DEF ChatInv, HearInv
  <2> SUFFICES ASSUME NEW d \in Clients, child'[d] \in {"sending", "writing"}, NEW t \in due'[d]
               PROVE  /\ client'[t] # "off"
                      /\ \E k \in Filled : owner[k] = t
                      /\ \A k \in Filled :
                           owner[k] = t /\ k < idx'[d] /\ t \in Inherited(d) /\ client'[t] = "up"
                              => t \in got'[d]
    BY <1>1, <1>2, <2>0 DEF HearInv, Inherited
  <2>1. t \in Clients /\ child[d] \in {"sending", "writing"} /\ t \in due[d]
    BY <1>1, <1>9 DEF ChatInv, TypeOK
  <2>2. client'[t] # "off" /\ \E k \in Filled : owner[k] = t
    BY <1>7, <2>1 DEF ChatInv, HearInv
  <2>3. ASSUME NEW k \in Filled, owner[k] = t, k < idx'[d], t \in Inherited(d), client'[t] = "up"
        PROVE  t \in got'[d]
    <3>1. CASE k < idx[d]
      BY <1>7, <1>8, <2>1, <2>3, <3>1 DEF ChatInv, HearInv
    <3>2. CASE ~(k < idx[d])
      <4>1. d = c /\ k = n
        BY <1>3, <1>9, <2>3, <3>2 DEF Slots
      <4> QED
        BY <1>10, <2>3, <4>1
    <3> QED
      BY <3>1, <3>2
  <2> QED
    BY <2>2, <2>3
<1> QED
  BY <1>1, <1>6, <1>7, <1>9, <1>11, OthersKeep DEF Alive

LEMMA ConnectKeeps ==
  ASSUME ChatInv, NEW c \in Clients, Connect(c)
  PROVE  ChatInv'
<1>1. /\ client[c] = "off" /\ mainPc # "dead"
      /\ client' = [client EXCEPT ![c] = "up"] /\ backlog' = backlog \union {c}
      /\ UNCHANGED <<shm, owner, count, mainPc, cs, parentFd, restarts, child, childFd, idx, due,
                     got, inbox>>
  BY DEF Connect, listVars, childVars
<1>2. TypeOK'
  BY <1>1 DEF ChatInv, TypeOK
<1>3. ListInv' /\ ChildInv'
  BY <1>1 DEF ChatInv, ListInv, ChildInv, Alive, Filled
<1>4. ParentInv'
  BY <1>1 DEF ChatInv, ParentInv, NothingFrom, Filled, TypeOK
<1>5. KnownInv'
  BY <1>1, ChatAssumption DEF ChatInv, KnownInv, TypeOK, Meaning
<1>6. HearInv'
  BY <1>1 DEF ChatInv, HearInv, Inherited, Filled, TypeOK
<1> QED
  BY <1>2, <1>3, <1>4, <1>5, <1>6 DEF ChatInv

LEMMA SayLeaveKeeps ==
  ASSUME ChatInv, NEW c \in Clients, Say(c) \/ Leave(c)
  PROVE  ChatInv'
<1>1. /\ UNCHANGED <<listVars, parentVars, childVars>>
      /\ \/ inbox' = [inbox EXCEPT ![c] = TRUE] /\ client' = client
         \/ client' = [client EXCEPT ![c] = "left"] /\ client[c] = "up" /\ inbox' = inbox
  BY DEF Say, Leave
<1>2. UNCHANGED <<shm, owner, count, mainPc, cs, backlog, parentFd, restarts, child, childFd, idx,
                  due, got>> /\ Filled' = Filled
  BY <1>1 DEF listVars, parentVars, childVars, Filled
<1>3. TypeOK'
  BY <1>1, <1>2 DEF ChatInv, TypeOK
<1>4. \A t \in Clients : /\ client[t] = "off" <=> client'[t] = "off"
                         /\ client'[t] = "up" => client[t] = "up"
  BY <1>1 DEF ChatInv, TypeOK
<1>5. HearInv'
  <2>1. \A d \in Clients : due[d] \subseteq Clients
    BY DEF ChatInv, TypeOK
  <2> QED
    BY <1>2, <1>4, <2>1 DEF ChatInv, HearInv, Inherited
<1> QED
  BY <1>1, <1>2, <1>3, <1>4, <1>5, OthersKeep DEF Alive

-------------------------------------------------------------------------------
(* The theorems *)

\* The list, the descriptor tables and what the clients have heard agree in
\* every reachable state.
THEOREM ChatCorrect == Spec => []ChatInv
<1>1. Init => ChatInv
  <2> SUFFICES ASSUME Init PROVE ChatInv
    OBVIOUS
  <2>1. Filled = {}
    BY DEF Init, Filled
  <2>2. TypeOK /\ ListInv
    <3>1. PICK S \in LeftOver : shm = [k \in Slots |-> IF k \in S THEN 4+k ELSE 0]
      BY DEF Init
    <3>2. S \subseteq 0 .. MaxClient-2 /\ MaxClient \in Nat /\ Cardinality(Clients) \in Nat
      BY ChatAssumption, FS_CardinalityType DEF LeftOver, Fillable
    <3>3. shm \in [Slots -> Fds \union {0}]
      BY <3>1, <3>2 DEF Slots, Fds
    <3>4. ListInv
      BY <2>1, <3>1, <3>2, ChatAssumption DEF ListInv, Slots
    <3> QED
      BY <3>3, <3>4, ChatAssumption DEF Init, TypeOK, Slots, Meaning, NothingOpen
  <2>3. ParentInv /\ KnownInv /\ ChildInv /\ HearInv
    BY <2>1, ChatAssumption
       DEF Init, ParentInv, NothingFrom, KnownInv, ChildInv, HearInv, Alive, NothingOpen
  <2> QED
    BY <2>2, <2>3 DEF ChatInv
<1>2. ChatInv /\ [Next]_vars => ChatInv'
  <2> SUFFICES ASSUME ChatInv, [Next]_vars
               PROVE  ChatInv'
    OBVIOUS
  <2>1. CASE Parent
    BY <2>1, AcceptKeeps, AcceptFailsKeeps, StoreKeeps, TerminateKeeps, ForkKeeps,
       ForkFailsKeeps, ParentDiesKeeps, RestartKeeps DEF Parent
  <2>2. ASSUME NEW c \in Clients, Child(c)
        PROVE  ChatInv'
    BY <2>2, ReadKeeps, TestKeeps, StopKeeps, WriteKeeps DEF Child, Broadcast
  <2>3. ASSUME NEW c \in Clients, Client(c)
        PROVE  ChatInv'
    BY <2>3, ConnectKeeps, SayLeaveKeeps DEF Client
  <2>4. CASE UNCHANGED vars
    BY <2>4 DEF vars, listVars, parentVars, childVars, clientVars, ChatInv, TypeOK, ListInv,
                ParentInv, NothingFrom, KnownInv, ChildInv, Alive, HearInv, Inherited, Filled
  <2> QED
    BY <2>1, <2>2, <2>3, <2>4 DEF Next
<1> QED
  BY <1>1, <1>2, PTL DEF Spec

\* Every variable keeps its type, for a list of any length.
THEOREM TypeCorrect == Spec => []TypeOK
<1>1. ChatInv => TypeOK
  BY DEF ChatInv
<1> QED
  BY <1>1, ChatCorrect, PTL

\* The last entry is 0 at every moment, also between the two stores of push_fd
\* (server.c:111-114) and whatever earlier servers left behind; and no child writes
\* there, also when an entry changes between its test and its write.
THEOREM ListCorrect == Spec => []ListEnds
<1>1. ChatInv => ListEnds
  BY DEF ChatInv, ListInv, HearInv, ListEnds
<1> QED
  BY <1>1, ChatCorrect, PTL

\* A child never takes a number in the list for another client than the parent
\* listed (server.c:96: write(shm_fds[i], ...)).
THEOREM MeaningCorrect == Spec => []SameMeaning
<1>1. ChatInv => SameMeaning
  <2> SUFFICES ASSUME ChatInv, NEW c \in Clients, NEW k \in Slots, Alive(c), shm[k] # 0,
                      childFd[c][shm[k]] # NoClient
               PROVE  childFd[c][shm[k]] = owner[k]
    BY DEF SameMeaning
  <2>1. shm[k] # 0 /\ k \in Nat
    BY DEF Slots
  <2>2. shm[k] = 4+k /\ 4+k \in Fds /\ k # MaxClient-1
    BY <2>1 DEF ChatInv, ListInv, TypeOK
  <2>3. 4+k < MaxClient+3
    BY <2>2, FilledSlots DEF Slots
  <2>4. childFd[c][4+k] = owner[(4+k)-4]
    BY <2>2, <2>3 DEF ChatInv, ChildInv
  <2> QED
    BY <2>1, <2>2, <2>4
<1> QED
  BY <1>1, ChatCorrect, PTL

\* When a child has sent a message, everyone who was listed when it was read,
\* stays and is open in the child has got it.
THEOREM HearCorrect == Spec => InheritedHear
<1> DEFINE Heard == \A c \in Clients :
                      child[c] = "sending" /\ child'[c] = "reading" =>
                          \A t \in due[c] \intersect Inherited(c) :
                              client[t] = "up" => t \in got[c]
<1>1. ChatInv /\ [Next]_vars => [Heard]_vars
  <2> SUFFICES ASSUME ChatInv, [Next]_vars, NEW c \in Clients,
                      child[c] = "sending", child'[c] = "reading",
                      NEW t \in due[c], t \in Inherited(c), client[t] = "up"
               PROVE  t \in got[c]
    OBVIOUS
  <2>1. SendingDone(c)
    <3>1. ~ (Parent \/ UNCHANGED vars)
      BY DEF Parent, Accept, AcceptUpTo, AcceptFails, Store, Terminate, TerminateAt, Fork,
             ForkWith, ForkFails, ParentDies, Restart, vars, childVars, ChatInv, ParentInv, TypeOK
    <3>2. PICK d \in Clients : Child(d) \/ Client(d)
      BY <3>1 DEF Next
    <3>3. d = c /\ ~Client(d)
      BY <3>2 DEF Child, Client, Read, ReadEnd, Broadcast, Test, TestIf, Deliver, WriteToLeft,
                  WriteUnheard, WriteTo, KilledByPipe, SendingDone, Connect, Say, Leave,
                  childVars, ChatInv, TypeOK
    <3> QED
      BY <3>2, <3>3 DEF Child, Read, ReadEnd, Broadcast, Test, TestIf, Deliver, WriteToLeft,
                        WriteUnheard, WriteTo, KilledByPipe, ChatInv, TypeOK
  <2>2. shm[idx[c]] = 0 /\ idx[c] \in Slots
    BY <2>1 DEF SendingDone, ChatInv, TypeOK
  <2>3. PICK k \in Filled : owner[k] = t
    BY DEF ChatInv, HearInv
  <2>4. k < idx[c]
    <3>1. \A n \in Slots : n < count => shm[n] # 0
      BY FilledSlots DEF ChatInv, ListInv, Filled, Slots
    <3> QED
      BY <2>2, <3>1, FilledSlots DEF Filled, Slots
  <2> QED
    BY <2>3, <2>4 DEF ChatInv, HearInv
<1> QED
  BY <1>1, ChatCorrect, PTL DEF Spec, InheritedHear
===============================================================================
