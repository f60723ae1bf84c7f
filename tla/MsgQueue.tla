------------------------------- MODULE MsgQueue -------------------------------
(***************************************************************************)
(* The program process/communication/msg/msg.c: it makes a System V        *)
(* message queue, sends a message to it, asks for one and removes the      *)
(* queue.  The queue belongs to the kernel: it outlives a process that is  *)
(* killed, and any process that computes the same key finds it.            *)
(***************************************************************************)
EXTENDS Integers, Sequences

CONSTANTS
    Procs,      \* the processes that run the program
    MaxRuns     \* bound: how often it is started

VARIABLES
    pc,         \* the call that each process makes next, "off" if it does not run
    runs,       \* how often the program was started
    exists,     \* is there a queue for the key?
    messages    \* its messages, with their senders

vars == <<pc, runs, exists, messages>>

Sent  == 10     \* msg_mbuf.mtype
Asked == 20     \* MTEXT_SIZE, which is passed as the type too

Message == [type : {Sent}, from : Procs]

TypeOK ==
    /\ pc \in [Procs -> {"off", "get", "send", "receive", "set", "remove"}]
    /\ runs \in 0 .. MaxRuns /\ exists \in BOOLEAN
    /\ messages \in Seq(Message)

Init ==
    /\ pc = [p \in Procs |-> "off"] /\ runs = 0
    /\ exists = FALSE /\ messages = <<>>

Go(p, from, to) == pc[p] = from /\ pc' = [pc EXCEPT ![p] = to]

Start(p) ==
    /\ runs < MaxRuns /\ runs' = runs + 1
    /\ Go(p, "off", "get")
    /\ UNCHANGED <<exists, messages>>

GetAny(p) == \* mutant: the queue is opened without IPC_EXCL (and 0666 for 0x0666)
    /\ Go(p, "get", "send") /\ exists' = TRUE
    /\ UNCHANGED <<runs, messages>>

\* msgget with IPC_CREAT | IPC_EXCL: a queue that is there already is an error.
\* The mode 0x0666 holds the bit of IPC_EXCL once more.
Get(p) ==
    /\ IF exists THEN Go(p, "get", "off") ELSE Go(p, "get", "send")
    /\ exists' = TRUE
    /\ UNCHANGED <<runs, messages>>

\* The send may fail: 0x0666 gives the owner no right to write, and msgsnd
\* reads a long for the type where the message has an int and then the text.
Send(p) ==
    /\ Go(p, "send", "receive")
    /\ messages' \in {Append(messages, [type |-> Sent, from |-> p]), messages}
    /\ UNCHANGED <<runs, exists>>

Wanted     == {k \in 1 .. Len(messages) : messages[k].type = Asked}
Without(k) == SubSeq(messages, 1, k-1) \o SubSeq(messages, k+1, Len(messages))

\* msgrcv with IPC_NOWAIT takes the first message of the type that is asked
\* for; without one it fails, and the program goes on.
Receive(p) ==
    /\ Go(p, "receive", "set")
    /\ messages' = IF Wanted = {} THEN messages
                   ELSE Without(CHOOSE k \in Wanted : \A j \in Wanted : k <= j)
    /\ UNCHANGED <<runs, exists>>

\* The program returns at once if IPC_SET fails.
Set(p) ==
    /\ Go(p, "set", "remove") \/ Go(p, "set", "off")
    /\ UNCHANGED <<runs, exists, messages>>

Remove(p) ==
    /\ Go(p, "remove", "off")
    /\ exists' = FALSE /\ messages' = <<>>
    /\ UNCHANGED runs

\* A signal ends the process; it sleeps a second before most of its calls.
Killed(p) ==
    /\ pc[p] # "off" /\ Go(p, pc[p], "off")
    /\ UNCHANGED <<runs, exists, messages>>

Next == \E p \in Procs :
    \/ Start(p) \/ Get(p) \/ Send(p) \/ Receive(p) \/ Set(p) \/ Remove(p)
    \/ Killed(p)

Spec == Init /\ [][Next]_vars

\* A process that has got past msgget has the queue to itself, and no message
\* of another process or of an earlier run is in it, however the runs before
\* it ended and whichever others are being started.
FreshQueue ==
    \A p \in Procs : pc[p] \in {"send", "receive", "set", "remove"} =>
        /\ exists
        /\ pc[p] = "send" => messages = <<>>
        /\ \A k \in 1 .. Len(messages) : messages[k].from = p
===============================================================================
