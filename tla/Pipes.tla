-------------------------------- MODULE Pipes --------------------------------
(***************************************************************************)
(* The programs of process/communication/pipe: a process forks, one of the *)
(* two writes to the pipe between them and the other reads.  pipe.c and    *)
(* read_clog.c write and read once; pipe_buf_test.c writes more than the   *)
(* pipe holds and reads until there is nothing more to come.               *)
(*                                                                         *)
(* read() sees the end of the data only when no process has the write end  *)
(* open any more, so each process must close the end it does not use.      *)
(***************************************************************************)
EXTENDS Integers

CONSTANTS
    Total,       \* BUFFER_SIZE, or the length of the string
    Capacity,    \* how much the pipe holds
    PipeBuf,     \* writes of no more than this are atomic
    ReadSize     \* the size of the reader's buffer

\* pipe_buf_test.c writes more than an atomic write holds; the strings of the
\* other programs, which PipeBuf stands for too, fit in their readers' buffers.
PipesAssumption ==
    /\ Total \in Nat /\ ReadSize \in Nat /\ Capacity \in Nat
    /\ PipeBuf \in Nat \ {0}
    /\ PipeBuf <= Total /\ PipeBuf <= ReadSize /\ PipeBuf <= Capacity

Procs == {"writer", "reader"}

VARIABLES
    loops,         \* pipe_buf_test.c, and not one of the others
    pc,
    writeEnds,     \* the processes that have the write end open
    pipe,          \* the bytes in the pipe
    write_size,    \* what the writer still has to write
    call,          \* what its write() still has to put into the pipe
    got            \* what the reader has read

vars == <<loops, pc, writeEnds, pipe, write_size, call, got>>

TypeOK ==
    /\ loops \in BOOLEAN
    /\ pc \in [Procs -> {"close", "write", "read", "ended"}]
    /\ writeEnds \subseteq Procs
    /\ pipe \in 0 .. Capacity
    /\ write_size \in 0 .. Total /\ call \in 0 .. Total /\ got \in 0 .. Total

\* fork() has returned; a string that is written once is shorter than PIPE_BUF.
Init ==
    /\ loops \in BOOLEAN
    /\ pc = [p \in Procs |-> "close"] /\ writeEnds = Procs
    /\ write_size = (IF loops THEN Total ELSE PipeBuf)
    /\ pipe = 0 /\ call = 0 /\ got = 0

Go(p, where) == pc' = [pc EXCEPT ![p] = where]

-------------------------------------------------------------------------------
(* The writer *)

CloseRead ==
    /\ pc["writer"] = "close" /\ Go("writer", "write")
    /\ call' = write_size
    /\ UNCHANGED <<loops, writeEnds, pipe, write_size, got>>

\* A write waits for room, for all of its bytes if it is atomic.
Put ==
    /\ pc["writer"] = "write"
    /\ \E k \in 1 .. call :
         /\ write_size <= PipeBuf => k = call
         /\ pipe + k <= Capacity
         /\ pipe' = pipe + k /\ call' = call - k
    /\ UNCHANGED <<loops, pc, writeEnds, write_size, got>>

\* write() returns what it has written: all, or less when reading on behind
\* the end of string has left the stack, which only happens in the loop.
WrittenThen(ends) ==
    /\ pc["writer"] = "write" /\ call < write_size
    /\ \/ /\ ends
          /\ Go("writer", "ended") /\ writeEnds' = writeEnds \ {"writer"}
       \/ /\ call > 0 /\ loops
          /\ UNCHANGED <<pc, writeEnds>>
    /\ write_size' = call
    /\ UNCHANGED <<loops, pipe, call, got>>

WrittenOnce == WrittenThen(TRUE)     \* mutant: write() taken to write it all

Written == WrittenThen(call = 0)

-------------------------------------------------------------------------------
(* The reader *)

ReaderKeeps(ends) ==
    /\ pc["reader"] = "close" /\ Go("reader", "read")
    /\ writeEnds' = ends
    /\ UNCHANGED <<loops, pipe, write_size, call, got>>

KeepWrite == ReaderKeeps(writeEnds)   \* mutant: the write end stays open

CloseWrite == ReaderKeeps(writeEnds \ {"reader"})

Read ==
    /\ pc["reader"] = "read" /\ pipe > 0
    /\ \E k \in {IF pipe < ReadSize THEN pipe ELSE ReadSize} :
         pipe' = pipe - k /\ got' = got + k
    /\ Go("reader", IF loops THEN "read" ELSE "ended")
    /\ UNCHANGED <<loops, writeEnds, write_size, call>>

ReadEnd ==
    /\ pc["reader"] = "read" /\ pipe = 0 /\ writeEnds = {}
    /\ Go("reader", "ended")
    /\ UNCHANGED <<loops, writeEnds, pipe, write_size, call, got>>

-------------------------------------------------------------------------------
Writer == CloseRead \/ Put \/ Written
Reader == CloseWrite \/ Read \/ ReadEnd

Next == Writer \/ Reader

Spec == Init /\ [][Next]_vars

\* Both processes run.
FairSpec == Spec /\ WF_vars(Writer) /\ WF_vars(Reader)

-------------------------------------------------------------------------------
\* The reader that says that nothing more is written has read every byte,
\* each once, however the writes were cut up and the processes took turns.
AllRead == pc["reader"] = "ended" => got = (IF loops THEN Total ELSE PipeBuf)

\* Liveness, of FairSpec: the reader sees the end of the data.
Ends == <>(pc["reader"] = "ended")
===============================================================================
