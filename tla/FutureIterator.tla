---------------------------- MODULE FutureIterator ----------------------------
(***************************************************************************)
(* One process for every item of a collection, all at the same time, whose *)
(* output is read breadth first                                            *)
(* (src/libprocreact/procreact_future_iterator.c).  A process writes       *)
(* Output pieces to a pipe that holds Capacity of them.                    *)
(***************************************************************************)
EXTENDS PidIterator

CONSTANTS
    Output,     \* the pieces a process writes
    Capacity    \* the pieces a pipe holds

ASSUME PipesOK == Output \in Nat /\ Capacity \in Nat \ {0}

VARIABLES
    futures,   \* the items whose output is read
    pos,       \* the one that is read next, or 0 while processes are started
    pipe,      \* the pieces in the pipe of every item
    got        \* the pieces that were read

futureVars == <<futures, pos, pipe, got>>

InitFutures(n) ==
    /\ futures' = <<>> /\ pos' = 0
    /\ pipe' = [i \in 1 .. n |-> 0] /\ got' = [i \in 1 .. n |-> 0]

SpawnNextFuture ==
    /\ pos = 0 /\ HasNext
    /\ index' = index + 1 /\ running' = running + 1
    /\ futures' = Append(futures, index + 1)
    /\ UNCHANGED <<success, completed, waited, pos, pipe, got>>

\* Fault: the output is buffered in one pass only.
BufferOnce ==
    /\ ~HasNext /\ running > 0 /\ pos = 0
    /\ pos' = 1
    /\ UNCHANGED <<iteratorVars, futures, pipe, got>>

\* The first pass of procreact_buffer, or the next one.
BufferAgain ==
    /\ ~HasNext /\ running > 0
    /\ pos = 0 \/ pos > running
    /\ pos' = 1
    /\ UNCHANGED <<iteratorVars, futures, pipe, got>>

Reads(i) == pos \in 1 .. running /\ futures[pos] = i

\* read() returns what is there; it blocks when there is nothing.
AppendOutput(i) ==
    /\ Reads(i) /\ pipe[i] > 0
    /\ got' = [got EXCEPT ![i] = @ + pipe[i]]
    /\ pipe' = [pipe EXCEPT ![i] = 0]
    /\ pos' = pos + 1
    /\ UNCHANGED <<iteratorVars, futures>>

\* The last future takes the place of the one that is finished.
LastMoved(i) == [SubSeq(futures, 1, running - 1) EXCEPT ![pos] = futures[running]]
\* Fault: the last future is dropped, whichever is finished.
Shortened(i) == SubSeq(futures, 1, running - 1)

Shorter(i) == IF pos = running THEN SubSeq(futures, 1, running - 1) ELSE LastMoved(i)

\* End of file: the process has exited, and nothing of its output is left.
Finalize(i, ok) ==
    /\ Reads(i) /\ pipe[i] = 0
    /\ Complete(i, ok)
    /\ futures' = Shorter(i) /\ running' = running - 1
    /\ pos' = pos + 1
    /\ UNCHANGED <<index, waited, pipe, got>>

\* The process of an item writes.
Write(i) ==
    /\ pipe[i] < Capacity /\ got[i] + pipe[i] < Output
    /\ pipe' = [pipe EXCEPT ![i] = @ + 1]
    /\ UNCHANGED <<iteratorVars, futures, pos, got>>

FutureIterationOver == ~HasNext /\ running = 0
=============================================================================
