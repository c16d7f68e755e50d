----------------------------- MODULE PidIterator -----------------------------
(***************************************************************************)
(* One process for every item of a collection, at most a number of them at *)
(* a time (src/libprocreact/procreact_pid_iterator.c, on top of            *)
(* src/libmodel/modeliterator.c).                                          *)
(***************************************************************************)
EXTENDS Naturals, Sequences

CONSTANTS Unlimited   \* more processes than there are items

ASSUME UnlimitedOK == Unlimited \in Nat

VARIABLES
    index,      \* the number of items a process was started for
    success,    \* FALSE once one of them failed
    running,    \* running_processes
    waited,     \* has_running_processes: the last wait reaped a process
    completed   \* how often each item was completed

modelVars == <<index, success, completed>>
iteratorVars == <<modelVars, running, waited>>

\* Fault: the iterator of the iteration before is used again.
InitModelKept(n) ==
    /\ success' = TRUE /\ running' = 0 /\ waited' = FALSE
    /\ completed' = [i \in 1 .. n |-> 0]
    /\ UNCHANGED index

InitModel(n) ==
    /\ index' = 0 /\ success' = TRUE /\ running' = 0 /\ waited' = FALSE
    /\ completed' = [i \in 1 .. n |-> 0]

HasNext == index < Len(completed)

\* Fault: the outcome of an item overwrites that of the ones before it.
CompleteLast(i, ok) ==
    /\ completed' = [completed EXCEPT ![i] = @ + 1]
    /\ success' = ok

Complete(i, ok) ==
    /\ completed' = [completed EXCEPT ![i] = @ + 1]
    /\ success' = (success /\ ok)

\* Fault: one more than the limit.
MaySpawnOneMore(limit) == running <= limit /\ HasNext

MaySpawn(limit) == running < limit /\ HasNext

SpawnNextPid(limit) ==
    /\ MaySpawn(limit)
    /\ index' = index + 1 /\ running' = running + 1
    /\ UNCHANGED <<success, completed, waited>>

\* procreact_wait_for_process_to_complete
WaitForProcess(limit, i, ok) ==
    /\ ~MaySpawn(limit) /\ running > 0
    /\ running' = running - 1 /\ waited' = TRUE
    /\ Complete(i, ok)
    /\ UNCHANGED index

WaitForNothing(limit) ==
    /\ ~MaySpawn(limit) /\ running = 0 /\ waited
    /\ waited' = FALSE
    /\ UNCHANGED <<modelVars, running>>

PidIterationOver == ~waited /\ ~HasNext /\ running = 0
=============================================================================
