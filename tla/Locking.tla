------------------------------ MODULE Locking ------------------------------
(***************************************************************************)
(* Locks on target machines: several coordinators acquire and release them *)
(* while each target notifies its services, one by one, in processes that  *)
(* run concurrently.                                                       *)
(*                                                                         *)
(*   src/libdeploy/locking.c                    lock() and unlock()        *)
(*   src/libmanifest/profilemapping-iterator.c  one process per target     *)
(*   src/libprocreact/procreact_pid_iterator.c  fork all, then wait        *)
(*   src/dbus-service/methods.c, locking.c      the handlers on a target   *)
(*   src/libprofilemanifest/profilelocking.c    services and lock file     *)
(*                                                                         *)
(* A coordinator forks one client per target, whose request reaches the    *)
(* target at once or never.  The client waits for a job on the target; when *)
(* the connection breaks it fails while the job goes on.                   *)
(***************************************************************************)
EXTENDS Naturals, Sequences, FiniteSets

CONSTANTS
    Coordinator,    \* users or machines that deploy
    Target,         \* target machines
    Service,        \* services with a lock and an unlock activity
    TargetsOf,      \* TargetsOf[c]: the profile mapping table of c's manifest
    Profiles,       \* Profiles[t]: the profiles target t may have installed
    Job,            \* identifies the jobs that run on the targets
    JobsOf,         \* JobsOf[c]: bounds the jobs of c that run at a time
    Unreliable,     \* targets to which connections may break
    Interruptible   \* coordinators that SIGINT or a failing fork() may hit

States == {"valid", "corrupt", "unreadable"}
Profile == [services : Seq(Service), state : States]

ASSUME LockingConstants ==
    /\ TargetsOf \in [Coordinator -> SUBSET Target]
    /\ Profiles \in [Target -> SUBSET Profile]
    /\ JobsOf \in [Coordinator -> SUBSET Job]
    /\ Unreliable \subseteq Target
    /\ Interruptible \subseteq Coordinator
    /\ "none" \notin Coordinator
    /\ Job \cap {"none", "succeeded", "failed"} = {}

VARIABLES
    stage,        \* what a coordinator is doing
    unforked,     \* targets for which a coordinator has yet to fork a client
    client,       \* client[c][t]: the job it waits for, or how it ended
    lockTable,    \* targets that confirmed their lock, in lock()
    success,      \* the iterator's success flag
    interrupted,  \* the flag the SIGINT handler sets
    job,          \* the handlers that run on the targets
    lockFile,     \* who created the lock file of a target, if it exists
    notified,     \* services told that a transition is going on
    profile,      \* the profile installed on a target
    astray        \* history: targets where a request of c did not take effect or
                  \* whose answer got lost

coordinatorVars == <<stage, unforked, client, lockTable, success, interrupted>>
targetVars == <<job, lockFile, notified, profile>>
vars == <<coordinatorVars, targetVars, astray>>

Stages == {"idle", "locking", "undoing", "locked", "unlocking", "crashed"}
NoJob == [op |-> "none"]
Jobs == [op : {"lock", "undo", "unlock"}, by : Coordinator, target : Target,
         services : Seq(Service), left : Seq(Service), ok : BOOLEAN]

\* A job that c asked for on target t runs.
Runs(j, c, t) == job[j] # NoJob /\ job[j].by = c /\ job[j].target = t

Working(c) == stage[c] \in {"locking", "undoing", "unlocking"}
Forked(c) == Working(c) /\ unforked[c] = {}
Ended(c, t) == client[c][t] \in {"succeeded", "failed"}
Complete(c) == Forked(c) /\ \A t \in Target : client[c][t] = "none"

-----------------------------------------------------------------------------
Init ==
    /\ stage = [c \in Coordinator |-> "idle"]
    /\ unforked = [c \in Coordinator |-> {}]
    /\ client = [c \in Coordinator |-> [t \in Target |-> "none"]]
    /\ lockTable = [c \in Coordinator |-> {}]
    /\ success = [c \in Coordinator |-> TRUE]
    /\ interrupted = [c \in Coordinator |-> FALSE]
    /\ job = [j \in Job |-> NoJob]
    /\ lockFile = [t \in Target |-> "none"]
    /\ notified = [s \in Service |-> FALSE]
    /\ profile \in {f \in [Target -> UNION {Profiles[t] : t \in Target}] :
                      \A t \in Target : f[t] \in Profiles[t]}
    /\ astray = [c \in Coordinator |-> {}]

(* The coordinator: lock(), unlock() and the iterator over the targets. *)

Iterate(c, s, targets) ==
    /\ stage' = [stage EXCEPT ![c] = s]
    /\ unforked' = [unforked EXCEPT ![c] = targets]
    /\ success' = [success EXCEPT ![c] = TRUE]

\* lock() and unlock() destroy the iterator and the lock table.
LeaveIterator(c, s) ==
    /\ stage' = [stage EXCEPT ![c] = s]
    /\ lockTable' = [lockTable EXCEPT ![c] = {}]
    /\ success' = [success EXCEPT ![c] = TRUE]
    /\ UNCHANGED <<unforked, client, interrupted, targetVars, astray>>

\* A new process, also after one that crashed.
BeginLock(c) ==
    /\ stage[c] \in {"idle", "crashed"}
    /\ Iterate(c, "locking", TargetsOf[c])
    /\ interrupted' = [interrupted EXCEPT ![c] = FALSE]
    /\ astray' = [astray EXCEPT ![c] =
                    {t \in Target : lockFile[t] = c \/ \E j \in Job : Runs(j, c, t)}]
    /\ UNCHANGED <<client, lockTable, targetVars>>

BeginUnlock(c) ==
    /\ stage[c] = "locked"
    /\ Iterate(c, "unlocking", TargetsOf[c])
    /\ UNCHANGED <<client, lockTable, interrupted, targetVars, astray>>

Forks(c, t) ==
    /\ Working(c)
    /\ t \in unforked[c]
    /\ unforked' = [unforked EXCEPT ![c] = @ \ {t}]
    /\ UNCHANGED <<stage, lockTable, success, interrupted, lockFile, notified, profile>>

Request(c) == IF stage[c] = "locking" THEN "lock" ELSE "unlock"

\* on_handle_lock and on_handle_unlock start a process.  A profile manifest
\* that cannot be read still allows the lock file to be removed.
ForkRequest(c, t) ==
    /\ Forks(c, t)
    /\ \/ profile[t].state = "valid"
       \/ profile[t].state = "unreadable" /\ Request(c) = "unlock"
    /\ LET readable == profile[t].state = "valid"
           services == IF readable THEN profile[t].services ELSE << >>
       IN \E j \in JobsOf[c] :
            /\ job[j] = NoJob
            /\ job' = [job EXCEPT ![j] =
                         [op |-> Request(c), by |-> c, target |-> t,
                          services |-> services, left |-> services, ok |-> readable]]
            /\ client' = [client EXCEPT ![c][t] = j]
    /\ UNCHANGED astray

\* The handler emits a failure at once: the profile manifest is corrupt.
ForkRefused(c, t) ==
    /\ Forks(c, t)
    /\ \/ profile[t].state = "corrupt"
       \/ profile[t].state = "unreadable" /\ Request(c) = "lock"
    /\ client' = [client EXCEPT ![c][t] = "failed"]
    /\ astray' = [astray EXCEPT ![c] = @ \cup {t}]
    /\ UNCHANGED job

\* The client cannot connect to the target.
ForkUnreachable(c, t) ==
    /\ t \in Unreliable
    /\ Forks(c, t)
    /\ client' = [client EXCEPT ![c][t] = "failed"]
    /\ astray' = [astray EXCEPT ![c] = @ \cup {t}]
    /\ UNCHANGED job

\* The connection breaks: the client fails, its job does not.
ConnectionBreaks(c, t) ==
    /\ t \in Unreliable
    /\ client[c][t] \in Job
    /\ client' = [client EXCEPT ![c][t] = "failed"]
    /\ astray' = [astray EXCEPT ![c] = @ \cup {t}]
    /\ UNCHANGED <<stage, unforked, lockTable, success, interrupted, targetVars>>

\* Fault: running_processes is not decreased.
ReapNotCounted(c, t) ==
    /\ Forked(c)
    /\ Ended(c, t)
    /\ success' = [success EXCEPT ![c] = @ /\ client[c][t] = "succeeded"]
    /\ lockTable' =
         IF stage[c] = "locking" /\ client[c][t] = "succeeded"
           THEN [lockTable EXCEPT ![c] = @ \cup {t}]
           ELSE lockTable
    /\ UNCHANGED <<stage, unforked, client, interrupted, targetVars, astray>>

\* wait() returns a client; complete_lock_profile_mapping or
\* complete_unlock_profile_mapping.
Reap(c, t) ==
    /\ Forked(c)
    /\ Ended(c, t)
    /\ client' = [client EXCEPT ![c][t] = "none"]
    /\ success' = [success EXCEPT ![c] = @ /\ client[c][t] = "succeeded"]
    /\ lockTable' =
         IF stage[c] = "locking" /\ client[c][t] = "succeeded"
           THEN [lockTable EXCEPT ![c] = @ \cup {t}]
           ELSE lockTable
    /\ UNCHANGED <<stage, unforked, interrupted, targetVars, astray>>

\* Fault: the flag is not looked at, nor are the locks released.
LockSucceedsAnyway(c) ==
    /\ stage[c] = "locking" /\ Complete(c)
    /\ LeaveIterator(c, "locked")

LockSucceeds(c) ==
    /\ stage[c] = "locking" /\ Complete(c)
    /\ success[c] /\ ~interrupted[c]
    /\ LeaveIterator(c, "locked")

\* Fault: a failed lock() just returns.
LockFailsOnly(c) ==
    /\ stage[c] = "locking" /\ Complete(c)
    /\ ~(success[c] /\ ~interrupted[c])
    /\ Iterate(c, "undoing", {})
    /\ UNCHANGED <<client, lockTable, interrupted, targetVars, astray>>

\* The targets in the lock table are unlocked again.
LockFails(c) ==
    /\ stage[c] = "locking" /\ Complete(c)
    /\ ~(success[c] /\ ~interrupted[c])
    /\ Iterate(c, "undoing", lockTable[c])
    /\ UNCHANGED <<client, lockTable, interrupted, targetVars, astray>>

\* lock() returns FALSE, or unlock() returns.
Returns(c) ==
    /\ stage[c] \in {"undoing", "unlocking"} /\ Complete(c)
    /\ LeaveIterator(c, "idle")

\* Between lock() and unlock() a deployment installs new profiles.
SetProfile(c, t) ==
    /\ stage[c] = "locked" /\ t \in TargetsOf[c]
    /\ \E p \in Profiles[t] : profile' = [profile EXCEPT ![t] = p]
    /\ UNCHANGED <<coordinatorVars, job, lockFile, notified, astray>>

\* complete is called with pid -1, which has no target name: the lookup in the
\* profile mapping table dereferences NULL.  Clients are not waited for.
Crash(c) ==
    /\ stage' = [stage EXCEPT ![c] = "crashed"]
    /\ unforked' = [unforked EXCEPT ![c] = {}]
    /\ client' = [client EXCEPT ![c] = [t \in Target |-> "none"]]
    /\ lockTable' = [lockTable EXCEPT ![c] = {}]
    /\ success' = [success EXCEPT ![c] = TRUE]
    /\ UNCHANGED <<targetVars, astray>>

ForkFails(c) ==
    /\ c \in Interruptible
    /\ Working(c) /\ unforked[c] # {}
    /\ Crash(c)
    /\ UNCHANGED interrupted

\* SIGINT while no client has ended: wait() returns -1.
InterruptWait(c) ==
    /\ c \in Interruptible
    /\ Forked(c) /\ ~Complete(c)
    /\ \A t \in Target : ~Ended(c, t)
    /\ Crash(c)
    /\ interrupted' = [interrupted EXCEPT ![c] = TRUE]

\* SIGINT while its handler is not installed: after the post-hook and inside
\* the transition, where the default action ends the process.
Killed(c) ==
    /\ c \in Interruptible
    /\ stage[c] = "locked" \/ Complete(c)
    /\ Crash(c)
    /\ UNCHANGED interrupted

\* SIGINT at any other moment of lock() and unlock().
InterruptOtherwise(c) ==
    /\ c \in Interruptible
    /\ Working(c) /\ ~interrupted[c]
    /\ \/ unforked[c] # {}
       \/ \E t \in Target : Ended(c, t)
       \/ Complete(c)
    /\ interrupted' = [interrupted EXCEPT ![c] = TRUE]
    /\ UNCHANGED <<stage, unforked, client, lockTable, success, targetVars, astray>>

-----------------------------------------------------------------------------
(* A job on a target: acquire_locks() or release_locks(). *)

\* Fault: no signal is emitted for a failure.
ExitSilently(j, ok) ==
    /\ job' = [job EXCEPT ![j] = NoJob]
    /\ client' = [c \in Coordinator |-> [t \in Target |->
                    IF client[c][t] = j /\ ok THEN "succeeded" ELSE client[c][t]]]
    /\ UNCHANGED <<stage, unforked, lockTable, success, interrupted, profile, astray>>

\* The process exits; the client that waits for it, if any, gets the signal.
Exit(j, ok) ==
    /\ job' = [job EXCEPT ![j] = NoJob]
    /\ client' = [c \in Coordinator |-> [t \in Target |->
                    IF client[c][t] = j
                      THEN IF ok THEN "succeeded" ELSE "failed"
                      ELSE client[c][t]]]
    /\ UNCHANGED <<stage, unforked, lockTable, success, interrupted, profile, astray>>

\* One service is notified and answers; the others are notified in any case.
Notify(j, op, value) ==
    /\ job[j].op = op
    /\ job[j].left # << >>
    /\ \E agrees \in BOOLEAN :
        /\ job' = [job EXCEPT ![j].left = Tail(@), ![j].ok = @ /\ agrees]
        /\ notified' = IF agrees THEN [notified EXCEPT ![Head(job[j].left)] = value]
                       ELSE notified
    /\ UNCHANGED <<coordinatorVars, lockFile, profile, astray>>

LockService(j) == Notify(j, "lock", TRUE)
UndoService(j) == Notify(j, "undo", FALSE)
UnlockService(j) == Notify(j, "unlock", FALSE)

\* Not all services agreed: unlock_services.
Undo(j) ==
    /\ job[j].op = "lock" /\ job[j].left = << >> /\ ~job[j].ok
    /\ job' = [job EXCEPT ![j].op = "undo", ![j].left = job[j].services]
    /\ UNCHANGED <<coordinatorVars, lockFile, notified, profile, astray>>

UndoEnds(j) ==
    /\ job[j].op = "undo" /\ job[j].left = << >>
    /\ Exit(j, FALSE)
    /\ UNCHANGED <<lockFile, notified>>

\* Fault: the lock file is opened without O_EXCL.
LockProfileShared(j) ==
    /\ job[j].op = "lock" /\ job[j].left = << >> /\ job[j].ok
    /\ lockFile' = [lockFile EXCEPT ![job[j].target] = job[j].by]
    /\ Exit(j, TRUE)
    /\ UNCHANGED notified

\* lock_profile
LockProfile(j) ==
    /\ job[j].op = "lock" /\ job[j].left = << >> /\ job[j].ok
    /\ \/ /\ lockFile[job[j].target] = "none"
          /\ lockFile' = [lockFile EXCEPT ![job[j].target] = job[j].by]
          /\ Exit(j, TRUE)
       \/ /\ lockFile[job[j].target] # "none"
          /\ Exit(j, FALSE)
          /\ UNCHANGED lockFile
    /\ UNCHANGED notified

\* unlock_profile
UnlockProfile(j) ==
    /\ job[j].op = "unlock" /\ job[j].left = << >>
    /\ lockFile' = [lockFile EXCEPT ![job[j].target] = "none"]
    /\ Exit(j, job[j].ok /\ lockFile[job[j].target] # "none")
    /\ UNCHANGED notified

Handle(j) ==
    \/ LockService(j) \/ UndoService(j) \/ UnlockService(j)
    \/ Undo(j) \/ UndoEnds(j) \/ LockProfile(j) \/ UnlockProfile(j)

\* What a coordinator that is working does next.
Proceed(c) ==
    \/ \E t \in Target : ForkRequest(c, t) \/ ForkRefused(c, t) \/ Reap(c, t)
    \/ LockSucceeds(c) \/ LockFails(c) \/ Returns(c)

\* What users, the network and the operating system do.
Disturb(c) ==
    \/ BeginLock(c) \/ BeginUnlock(c)
    \/ \E t \in Target :
        ForkUnreachable(c, t) \/ ConnectionBreaks(c, t) \/ SetProfile(c, t)
    \/ ForkFails(c) \/ InterruptWait(c) \/ InterruptOtherwise(c) \/ Killed(c)

Next ==
    \/ \E c \in Coordinator : Proceed(c) \/ Disturb(c)
    \/ \E j \in Job : Handle(j)

Spec == Init /\ [][Next]_vars

\* Coordinators are not starved, and the activities of services end.
FairSpec ==
    /\ Spec
    /\ \A c \in Coordinator : WF_vars(Proceed(c))
    /\ \A j \in Job : WF_vars(Handle(j))

-----------------------------------------------------------------------------
(* Properties. *)

\* The types, and no client waits for a job that is over.
TypeOK ==
    /\ stage \in [Coordinator -> Stages]
    /\ unforked \in [Coordinator -> SUBSET Target]
    /\ client \in [Coordinator -> [Target -> Job \cup {"none", "succeeded", "failed"}]]
    /\ \A c \in Coordinator, t \in Target :
        client[c][t] \in Job => Runs(client[c][t], c, t)
    /\ lockTable \in [Coordinator -> SUBSET Target]
    /\ success \in [Coordinator -> BOOLEAN]
    /\ interrupted \in [Coordinator -> BOOLEAN]
    /\ job \in [Job -> Jobs \cup {NoJob}]
    /\ lockFile \in [Target -> Coordinator \cup {"none"}]
    /\ notified \in [Service -> BOOLEAN]
    /\ profile \in [Target -> Profile]
    /\ \A t \in Target : profile[t] \in Profiles[t]
    /\ astray \in [Coordinator -> SUBSET Target]

\* Whoever got TRUE from lock() owns the lock file of each of its targets until
\* it asks for its removal, whatever jobs of earlier attempts, of crashed
\* coordinators or of others still run on them.
LocksHeld ==
    \A c \in Coordinator : stage[c] = "locked" =>
        \A t \in TargetsOf[c] : lockFile[t] = c

\* No two coordinators with a target in common are inside their transition.
Abstract == INSTANCE Exclusion WITH inside <- {c \in Coordinator : stage[c] = "locked"}
Excludes == Abstract!Spec

\* A lock() that failed and an unlock() leave no lock behind, except on targets
\* that could not be asked, could not carry the request out or could not answer.
NothingLeftLocked ==
    \A c \in Coordinator : stage[c] = "idle" =>
        \A t \in Target : lockFile[t] = c => t \in astray[c]

\* lock() and unlock() return: nobody waits for a lock.
CommandsReturn ==
    \A c \in Coordinator : Working(c) ~> ~Working(c)

\* While a coordinator is inside its transition, no service on its targets that
\* was notified of the lock is told that the transition is over.
ServicesStayLocked ==
    [][\A c \in Coordinator, t \in Target, s \in Service :
        /\ stage[c] = "locked" /\ t \in TargetsOf[c]
        /\ \E i \in DOMAIN profile[t].services : profile[t].services[i] = s
        /\ notified[s]
        => notified'[s]]_vars

\* An interrupted lock() that ends has released the locks that its lock table
\* holds ("The lock phase has been interrupted, unlocking all targets again").
InterruptUnlocks ==
    [][\A c \in Coordinator, t \in Target :
        /\ stage[c] \in {"locking", "undoing"} /\ t \in lockTable[c]
        /\ ~Working(c)' /\ stage'[c] # "locked" /\ interrupted'[c]
        => lockFile'[t] # c \/ t \in astray[c]]_vars
=============================================================================
