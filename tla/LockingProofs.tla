--------------------------- MODULE LockingProofs ---------------------------
(***************************************************************************)
(* What locking guarantees for any number of coordinators, targets,        *)
(* services and jobs, whatever connections break and whoever crashes.      *)
(***************************************************************************)
EXTENDS Locking, TLAPS

-----------------------------------------------------------------------------
(* The inductive invariant. *)

\* c counts on the lock of t: it holds it, or it is about to give it back.
Possesses(c, t) ==
    \/ stage[c] = "locked" /\ t \in TargetsOf[c]
    \/ stage[c] = "locking" /\ (t \in lockTable[c] \/ client[c][t] = "succeeded")
    \/ stage[c] \in {"undoing", "unlocking"} /\ t \in unforked[c]

\* A job that removes the lock file of t when it ends.
Removes(j, t) == job[j] # NoJob /\ job[j].op = "unlock" /\ job[j].target = t

\* Nobody else has the lock file of a target that c counts on, and no job is
\* going to remove it.
Possession ==
    \A c \in Coordinator, t \in Target : Possesses(c, t) =>
        lockFile[t] = c /\ \A j \in Job : ~Removes(j, t)

\* A lock file is removed once, on behalf of the coordinator that created it.
Removal ==
    \A t \in Target, j \in Job : Removes(j, t) =>
        /\ lockFile[t] = job[j].by
        /\ \A i \in Job : Removes(i, t) => i = j

\* A client waits for the kind of job that its coordinator is asking for, and
\* outside lock() and unlock() there are no clients.
ClientsOf(c) ==
    \A t \in Target :
        /\ stage[c] = "locking" /\ client[c][t] \in Job =>
              job[client[c][t]].op # "unlock"
        /\ stage[c] \in {"undoing", "unlocking"} /\ client[c][t] \in Job =>
              job[client[c][t]].op = "unlock"
        /\ ~Working(c) => client[c][t] = "none"

\* A lock() without a failure so far has asked, or is going to ask, each target,
\* and remembers those that agreed.
Remembered(c) ==
    /\ stage[c] = "locking" /\ success[c] =>
          \A t \in TargetsOf[c] :
            t \in unforked[c] \/ client[c][t] # "none" \/ t \in lockTable[c]
    /\ stage[c] \notin {"locking", "undoing"} => lockTable[c] = {}

IInv ==
    /\ TypeOK
    /\ Possession
    /\ Removal
    /\ \A c \in Coordinator : ClientsOf(c) /\ Remembered(c)

-----------------------------------------------------------------------------
(* Type correctness. *)

LEMMA InitType == Init => TypeOK
<1> SUFFICES ASSUME Init PROVE TypeOK
  OBVIOUS
<1>1. profile \in [Target -> Profile] /\ \A t \in Target : profile[t] \in Profiles[t]
  BY LockingConstants DEF Init
<1> QED
  BY <1>1, LockingConstants DEF Init, TypeOK, Stages, Runs

\* The coordinators' own variables, apart from their clients.
Bookkeeping ==
    /\ stage \in [Coordinator -> Stages]
    /\ unforked \in [Coordinator -> SUBSET Target]
    /\ lockTable \in [Coordinator -> SUBSET Target]
    /\ success \in [Coordinator -> BOOLEAN]
    /\ interrupted \in [Coordinator -> BOOLEAN]
    /\ astray \in [Coordinator -> SUBSET Target]

\* The clients and the jobs they wait for.
Waiting ==
    /\ client \in [Coordinator -> [Target -> Job \cup {"none", "succeeded", "failed"}]]
    /\ \A c \in Coordinator, t \in Target :
        client[c][t] \in Job => Runs(client[c][t], c, t)

\* The state of the targets.
Targets ==
    /\ job \in [Job -> Jobs \cup {NoJob}]
    /\ lockFile \in [Target -> Coordinator \cup {"none"}]
    /\ notified \in [Service -> BOOLEAN]
    /\ profile \in [Target -> Profile]
    /\ \A t \in Target : profile[t] \in Profiles[t]

LEMMA TypeParts ==
    /\ TypeOK <=> Bookkeeping /\ Waiting /\ Targets
    /\ TypeOK' <=> Bookkeeping' /\ Waiting' /\ Targets'
BY DEF TypeOK, Bookkeeping, Waiting, Targets

\* A client that ends, or that is not there any more, waits for nothing.
LEMMA NoLongerWaiting ==
    ASSUME TypeOK, UNCHANGED job, NEW c \in Coordinator,
           \/ UNCHANGED client
           \/ \E t \in Target, v \in {"failed", "none"} :
                client' = [client EXCEPT ![c][t] = v]
           \/ client' = [client EXCEPT ![c] = [x \in Target |-> "none"]]
    PROVE  Waiting'
<1>1. "none" \notin Job /\ "failed" \notin Job
  BY LockingConstants
<1>2. CASE UNCHANGED client
  BY <1>2 DEF TypeOK, Waiting, Runs
<1>3. ASSUME NEW t \in Target, NEW v \in {"failed", "none"},
             client' = [client EXCEPT ![c][t] = v]
      PROVE  Waiting'
  BY <1>1, <1>3 DEF TypeOK, Waiting, Runs
<1>4. CASE client' = [client EXCEPT ![c] = [x \in Target |-> "none"]]
  BY <1>1, <1>4 DEF TypeOK, Waiting, Runs
<1> QED
  BY <1>2, <1>3, <1>4

\* The end of a client, and its collection, keep the types.
LEMMA ClientType ==
    ASSUME TypeOK, NEW c \in Coordinator, NEW t \in Target,
           ForkRefused(c, t) \/ ForkUnreachable(c, t) \/ ConnectionBreaks(c, t) \/ Reap(c, t)
    PROVE  TypeOK'
<1>1. Bookkeeping' /\ UNCHANGED targetVars
  <2>1. Bookkeeping
    BY TypeParts
  <2>2. CASE Reap(c, t)
    BY <2>1, <2>2 DEF Bookkeeping, targetVars, Reap
  <2>3. CASE ForkRefused(c, t) \/ ForkUnreachable(c, t) \/ ConnectionBreaks(c, t)
    BY <2>1, <2>3 DEF Bookkeeping, targetVars, Forks, ForkRefused, ForkUnreachable,
                      ConnectionBreaks
  <2> QED
    BY <2>2, <2>3
<1>2. \E v \in {"failed", "none"} : client' = [client EXCEPT ![c][t] = v]
  BY DEF ForkRefused, ForkUnreachable, ConnectionBreaks, Reap
<1>3. Waiting'
  BY <1>1, <1>2, NoLongerWaiting DEF targetVars
<1>4. Targets'
  BY <1>1 DEF TypeOK, Targets, targetVars
<1> QED
  BY <1>1, <1>3, <1>4, TypeParts

\* So do the steps from one stage to another.
LEMMA StageType ==
    ASSUME TypeOK, NEW c \in Coordinator,
           \/ BeginLock(c) \/ BeginUnlock(c) \/ LockSucceeds(c) \/ LockFails(c)
           \/ Returns(c) \/ ForkFails(c) \/ InterruptWait(c) \/ Killed(c)
           \/ InterruptOtherwise(c)
    PROVE  TypeOK'
<1>0. Bookkeeping
  BY TypeParts
<1>1. Bookkeeping' /\ UNCHANGED targetVars
  <2>1. CASE BeginLock(c) \/ BeginUnlock(c) \/ LockFails(c)
    <3>1. TargetsOf[c] \in SUBSET Target /\ lockTable[c] \in SUBSET Target
      BY <1>0, LockingConstants DEF Bookkeeping
    <3>2. PICK s \in Stages, targets \in SUBSET Target : Iterate(c, s, targets)
      BY <2>1, <3>1 DEF BeginLock, BeginUnlock, LockFails, Stages
    <3>3. /\ interrupted' \in [Coordinator -> BOOLEAN]
          /\ astray' \in [Coordinator -> SUBSET Target]
          /\ UNCHANGED <<lockTable, targetVars>>
      BY <1>0, <2>1 DEF Bookkeeping, BeginLock, BeginUnlock, LockFails
    <3> QED
      BY <1>0, <3>2, <3>3 DEF Bookkeeping, Iterate
  <2>2. CASE LockSucceeds(c) \/ Returns(c)
    BY <1>0, <2>2 DEF Bookkeeping, targetVars, LockSucceeds, Returns, LeaveIterator, Stages
  <2>3. CASE ForkFails(c) \/ InterruptWait(c) \/ Killed(c)
    BY <1>0, <2>3 DEF Bookkeeping, targetVars, ForkFails, InterruptWait, Killed, Crash, Stages
  <2>4. CASE InterruptOtherwise(c)
    BY <1>0, <2>4 DEF Bookkeeping, targetVars, InterruptOtherwise
  <2> QED
    BY <2>1, <2>2, <2>3, <2>4
<1>2. \/ UNCHANGED client
      \/ client' = [client EXCEPT ![c] = [x \in Target |-> "none"]]
  BY DEF BeginLock, BeginUnlock, LockSucceeds, LockFails, Returns, LeaveIterator,
         ForkFails, InterruptWait, Killed, Crash, InterruptOtherwise
<1>3. Waiting'
  BY <1>1, <1>2, NoLongerWaiting DEF targetVars
<1>4. Targets'
  BY <1>1 DEF TypeOK, Targets, targetVars
<1> QED
  BY <1>1, <1>3, <1>4, TypeParts

LEMMA RequestType ==
    ASSUME TypeOK, NEW c \in Coordinator, NEW t \in Target, ForkRequest(c, t)
    PROVE  TypeOK'
<1>1. PICK j \in JobsOf[c], services \in Seq(Service), ok \in BOOLEAN :
        /\ job[j] = NoJob
        /\ job' = [job EXCEPT ![j] =
                     [op |-> Request(c), by |-> c, target |-> t,
                      services |-> services, left |-> services, ok |-> ok]]
        /\ client' = [client EXCEPT ![c][t] = j]
  <2>1. profile[t].services \in Seq(Service) /\ << >> \in Seq(Service)
    BY LockingConstants DEF TypeOK, Profile
  <2> QED
    BY <2>1 DEF ForkRequest
<1>2. j \in Job
  BY LockingConstants
<1>3. Bookkeeping'
  BY DEF TypeOK, Bookkeeping, ForkRequest, Forks
<1>4. Targets'
  BY <1>1, <1>2 DEF TypeOK, Targets, ForkRequest, Forks, Request, Jobs
<1>5. Waiting'
  <2>1. \A d \in Coordinator, x \in Target : client[d][x] # j
    BY <1>1, <1>2 DEF TypeOK, Runs
  <2>2. job'[j] # NoJob /\ job'[j].by = c /\ job'[j].target = t
    BY <1>1, <1>2 DEF TypeOK, NoJob, Request
  <2> QED
    BY <1>1, <1>2, <2>1, <2>2 DEF TypeOK, Waiting, Runs
<1> QED
  BY <1>3, <1>4, <1>5, TypeParts

\* A job that goes on keeps its coordinator and its target, and one that exits
\* leaves no client behind.
LEMMA GoesOn ==
    ASSUME TypeOK, NEW j \in Job,
           \/ LockService(j) \/ UndoService(j) \/ UnlockService(j) \/ Undo(j)
    PROVE  /\ job[j] \in Jobs
           /\ job' \in [Job -> Jobs \cup {NoJob}]
           /\ \A i \in Job : /\ (job'[i] = NoJob) <=> (job[i] = NoJob)
                             /\ job'[i].by = job[i].by /\ job'[i].target = job[i].target
                             /\ (job'[i].op = "unlock") <=> (job[i].op = "unlock")
           /\ UNCHANGED <<coordinatorVars, lockFile, profile, astray>>
           /\ notified' \in [Service -> BOOLEAN]
<1>1. job[j].op # "none"
  BY DEF LockService, UndoService, UnlockService, Undo, Notify
<1>2. job[j] \in Jobs
  BY <1>1 DEF TypeOK, NoJob
<1>3. PICK op \in {"lock", "undo", "unlock"}, left \in Seq(Service), ok \in BOOLEAN :
        /\ job' = [job EXCEPT ![j] = [@ EXCEPT !.op = op, !.left = left, !.ok = ok]]
        /\ (op = "unlock") <=> (job[j].op = "unlock")
  <2>0. /\ job[j].op \in {"lock", "undo", "unlock"} /\ job[j].ok \in BOOLEAN
        /\ job[j].left \in Seq(Service) /\ job[j].services \in Seq(Service)
    BY <1>2 DEF Jobs
  <2>1. CASE Undo(j)
    <3>1. job' = [job EXCEPT ![j] = [@ EXCEPT !.op = "undo", !.left = job[j].services,
                                              !.ok = job[j].ok]]
      BY <1>2, <2>1 DEF Undo, Jobs, TypeOK
    <3> QED
      BY <2>0, <2>1, <3>1 DEF Undo
  <2>2. CASE LockService(j) \/ UndoService(j) \/ UnlockService(j)
    <3>1. PICK agrees \in BOOLEAN :
            job' = [job EXCEPT ![j].left = Tail(@), ![j].ok = @ /\ agrees]
      BY <2>2 DEF LockService, UndoService, UnlockService, Notify
    <3>2. job[j].left # << >>
      BY <2>2 DEF LockService, UndoService, UnlockService, Notify
    <3>3. job' = [job EXCEPT ![j] = [@ EXCEPT !.op = job[j].op, !.left = Tail(job[j].left),
                                              !.ok = job[j].ok /\ agrees]]
      BY <1>2, <3>1 DEF Jobs, TypeOK
    <3>4. Tail(job[j].left) \in Seq(Service) /\ (job[j].ok /\ agrees) \in BOOLEAN
      BY <2>0, <3>2
    <3> QED
      BY <2>0, <3>3, <3>4
  <2> QED
    BY <1>1, <2>1, <2>2
<1>4. [job[j] EXCEPT !.op = op, !.left = left, !.ok = ok] \in Jobs
  BY <1>2 DEF Jobs
<1>5. job' \in [Job -> Jobs \cup {NoJob}]
  BY <1>3, <1>4 DEF TypeOK
<1>6. \A r \in Jobs : r # NoJob /\ r.op # "none"
  BY DEF Jobs, NoJob
<1>7. ASSUME NEW i \in Job
      PROVE  /\ (job'[i] = NoJob) <=> (job[i] = NoJob)
             /\ job'[i].by = job[i].by /\ job'[i].target = job[i].target
             /\ (job'[i].op = "unlock") <=> (job[i].op = "unlock")
  <2>1. CASE i # j
    BY <1>3, <2>1 DEF TypeOK
  <2>2. CASE i = j
    BY <1>2, <1>3, <1>4, <1>6, <2>2 DEF TypeOK, Jobs
  <2> QED
    BY <2>1, <2>2
<1>8. notified' \in [Service -> BOOLEAN]
  BY <1>2 DEF TypeOK, LockService, UndoService, UnlockService, Undo, Notify, Jobs
<1>9. UNCHANGED <<coordinatorVars, lockFile, profile, astray>>
  BY DEF LockService, UndoService, UnlockService, Undo, Notify
<1> QED
  BY <1>2, <1>5, <1>7, <1>8, <1>9

\* The process of job j exits.
LEMMA ExitType ==
    ASSUME TypeOK, NEW j \in Job, NEW ok, Exit(j, ok),
           lockFile' \in [Target -> Coordinator \cup {"none"}], UNCHANGED notified
    PROVE  TypeOK'
<1>1. job' = [job EXCEPT ![j] = NoJob] /\ UNCHANGED profile
  BY DEF Exit
<1>2. Bookkeeping'
  BY TypeParts DEF Exit, Bookkeeping
<1>3. Targets'
  BY <1>1 DEF TypeOK, Targets
<1>4. Waiting'
  <2>1. \A c \in Coordinator, t \in Target :
          \/ client'[c][t] \in {"succeeded", "failed"}
          \/ client'[c][t] = client[c][t] /\ client[c][t] # j
    BY DEF Exit
  <2>2. "succeeded" \notin Job /\ "failed" \notin Job
    BY LockingConstants
  <2>3. client' \in [Coordinator -> [Target -> Job \cup {"none", "succeeded", "failed"}]]
    BY DEF Exit, TypeOK
  <2>4. ASSUME NEW c \in Coordinator, NEW t \in Target, client'[c][t] \in Job
        PROVE  Runs(client[c][t], c, t)'
    <3>1. client'[c][t] = client[c][t] /\ client[c][t] # j
      BY <2>1, <2>2, <2>4
    <3>2. Runs(client[c][t], c, t) /\ client[c][t] \in Job
      BY <2>4, <3>1 DEF TypeOK
    <3>3. job'[client[c][t]] = job[client[c][t]]
      BY <1>1, <3>1, <3>2 DEF TypeOK
    <3> QED
      BY <3>1, <3>2, <3>3 DEF Runs
  <2> QED
    BY <2>3, <2>4 DEF Waiting
<1> QED
  BY <1>2, <1>3, <1>4, TypeParts

\* A job runs when its process takes a step.
LEMMA JobRuns ==
    ASSUME TypeOK, NEW j \in Job, UndoEnds(j) \/ LockProfile(j) \/ UnlockProfile(j)
    PROVE  job[j] \in Jobs /\ job[j].target \in Target /\ job[j].by \in Coordinator
<1>1. job[j].op \in {"lock", "undo", "unlock"}
  BY DEF UndoEnds, LockProfile, UnlockProfile
<1>2. NoJob.op = "none"
  BY DEF NoJob
<1>3. job[j] # NoJob
  BY <1>1, <1>2
<1> QED
  BY <1>3 DEF TypeOK, Jobs

LEMMA HandleType ==
    ASSUME TypeOK, NEW j \in Job, Handle(j)
    PROVE  TypeOK'
<1>1. CASE LockService(j) \/ UndoService(j) \/ UnlockService(j) \/ Undo(j)
  <2>1. Bookkeeping' /\ Targets'
    BY <1>1, GoesOn, TypeParts DEF Bookkeeping, Targets, coordinatorVars
  <2>2. Waiting'
    <3>1. UNCHANGED client
      BY <1>1, GoesOn DEF coordinatorVars
    <3>2. \A i \in Job : \A c, t : Runs(i, c, t) => Runs(i, c, t)'
      BY <1>1, GoesOn DEF Runs
    <3> QED
      BY <3>1, <3>2 DEF TypeOK, Waiting
  <2> QED
    BY <2>1, <2>2, TypeParts
<1>2. CASE UndoEnds(j) \/ LockProfile(j) \/ UnlockProfile(j)
  <2>1. lockFile' \in [Target -> Coordinator \cup {"none"}] /\ UNCHANGED notified
    BY <1>2, JobRuns DEF TypeOK, UndoEnds, LockProfile, UnlockProfile
  <2>2. \E ok : Exit(j, ok)
    BY <1>2 DEF UndoEnds, LockProfile, UnlockProfile
  <2> QED
    BY <2>1, <2>2, ExitType
<1> QED
  BY <1>1, <1>2 DEF Handle

LEMMA NextType == TypeOK /\ [Next]_vars => TypeOK'
<1> SUFFICES ASSUME TypeOK, [Next]_vars PROVE TypeOK'
  OBVIOUS
<1>1. ASSUME NEW c \in Coordinator, Proceed(c) PROVE TypeOK'
  BY <1>1, ClientType, StageType, RequestType DEF Proceed
<1>2. ASSUME NEW c \in Coordinator, Disturb(c) PROVE TypeOK'
  <2>1. ASSUME NEW t \in Target, SetProfile(c, t) PROVE TypeOK'
    <3>1. PICK p \in Profiles[t] : profile' = [profile EXCEPT ![t] = p]
      BY <2>1 DEF SetProfile
    <3>2. p \in Profile
      BY LockingConstants
    <3>3. Targets'
      BY <2>1, <3>1, <3>2 DEF TypeOK, Targets, SetProfile
    <3>4. Bookkeeping' /\ Waiting'
      BY <2>1, TypeParts DEF SetProfile, coordinatorVars, Bookkeeping, Waiting, Runs
    <3> QED
      BY <3>3, <3>4, TypeParts
  <2> QED
    BY <1>2, <2>1, ClientType, StageType DEF Disturb
<1>3. ASSUME NEW j \in Job, Handle(j) PROVE TypeOK'
  BY <1>3, HandleType
<1>4. CASE UNCHANGED vars
  BY <1>4, TypeParts
     DEF vars, coordinatorVars, targetVars, Bookkeeping, Waiting, Targets, Runs
<1> QED
  BY <1>1, <1>2, <1>3, <1>4 DEF Next

\* At every instant the state is well typed and no client waits in vain.
THEOREM TypeCorrect == Spec => []TypeOK
BY InitType, NextType, PTL DEF Spec

-----------------------------------------------------------------------------
(* The coordinators keep the invariant. *)

LEMMA InitInvariant == Init => IInv
<1> SUFFICES ASSUME Init PROVE IInv
  OBVIOUS
<1>1. \A j \in Job, t \in Target : ~Removes(j, t)
  BY DEF Init, Removes
<1>2. \A c \in Coordinator, t \in Target : ~Possesses(c, t)
  BY DEF Init, Possesses
<1> QED
  BY <1>1, <1>2, InitType, LockingConstants
     DEF Init, IInv, Possession, Removal, ClientsOf, Remembered, Working

\* What the invariant says of coordinator d is the same as before.
Same(d) ==
    /\ stage'[d] = stage[d] /\ unforked'[d] = unforked[d] /\ client'[d] = client[d]
    /\ lockTable'[d] = lockTable[d] /\ success'[d] = success[d]

\* A step of c that takes no possession and leaves the targets alone.
LEMMA CoordinatorStep ==
    ASSUME IInv, TypeOK', UNCHANGED <<job, lockFile>>,
           NEW c \in Coordinator, \A d \in Coordinator \ {c} : Same(d),
           \A t \in Target : Possesses(c, t)' => Possesses(c, t),
           ClientsOf(c)', Remembered(c)'
    PROVE  IInv'
<1>1. ASSUME NEW d \in Coordinator PROVE ClientsOf(d)' /\ Remembered(d)'
  BY DEF IInv, Same, ClientsOf, Remembered, Working
<1>2. \A d \in Coordinator, t \in Target : Possesses(d, t)' => Possesses(d, t)
  BY DEF Same, Possesses
<1>3. Possession' /\ Removal'
  BY <1>2 DEF IInv, Possession, Removal, Removes
<1> QED
  BY <1>1, <1>3 DEF IInv

LEMMA BeginLockInvariant ==
    ASSUME IInv, NEW c \in Coordinator, BeginLock(c)
    PROVE  IInv'
<1>1. TypeOK' /\ UNCHANGED <<job, lockFile>>
  BY StageType DEF IInv, BeginLock, targetVars
<1>2. \A d \in Coordinator \ {c} : Same(d)
  BY DEF IInv, TypeOK, BeginLock, Iterate, Same
<1>3. /\ stage'[c] = "locking" /\ unforked'[c] = TargetsOf[c]
      /\ UNCHANGED <<client, lockTable>>
  BY DEF IInv, TypeOK, BeginLock, Iterate
<1>4. lockTable[c] = {} /\ \A t \in Target : client[c][t] = "none"
  BY DEF IInv, ClientsOf, Remembered, BeginLock, Working
<1>5. ClientsOf(c)' /\ Remembered(c)' /\ \A t \in Target : ~Possesses(c, t)'
  BY <1>3, <1>4, LockingConstants DEF ClientsOf, Remembered, Possesses, Working
<1> QED
  BY <1>1, <1>2, <1>5, CoordinatorStep

LEMMA BeginUnlockInvariant ==
    ASSUME IInv, NEW c \in Coordinator, BeginUnlock(c)
    PROVE  IInv'
<1>1. TypeOK' /\ UNCHANGED <<job, lockFile>>
  BY StageType DEF IInv, BeginUnlock, targetVars
<1>2. \A d \in Coordinator \ {c} : Same(d)
  BY DEF IInv, TypeOK, BeginUnlock, Iterate, Same
<1>3. /\ stage[c] = "locked" /\ stage'[c] = "unlocking" /\ unforked'[c] = TargetsOf[c]
      /\ UNCHANGED <<client, lockTable>>
  BY DEF IInv, TypeOK, BeginUnlock, Iterate
<1>4. lockTable[c] = {} /\ \A t \in Target : client[c][t] = "none"
  BY <1>3 DEF IInv, ClientsOf, Remembered, Working
<1>5. ClientsOf(c)' /\ Remembered(c)'
  BY <1>3, <1>4, LockingConstants DEF ClientsOf, Remembered, Working
<1>6. \A t \in Target : Possesses(c, t)' => Possesses(c, t)
  BY <1>3 DEF Possesses
<1> QED
  BY <1>1, <1>2, <1>5, <1>6, CoordinatorStep

\* A client that does not get an answer, and one that is collected.
LEMMA ClientInvariant ==
    ASSUME IInv, NEW c \in Coordinator, NEW t \in Target,
           ForkRefused(c, t) \/ ForkUnreachable(c, t) \/ ConnectionBreaks(c, t) \/ Reap(c, t)
    PROVE  IInv'
<1>1. TypeOK' /\ UNCHANGED <<job, lockFile>>
  BY ClientType
     DEF IInv, Forks, ForkRefused, ForkUnreachable, ConnectionBreaks, Reap, targetVars
<1>2. \A d \in Coordinator \ {c} : Same(d)
  BY DEF IInv, TypeOK, Forks, ForkRefused, ForkUnreachable, ConnectionBreaks, Reap, Same
<1>3. /\ stage'[c] = stage[c] /\ unforked'[c] \subseteq unforked[c]
      /\ unforked[c] \ {t} \subseteq unforked'[c]
      /\ \A x \in Target \ {t} : client'[c][x] = client[c][x]
      /\ client'[c][t] \in {"none", "failed"}
  BY DEF IInv, TypeOK, Forks, ForkRefused, ForkUnreachable, ConnectionBreaks, Reap
<1>4. Working(c)
  BY LockingConstants
     DEF IInv, ClientsOf, Forks, ForkRefused, ForkUnreachable, ConnectionBreaks, Reap, Forked
<1>5. ClientsOf(c)'
  BY <1>1, <1>3, <1>4, LockingConstants DEF IInv, ClientsOf, Working
<1>6. CASE Reap(c, t)
  <2>1. /\ success'[c] = (success[c] /\ client[c][t] = "succeeded")
        /\ lockTable'[c] = IF stage[c] = "locking" /\ client[c][t] = "succeeded"
                             THEN lockTable[c] \cup {t} ELSE lockTable[c]
        /\ unforked[c] = {} /\ unforked'[c] = {}
    BY <1>6 DEF IInv, TypeOK, Reap, Forked
  <2>2. \A x \in Target : Possesses(c, x)' => Possesses(c, x)
    BY <1>3, <2>1 DEF Possesses
  <2>3. Remembered(c)'
    BY <1>3, <2>1, LockingConstants DEF IInv, Remembered
  <2> QED
    BY <1>1, <1>2, <1>5, <2>2, <2>3, CoordinatorStep
<1>7. CASE ~Reap(c, t)
  <2>1. /\ success'[c] = success[c] /\ lockTable'[c] = lockTable[c]
        /\ client'[c][t] = "failed"
    BY <1>7 DEF IInv, TypeOK, Forks, ForkRefused, ForkUnreachable, ConnectionBreaks
  <2>2. \A x \in Target : Possesses(c, x)' => Possesses(c, x)
    BY <1>3, <2>1 DEF Possesses
  <2>3. Remembered(c)'
    BY <1>3, <2>1, LockingConstants DEF IInv, Remembered
  <2> QED
    BY <1>1, <1>2, <1>5, <2>2, <2>3, CoordinatorStep
<1> QED
  BY <1>6, <1>7

\* lock() returns TRUE: every target agreed and is remembered.
LEMMA LockSucceedsInvariant ==
    ASSUME IInv, NEW c \in Coordinator, LockSucceeds(c)
    PROVE  IInv'
<1>1. TypeOK' /\ UNCHANGED <<job, lockFile>>
  BY StageType DEF IInv, LockSucceeds, LeaveIterator, targetVars
<1>2. \A d \in Coordinator \ {c} : Same(d)
  BY DEF IInv, TypeOK, LockSucceeds, LeaveIterator, Same
<1>3. /\ stage[c] = "locking" /\ success[c] /\ stage'[c] = "locked"
      /\ unforked[c] = {} /\ \A t \in Target : client[c][t] = "none"
      /\ UNCHANGED <<client, unforked>> /\ lockTable'[c] = {}
  BY DEF IInv, TypeOK, LockSucceeds, Complete, Forked, LeaveIterator
<1>4. \A t \in Target : Possesses(c, t)' => Possesses(c, t)
  BY <1>3, LockingConstants DEF IInv, Remembered, Possesses
<1>5. ClientsOf(c)' /\ Remembered(c)'
  BY <1>3, LockingConstants DEF ClientsOf, Remembered, Working
<1> QED
  BY <1>1, <1>2, <1>4, <1>5, CoordinatorStep

\* lock() failed: what it remembers is what it is going to release.
LEMMA LockFailsInvariant ==
    ASSUME IInv, NEW c \in Coordinator, LockFails(c)
    PROVE  IInv'
<1>1. TypeOK' /\ UNCHANGED <<job, lockFile>>
  BY StageType DEF IInv, LockFails, targetVars
<1>2. \A d \in Coordinator \ {c} : Same(d)
  BY DEF IInv, TypeOK, LockFails, Iterate, Same
<1>3. /\ stage[c] = "locking" /\ stage'[c] = "undoing" /\ unforked'[c] = lockTable[c]
      /\ \A t \in Target : client[c][t] = "none"
      /\ UNCHANGED client
  BY DEF IInv, TypeOK, LockFails, Complete, Forked, Iterate
<1>4. \A t \in Target : Possesses(c, t)' => Possesses(c, t)
  BY <1>3 DEF Possesses
<1>5. ClientsOf(c)' /\ Remembered(c)'
  BY <1>3, LockingConstants DEF ClientsOf, Remembered, Working
<1> QED
  BY <1>1, <1>2, <1>4, <1>5, CoordinatorStep

\* unlock() returns, or the coordinator ends, without any possession.
LEMMA LeaveInvariant ==
    ASSUME IInv, NEW c \in Coordinator,
           Returns(c) \/ ForkFails(c) \/ InterruptWait(c) \/ Killed(c)
    PROVE  IInv'
<1>1. TypeOK' /\ UNCHANGED <<job, lockFile>>
  BY StageType DEF IInv, Returns, LeaveIterator, ForkFails, InterruptWait, Killed, Crash,
                   targetVars
<1>2. \A d \in Coordinator \ {c} : Same(d)
  BY DEF IInv, TypeOK, Returns, LeaveIterator, ForkFails, InterruptWait, Killed, Crash, Same
<1>3. /\ stage'[c] \in {"idle", "crashed"} /\ lockTable'[c] = {}
      /\ \A t \in Target : client'[c][t] = "none"
  BY DEF IInv, TypeOK, Returns, Complete, LeaveIterator, ForkFails, InterruptWait, Killed,
         Crash
<1>4. ClientsOf(c)' /\ Remembered(c)' /\ \A t \in Target : ~Possesses(c, t)'
  BY <1>3, LockingConstants DEF ClientsOf, Remembered, Possesses, Working
<1> QED
  BY <1>1, <1>2, <1>4, CoordinatorStep

\* A flag, or the profile of a target, changes nothing here.
LEMMA ElsewhereInvariant ==
    ASSUME IInv, TypeOK', UNCHANGED <<stage, unforked, client, lockTable, success, job, lockFile>>
    PROVE  IInv'
BY DEF IInv, Possession, Possesses, Removal, Removes, ClientsOf, Remembered, Working

\* A request: an unlock job takes over what its coordinator possesses.
LEMMA RequestInvariant ==
    ASSUME IInv, NEW c \in Coordinator, NEW t \in Target, ForkRequest(c, t)
    PROVE  IInv'
<1>1. TypeOK' /\ UNCHANGED <<stage, lockTable, success, lockFile>>
  BY RequestType DEF IInv, ForkRequest, Forks
<1>2. PICK j \in Job :
        /\ job[j] = NoJob
        /\ \A i \in Job \ {j} : job'[i] = job[i]
        /\ job'[j] # NoJob /\ job'[j].op = Request(c)
        /\ job'[j].by = c /\ job'[j].target = t
        /\ client' = [client EXCEPT ![c][t] = j]
  <2>1. PICK j \in JobsOf[c] :
          /\ job[j] = NoJob
          /\ client' = [client EXCEPT ![c][t] = j]
          /\ \E services, ok :
                job' = [job EXCEPT ![j] =
                          [op |-> Request(c), by |-> c, target |-> t,
                           services |-> services, left |-> services, ok |-> ok]]
    BY DEF ForkRequest
  <2>2. j \in Job
    BY LockingConstants
  <2>3. /\ \A i \in Job \ {j} : job'[i] = job[i]
        /\ job'[j].op = Request(c) /\ job'[j].by = c /\ job'[j].target = t
    BY <2>1, <2>2 DEF IInv, TypeOK
  <2>4. job'[j].op # NoJob.op
    BY <2>3 DEF Request, NoJob
  <2> QED
    BY <2>1, <2>2, <2>3, <2>4 DEF IInv, TypeOK
<1>3. /\ Working(c) /\ t \in unforked[c] /\ unforked' = [unforked EXCEPT ![c] = @ \ {t}]
  BY DEF ForkRequest, Forks
<1>4. \A d \in Coordinator, x \in Target : Possesses(d, x)' => Possesses(d, x)
  <2>1. j # "succeeded"
    BY LockingConstants
  <2> QED
    BY <1>1, <1>2, <1>3, <2>1 DEF IInv, TypeOK, Possesses
<1>5. \A i \in Job, x \in Target :
        Removes(i, x)' <=> \/ i # j /\ Removes(i, x)
                           \/ i = j /\ x = t /\ stage[c] # "locking"
  BY <1>2, <1>3 DEF Removes, Request
<1>6. ASSUME NEW d \in Coordinator PROVE ClientsOf(d)' /\ Remembered(d)'
  <2>1. \A x \in Target : client[d][x] # j
    BY <1>2 DEF IInv, TypeOK, Runs
  <2>2. ClientsOf(d)'
    BY <1>1, <1>2, <1>3, <2>1 DEF IInv, TypeOK, ClientsOf, Working, Request
  <2>3. Remembered(d)'
    <3>1. j # "none"
      BY LockingConstants
    <3> QED
      BY <1>1, <1>2, <1>3, <3>1, LockingConstants DEF IInv, TypeOK, Remembered
  <2> QED
    BY <2>2, <2>3
<1>7. CASE stage[c] = "locking"
  <2>1. \A i \in Job, x \in Target : Removes(i, x)' => Removes(i, x) /\ i # j
    BY <1>5, <1>7
  <2>2. Possession'
    BY <1>1, <1>4, <2>1 DEF IInv, Possession
  <2>3. Removal'
    BY <1>1, <1>2, <2>1 DEF IInv, Removal
  <2> QED
    BY <1>1, <1>6, <2>2, <2>3 DEF IInv
<1>8. CASE stage[c] # "locking"
  <2>1. Possesses(c, t)
    BY <1>3, <1>8 DEF Possesses, Working
  <2>2. lockFile[t] = c /\ \A i \in Job : ~Removes(i, t)
    BY <2>1 DEF IInv, Possession
  <2>3. \A d \in Coordinator : ~Possesses(d, t)'
    <3>1. ~Possesses(c, t)'
      BY <1>1, <1>3, <1>8 DEF IInv, TypeOK, Possesses, Working
    <3>2. \A d \in Coordinator : Possesses(d, t) => d = c
      BY <2>2 DEF IInv, Possession
    <3> QED
      BY <1>4, <3>1, <3>2
  <2>4. Possession'
    BY <1>1, <1>4, <1>5, <2>3 DEF IInv, Possession
  <2>5. Removal'
    BY <1>1, <1>2, <1>5, <2>2 DEF IInv, Removal
  <2> QED
    BY <1>1, <1>6, <2>4, <2>5 DEF IInv
<1> QED
  BY <1>7, <1>8

-----------------------------------------------------------------------------
(* The targets keep the invariant. *)

LEMMA GoesOnInvariant ==
    ASSUME IInv, NEW j \in Job,
           LockService(j) \/ UndoService(j) \/ UnlockService(j) \/ Undo(j)
    PROVE  IInv'
<1>1. /\ TypeOK' /\ UNCHANGED <<coordinatorVars, lockFile>>
      /\ \A i \in Job : /\ (job'[i] = NoJob) <=> (job[i] = NoJob)
                        /\ job'[i].by = job[i].by /\ job'[i].target = job[i].target
                        /\ (job'[i].op = "unlock") <=> (job[i].op = "unlock")
  BY GoesOn, HandleType DEF IInv, Handle
<1>2. UNCHANGED <<stage, unforked, client, lockTable, success>>
  BY <1>1 DEF coordinatorVars
<1>3. \A i \in Job, t \in Target : Removes(i, t)' <=> Removes(i, t)
  BY <1>1 DEF Removes
<1>4. \A c \in Coordinator, t \in Target : Possesses(c, t)' <=> Possesses(c, t)
  BY <1>2 DEF Possesses
<1>5. Possession' /\ Removal'
  BY <1>1, <1>3, <1>4 DEF IInv, Possession, Removal
<1>6. ASSUME NEW c \in Coordinator PROVE ClientsOf(c)' /\ Remembered(c)'
  BY <1>1, <1>2 DEF IInv, ClientsOf, Remembered, Working
<1> QED
  BY <1>1, <1>5, <1>6 DEF IInv

\* What the exit of a job means to the coordinators and to the other jobs.
LEMMA ExitKeeps ==
    ASSUME IInv, NEW j \in Job, NEW ok \in BOOLEAN, Exit(j, ok)
    PROVE  /\ \A c \in Coordinator : ClientsOf(c)' /\ Remembered(c)'
           /\ \A i \in Job, t \in Target :
                Removes(i, t)' => i # j /\ Removes(i, t) /\ job'[i] = job[i]
           /\ \A c \in Coordinator, t \in Target : Possesses(c, t)' =>
                Possesses(c, t) \/ (client[c][t] = j /\ stage[c] = "locking")
           /\ ~ok => \A c \in Coordinator, t \in Target :
                        Possesses(c, t)' => Possesses(c, t)
<1>1. /\ UNCHANGED <<stage, unforked, lockTable, success>>
      /\ job'[j] = NoJob /\ \A i \in Job \ {j} : job'[i] = job[i]
      /\ \A c \in Coordinator, t \in Target :
            client'[c][t] = IF client[c][t] = j
                              THEN IF ok THEN "succeeded" ELSE "failed"
                              ELSE client[c][t]
  BY DEF IInv, TypeOK, Exit
<1>2. j # "none" /\ "succeeded" \notin Job /\ "failed" \notin Job
  BY LockingConstants
<1>3. ASSUME NEW c \in Coordinator PROVE ClientsOf(c)' /\ Remembered(c)'
  <2>1. ClientsOf(c)'
    BY <1>1, <1>2 DEF IInv, ClientsOf, Working
  <2>2. Remembered(c)'
    BY <1>1, <1>2, LockingConstants DEF IInv, Remembered
  <2> QED
    BY <2>1, <2>2
<1>4. \A i \in Job, t \in Target :
        Removes(i, t)' => i # j /\ Removes(i, t) /\ job'[i] = job[i]
  BY <1>1 DEF Removes
<1>5. ASSUME NEW c \in Coordinator, NEW t \in Target, Possesses(c, t)'
      PROVE  /\ Possesses(c, t) \/ (client[c][t] = j /\ stage[c] = "locking")
             /\ ~ok => Possesses(c, t)
  BY <1>1, <1>5 DEF Possesses
<1> QED
  BY <1>3, <1>4, <1>5

\* A job that gives up leaves the lock file alone.
LEMMA GivesUpInvariant ==
    ASSUME IInv, TypeOK', NEW j \in Job, Exit(j, FALSE), UNCHANGED lockFile
    PROVE  IInv'
<1>1. \A c \in Coordinator, t \in Target : Possesses(c, t)' => Possesses(c, t)
  BY ExitKeeps
<1>2. \A i \in Job, t \in Target : Removes(i, t)' => Removes(i, t) /\ job'[i] = job[i]
  BY ExitKeeps
<1>3. Possession'
  BY <1>1, <1>2 DEF IInv, Possession
<1>4. Removal'
  BY <1>2 DEF IInv, Removal
<1> QED
  BY <1>3, <1>4, ExitKeeps DEF IInv

\* The lock file is created: nobody had the lock, and now only the coordinator
\* of the job does.
LEMMA LockProfileInvariant ==
    ASSUME IInv, NEW j \in Job, LockProfile(j)
    PROVE  IInv'
<1> DEFINE t == job[j].target
           c == job[j].by
<1>1. TypeOK' /\ job[j] \in Jobs /\ t \in Target /\ c \in Coordinator
  BY HandleType, JobRuns DEF IInv, Handle
<1>2. CASE lockFile[t] # "none"
  BY <1>1, <1>2, GivesUpInvariant DEF LockProfile
<1>3. CASE lockFile[t] = "none"
  <2>1. /\ Exit(j, TRUE)
        /\ lockFile'[t] = c /\ \A x \in Target \ {t} : lockFile'[x] = lockFile[x]
    <3>1. Exit(j, TRUE) /\ lockFile' = [lockFile EXCEPT ![t] = c]
      BY <1>3 DEF LockProfile
    <3>2. lockFile \in [Target -> Coordinator \cup {"none"}]
      BY DEF IInv, TypeOK
    <3> QED
      BY <1>1, <3>1, <3>2
  <2>2. /\ \A d \in Coordinator : ~Possesses(d, t)
        /\ \A i \in Job : ~Removes(i, t)
    <3>1. \A i \in Job : Removes(i, t) => job[i].by \in Coordinator
      BY DEF IInv, TypeOK, Jobs, Removes
    <3> QED
      BY <1>1, <1>3, <3>1, LockingConstants DEF IInv, Possession, Removal
  <2>3. \A d \in Coordinator, x \in Target : client[d][x] = j => d = c /\ x = t
    BY DEF IInv, TypeOK, Runs
  <2>4. \A d \in Coordinator, x \in Target :
          Possesses(d, x)' => Possesses(d, x) \/ (d = c /\ x = t)
    <3>1. ASSUME NEW d \in Coordinator, NEW x \in Target, Possesses(d, x)'
          PROVE  Possesses(d, x) \/ client[d][x] = j
      <4>1. Possesses(d, x) \/ (client[d][x] = j /\ stage[d] = "locking")
        BY <2>1, <3>1, ExitKeeps
      <4> QED
        BY <4>1
    <3> QED
      BY <2>3, <3>1
  <2>5. \A i \in Job, x \in Target : Removes(i, x)' => Removes(i, x) /\ job'[i] = job[i]
    BY <2>1, ExitKeeps
  <2>6. Possession'
    BY <1>1, <2>1, <2>2, <2>4, <2>5 DEF IInv, Possession
  <2>7. Removal'
    BY <1>1, <2>1, <2>2, <2>5 DEF IInv, Removal
  <2> QED
    BY <1>1, <2>1, <2>6, <2>7, ExitKeeps DEF IInv
<1> QED
  BY <1>2, <1>3

\* The lock file is removed: nobody counted on it any more.
LEMMA UnlockProfileInvariant ==
    ASSUME IInv, NEW j \in Job, UnlockProfile(j)
    PROVE  IInv'
<1> DEFINE t == job[j].target
           ok == job[j].ok /\ lockFile[t] # "none"
<1>1. TypeOK' /\ job[j] \in Jobs /\ t \in Target /\ Removes(j, t)
  <2>1. job[j] # NoJob
    BY JobRuns DEF IInv, Jobs, NoJob
  <2> QED
    BY <2>1, HandleType, JobRuns DEF IInv, Handle, UnlockProfile, Removes
<1>2. /\ Exit(j, ok) /\ ok \in BOOLEAN
      /\ \A x \in Target \ {t} : lockFile'[x] = lockFile[x]
  BY <1>1 DEF UnlockProfile, IInv, TypeOK, Jobs
<1>3. \A d \in Coordinator, x \in Target : client[d][x] = j => stage[d] # "locking"
  BY <1>1 DEF IInv, ClientsOf, Removes
<1>4. \A d \in Coordinator, x \in Target : Possesses(d, x)' => Possesses(d, x) /\ x # t
  <2>1. ASSUME NEW d \in Coordinator, NEW x \in Target, Possesses(d, x)'
        PROVE  Possesses(d, x)
    <3>1. Possesses(d, x) \/ (client[d][x] = j /\ stage[d] = "locking")
      BY <1>2, <2>1, ExitKeeps
    <3> QED
      BY <1>3, <3>1
  <2> QED
    BY <1>1, <2>1 DEF IInv, Possession
<1>5. \A i \in Job, x \in Target :
        Removes(i, x)' => Removes(i, x) /\ x # t /\ job'[i] = job[i]
  <2>1. \A i \in Job, x \in Target :
          Removes(i, x)' => i # j /\ Removes(i, x) /\ job'[i] = job[i]
    BY <1>2, ExitKeeps
  <2> QED
    BY <1>1, <2>1 DEF IInv, Removal
<1>6. Possession'
  BY <1>2, <1>4, <1>5 DEF IInv, Possession
<1>7. Removal'
  BY <1>2, <1>5 DEF IInv, Removal
<1> QED
  BY <1>1, <1>2, <1>6, <1>7, ExitKeeps DEF IInv

LEMMA NextInvariant == IInv /\ [Next]_vars => IInv'
<1> SUFFICES ASSUME IInv, [Next]_vars PROVE IInv'
  OBVIOUS
<1>0. TypeOK'
  BY NextType DEF IInv
<1>1. ASSUME NEW c \in Coordinator, Proceed(c) PROVE IInv'
  BY <1>1, RequestInvariant, ClientInvariant, LockSucceedsInvariant, LockFailsInvariant,
     LeaveInvariant DEF Proceed
<1>2. ASSUME NEW c \in Coordinator, InterruptOtherwise(c) PROVE IInv'
  BY <1>0, <1>2, ElsewhereInvariant DEF InterruptOtherwise, targetVars
<1>3. ASSUME NEW c \in Coordinator, NEW t \in Target, SetProfile(c, t) PROVE IInv'
  BY <1>0, <1>3, ElsewhereInvariant DEF SetProfile, coordinatorVars
<1>4. ASSUME NEW c \in Coordinator, Disturb(c) PROVE IInv'
  BY <1>2, <1>3, <1>4, BeginLockInvariant, BeginUnlockInvariant, ClientInvariant,
     LeaveInvariant DEF Disturb
<1>5. ASSUME NEW j \in Job, Handle(j) PROVE IInv'
  <2>1. CASE UndoEnds(j)
    BY <1>0, <2>1, GivesUpInvariant DEF UndoEnds
  <2> QED
    BY <1>5, <2>1, GoesOnInvariant, LockProfileInvariant, UnlockProfileInvariant DEF Handle
<1>6. CASE UNCHANGED vars
  BY <1>0, <1>6, ElsewhereInvariant DEF vars, coordinatorVars, targetVars
<1> QED
  BY <1>1, <1>4, <1>5, <1>6 DEF Next

LEMMA Invariance == Spec => []IInv
BY InitInvariant, NextInvariant, PTL DEF Spec

-----------------------------------------------------------------------------
(* The theorems. *)

\* Whoever got TRUE from lock() owns every lock file of its targets until it
\* calls unlock(), for any number of coordinators and of jobs left over.
THEOREM LocksAreHeld == Spec => []LocksHeld
<1>1. IInv => LocksHeld
  BY LockingConstants DEF IInv, Possession, Possesses, LocksHeld
<1> QED
  BY <1>1, Invariance, PTL

\* Locking implements mutual exclusion of deployments with a target in common:
\* lock() enters when it returns TRUE, and unlock() or the death of the
\* coordinator leaves.
THEOREM LockingExcludes == Spec => Excludes
<1> DEFINE Inside == {c \in Coordinator : stage[c] = "locked"}
<1>1. Init => Abstract!Init
  BY DEF Init, Abstract!Init
<1>2. IInv /\ IInv' /\ [Next]_vars => [Abstract!Next]_Inside
  <2> SUFFICES ASSUME IInv, IInv', [Next]_vars, Inside' # Inside
               PROVE  Abstract!Next
    OBVIOUS
  <2>1. PICK c \in Coordinator :
          /\ \A d \in Coordinator \ {c} : stage'[d] = stage[d]
          /\ (stage[c] = "locked") # (stage'[c] = "locked")
    <3>1. PICK c \in Coordinator : Proceed(c) \/ Disturb(c)
      BY GoesOn DEF IInv, Next, vars, coordinatorVars, Handle, UndoEnds, LockProfile,
                    UnlockProfile, Exit
    <3>2. \A d \in Coordinator \ {c} : stage'[d] = stage[d]
      BY <3>1
         DEF IInv, TypeOK, Proceed, Disturb, ForkRequest, ForkRefused, ForkUnreachable, Forks,
             ConnectionBreaks, Reap, LockSucceeds, LockFails, Returns, LeaveIterator, Iterate,
             BeginLock, BeginUnlock, SetProfile, coordinatorVars, ForkFails, InterruptWait,
             Killed, Crash, InterruptOtherwise
    <3> QED
      BY <3>2
  <2>2. CASE stage'[c] = "locked"
    <3>1. c \notin Inside /\ Inside' = Inside \cup {c}
      BY <2>1, <2>2
    <3>2. ASSUME NEW d \in Inside PROVE ~Abstract!Compete(c, d)
      <4>1. d # c /\ stage'[d] = "locked" /\ d \in Coordinator
        BY <2>1, <3>1
      <4>2. \A t \in TargetsOf[c] \cap TargetsOf[d] : lockFile'[t] = c /\ lockFile'[t] = d
        BY <2>2, <4>1, LockingConstants DEF IInv, Possession, Possesses
      <4> QED
        BY <4>1, <4>2 DEF Abstract!Compete
    <3> QED
      BY <3>1, <3>2 DEF Abstract!Next, Abstract!Enter
  <2>3. CASE stage'[c] # "locked"
    <3>1. c \in Inside /\ Inside' = Inside \ {c}
      BY <2>1, <2>3
    <3> QED
      BY <3>1 DEF Abstract!Next, Abstract!Leave
  <2> QED
    BY <2>2, <2>3
<1> QED
  BY <1>1, <1>2, Invariance, PTL DEF Spec, Excludes, Abstract!Spec

-----------------------------------------------------------------------------
(* No lock is forgotten. *)

\* A job is waited for, unless c had to give up on its target or on everything.
Followed(c) ==
    stage[c] # "crashed" =>
        \A j \in Job, t \in Target :
            Runs(j, c, t) /\ t \notin astray[c] => client[c][t] = j

\* A coordinator deals with its own targets, with one client for each.
Scope(c) ==
    \A t \in Target :
        /\ t \in unforked[c] => client[c][t] = "none"
        /\ t \in unforked[c] \cup lockTable[c] \/ client[c][t] # "none" =>
              t \in TargetsOf[c]

\* A lock file of c is known to c: c remembers it, holds it, or is about to
\* remove it.
Known(c) ==
    \A t \in Target : lockFile[t] = c /\ t \notin astray[c] =>
        /\ stage[c] # "idle"
        /\ stage[c] = "locking" => t \in lockTable[c] \/ client[c][t] = "succeeded"
        /\ stage[c] = "locked" => t \in TargetsOf[c]
        /\ stage[c] \in {"undoing", "unlocking"} => t \in unforked[c] \/ client[c][t] \in Job

Tracked == \A c \in Coordinator : Followed(c) /\ Scope(c) /\ Known(c)

\* Steps of c that leave the targets alone.
LEMMA TrackedStep ==
    ASSUME Tracked, UNCHANGED <<job, lockFile>>, NEW c \in Coordinator,
           \A d \in Coordinator \ {c} : Same(d) /\ astray'[d] = astray[d],
           Followed(c)', Scope(c)', Known(c)'
    PROVE  Tracked'
BY DEF Tracked, Followed, Scope, Known, Same, Runs

LEMMA BeginLockTracked ==
    ASSUME IInv, Tracked, NEW c \in Coordinator, BeginLock(c)
    PROVE  Tracked'
<1>1. UNCHANGED <<job, lockFile>> /\ UNCHANGED <<client, lockTable>>
  BY DEF BeginLock, targetVars
<1>2. \A d \in Coordinator \ {c} : Same(d) /\ astray'[d] = astray[d]
  BY DEF IInv, TypeOK, BeginLock, Iterate, Same
<1>3. /\ stage'[c] = "locking" /\ unforked'[c] = TargetsOf[c]
      /\ astray'[c] = {t \in Target : lockFile[t] = c \/ \E j \in Job : Runs(j, c, t)}
  BY DEF IInv, TypeOK, BeginLock, Iterate
<1>4. lockTable[c] = {} /\ \A t \in Target : client[c][t] = "none"
  BY DEF IInv, ClientsOf, Remembered, BeginLock, Working
<1>5. Followed(c)' /\ Known(c)'
  BY <1>1, <1>3 DEF Followed, Known, Runs
<1>6. Scope(c)'
  BY <1>1, <1>3, <1>4 DEF Scope
<1> QED
  BY <1>1, <1>2, <1>5, <1>6, TrackedStep

LEMMA BeginUnlockTracked ==
    ASSUME IInv, Tracked, NEW c \in Coordinator, BeginUnlock(c)
    PROVE  Tracked'
<1>1. UNCHANGED <<job, lockFile>> /\ UNCHANGED <<client, lockTable, astray>>
  BY DEF BeginUnlock, targetVars
<1>2. \A d \in Coordinator \ {c} : Same(d) /\ astray'[d] = astray[d]
  BY <1>1 DEF IInv, TypeOK, BeginUnlock, Iterate, Same
<1>3. stage[c] = "locked" /\ stage'[c] = "unlocking" /\ unforked'[c] = TargetsOf[c]
  BY DEF IInv, TypeOK, BeginUnlock, Iterate
<1>4. lockTable[c] = {} /\ \A t \in Target : client[c][t] = "none"
  BY <1>3 DEF IInv, ClientsOf, Remembered, Working
<1>5. Followed(c)'
  BY <1>1, <1>3 DEF Tracked, Followed, Runs
<1>6. Scope(c)' /\ Known(c)'
  BY <1>1, <1>3, <1>4 DEF Tracked, Scope, Known
<1> QED
  BY <1>1, <1>2, <1>5, <1>6, TrackedStep

LEMMA LockReturnsTracked ==
    ASSUME IInv, Tracked, NEW c \in Coordinator, LockSucceeds(c) \/ LockFails(c)
    PROVE  Tracked'
<1>1. UNCHANGED <<job, lockFile>> /\ UNCHANGED <<client, astray>>
  BY DEF LockSucceeds, LockFails, LeaveIterator, targetVars
<1>2. \A d \in Coordinator \ {c} : Same(d) /\ astray'[d] = astray[d]
  BY <1>1 DEF IInv, TypeOK, LockSucceeds, LockFails, LeaveIterator, Iterate, Same
<1>3. /\ stage[c] = "locking" /\ unforked[c] = {}
      /\ \A t \in Target : client[c][t] = "none"
      /\ lockTable'[c] \subseteq lockTable[c]
      /\ \/ stage'[c] = "locked" /\ unforked'[c] = {}
         \/ stage'[c] = "undoing" /\ unforked'[c] = lockTable[c]
  BY DEF IInv, TypeOK, LockSucceeds, LockFails, LeaveIterator, Iterate, Complete, Forked
<1>4. Followed(c)'
  BY <1>1, <1>3 DEF Tracked, Followed, Runs
<1>5. Scope(c)'
  BY <1>1, <1>3 DEF Tracked, Scope
<1>6. Known(c)'
  BY <1>1, <1>3 DEF Tracked, Scope, Known
<1> QED
  BY <1>1, <1>2, <1>4, <1>5, <1>6, TrackedStep

LEMMA LeaveTracked ==
    ASSUME IInv, Tracked, NEW c \in Coordinator,
           Returns(c) \/ ForkFails(c) \/ InterruptWait(c) \/ Killed(c)
    PROVE  Tracked'
<1>1. UNCHANGED <<job, lockFile>> /\ UNCHANGED astray
  BY DEF Returns, LeaveIterator, ForkFails, InterruptWait, Killed, Crash, targetVars
<1>2. \A d \in Coordinator \ {c} : Same(d) /\ astray'[d] = astray[d]
  BY <1>1 DEF IInv, TypeOK, Returns, LeaveIterator, ForkFails, InterruptWait, Killed, Crash,
              Same
<1>3. lockTable'[c] = {} /\ unforked'[c] = {} /\ \A t \in Target : client'[c][t] = "none"
  BY DEF IInv, TypeOK, Returns, Complete, Forked, LeaveIterator, ForkFails, InterruptWait,
         Killed, Crash
<1>4. CASE Returns(c)
  <2>1. /\ stage[c] \in {"undoing", "unlocking"} /\ stage'[c] = "idle"
        /\ unforked[c] = {} /\ client'[c] = client[c]
        /\ \A t \in Target : client[c][t] = "none"
    BY <1>4 DEF IInv, TypeOK, Returns, Complete, Forked, LeaveIterator
  <2>2. \A t \in Target : lockFile[t] = c => t \in astray[c]
    BY <2>1, LockingConstants DEF Tracked, Known
  <2>3. Followed(c)' /\ Known(c)'
    BY <1>1, <2>1, <2>2 DEF Tracked, Followed, Known, Runs
  <2>4. Scope(c)'
    BY <1>3 DEF Scope
  <2> QED
    BY <1>1, <1>2, <2>3, <2>4, TrackedStep
<1>5. CASE ForkFails(c) \/ InterruptWait(c) \/ Killed(c)
  <2>1. stage'[c] = "crashed"
    BY <1>5 DEF IInv, TypeOK, ForkFails, InterruptWait, Killed, Crash
  <2>2. Followed(c)' /\ Known(c)' /\ Scope(c)'
    BY <1>3, <2>1 DEF Followed, Known, Scope
  <2> QED
    BY <1>1, <1>2, <2>2, TrackedStep
<1> QED
  BY <1>4, <1>5

LEMMA ClientTracked ==
    ASSUME IInv, Tracked, NEW c \in Coordinator, NEW t \in Target,
           ForkRefused(c, t) \/ ForkUnreachable(c, t) \/ ConnectionBreaks(c, t) \/ Reap(c, t)
    PROVE  Tracked'
<1>1. UNCHANGED <<job, lockFile>> /\ UNCHANGED stage
  BY DEF Forks, ForkRefused, ForkUnreachable, ConnectionBreaks, Reap, targetVars
<1>2. \A d \in Coordinator \ {c} : Same(d) /\ astray'[d] = astray[d]
  BY DEF IInv, TypeOK, Forks, ForkRefused, ForkUnreachable, ConnectionBreaks, Reap, Same
<1>3. \A x \in Target \ {t} : client'[c][x] = client[c][x]
  BY DEF IInv, TypeOK, Forks, ForkRefused, ForkUnreachable, ConnectionBreaks, Reap
<1>4. CASE Reap(c, t)
  <2>1. /\ unforked[c] = {} /\ unforked'[c] = {} /\ Working(c) /\ astray' = astray
        /\ client[c][t] \in {"succeeded", "failed"} /\ client'[c][t] = "none"
        /\ lockTable'[c] = IF stage[c] = "locking" /\ client[c][t] = "succeeded"
                             THEN lockTable[c] \cup {t} ELSE lockTable[c]
    BY <1>4 DEF IInv, TypeOK, Reap, Forked, Ended
  <2>2. client[c][t] \notin Job /\ client[c][t] # "none"
    BY <2>1, LockingConstants
  <2>3. Followed(c)'
    BY <1>1, <1>3, <2>1, <2>2 DEF Tracked, Followed, Runs
  <2>4. Scope(c)'
    BY <1>3, <2>1, <2>2 DEF Tracked, Scope
  <2>5. Known(c)'
    BY <1>1, <1>3, <2>1, <2>2 DEF Tracked, Known, Working
  <2> QED
    BY <1>1, <1>2, <2>3, <2>4, <2>5, TrackedStep
<1>5. CASE ~Reap(c, t)
  <2>1. /\ astray'[c] = astray[c] \cup {t} /\ lockTable' = lockTable
        /\ unforked'[c] \subseteq unforked[c] /\ unforked[c] \ {t} \subseteq unforked'[c]
        /\ client'[c][t] = "failed" /\ t \notin unforked'[c]
        /\ t \in unforked[c] \/ client[c][t] # "none"
    BY <1>5, LockingConstants
       DEF IInv, TypeOK, Forks, ForkRefused, ForkUnreachable, ConnectionBreaks,
           Tracked, Scope
  <2>2. Followed(c)'
    BY <1>1, <1>3, <2>1 DEF Tracked, Followed, Runs
  <2>3. Scope(c)'
    BY <1>3, <2>1 DEF Tracked, Scope
  <2>4. Known(c)'
    BY <1>1, <1>3, <2>1 DEF Tracked, Known
  <2> QED
    BY <1>1, <1>2, <2>2, <2>3, <2>4, TrackedStep
<1> QED
  BY <1>4, <1>5

LEMMA RequestTracked ==
    ASSUME IInv, Tracked, NEW c \in Coordinator, NEW t \in Target, ForkRequest(c, t)
    PROVE  Tracked'
<1>1. UNCHANGED <<stage, lockTable, lockFile, astray>>
  BY DEF ForkRequest, Forks
<1>2. PICK j \in Job :
        /\ job[j] = NoJob
        /\ \A i \in Job \ {j} : job'[i] = job[i]
        /\ job'[j].by = c /\ job'[j].target = t
        /\ client' = [client EXCEPT ![c][t] = j]
  <2>1. PICK j \in JobsOf[c] :
          /\ job[j] = NoJob
          /\ client' = [client EXCEPT ![c][t] = j]
          /\ \E services, ok :
                job' = [job EXCEPT ![j] =
                          [op |-> Request(c), by |-> c, target |-> t,
                           services |-> services, left |-> services, ok |-> ok]]
    BY DEF ForkRequest
  <2>2. j \in Job
    BY LockingConstants
  <2>3. /\ \A i \in Job \ {j} : job'[i] = job[i]
        /\ job'[j].by = c /\ job'[j].target = t
    BY <2>1, <2>2 DEF IInv, TypeOK
  <2> QED
    BY <2>1, <2>2, <2>3
<1>3. Working(c) /\ t \in unforked[c] /\ unforked' = [unforked EXCEPT ![c] = @ \ {t}]
  BY DEF ForkRequest, Forks
<1>4. client[c][t] = "none" /\ t \in TargetsOf[c] /\ j # "none" /\ j # "succeeded"
  BY <1>3, LockingConstants DEF Tracked, Scope
<1>5. /\ \A d \in Coordinator \ {c} : client'[d] = client[d] /\ unforked'[d] = unforked[d]
      /\ unforked'[c] = unforked[c] \ {t}
      /\ client'[c][t] = j /\ \A x \in Target \ {t} : client'[c][x] = client[c][x]
  BY <1>2, <1>3 DEF IInv, TypeOK
<1>6. ASSUME NEW d \in Coordinator PROVE Followed(d)'
  <2> SUFFICES ASSUME stage[d] # "crashed", NEW i \in Job, NEW x \in Target,
                      Runs(i, d, x)', x \notin astray[d]
               PROVE  client'[d][x] = i
    BY <1>1 DEF Followed
  <2>1. CASE i = j
    BY <1>2, <1>5, <2>1 DEF Runs
  <2>2. CASE i # j
    <3>1. client[d][x] = i
      BY <1>2, <2>2 DEF Runs, Tracked, Followed
    <3>2. i # "none"
      BY LockingConstants
    <3> QED
      BY <1>4, <1>5, <3>1, <3>2
  <2> QED
    BY <2>1, <2>2
<1>7. ASSUME NEW d \in Coordinator PROVE Scope(d)'
  BY <1>1, <1>4, <1>5 DEF Tracked, Scope
<1>8. ASSUME NEW d \in Coordinator PROVE Known(d)'
  <2>1. CASE d = c
    BY <1>1, <1>3, <1>4, <1>5, <2>1 DEF Tracked, Known, Working
  <2>2. CASE d # c
    BY <1>1, <1>5, <2>2 DEF Tracked, Known
  <2> QED
    BY <2>1, <2>2
<1> QED
  BY <1>6, <1>7, <1>8 DEF Tracked

LEMMA GoesOnTracked ==
    ASSUME IInv, Tracked, NEW j \in Job,
           LockService(j) \/ UndoService(j) \/ UnlockService(j) \/ Undo(j)
    PROVE  Tracked'
<1>1. /\ UNCHANGED <<stage, unforked, client, lockTable, lockFile, astray>>
      /\ \A i \in Job : \A d, x : Runs(i, d, x)' => Runs(i, d, x)
  BY GoesOn DEF IInv, coordinatorVars, Runs
<1> QED
  BY <1>1 DEF Tracked, Followed, Scope, Known

\* The exit of a job whose coordinator still counts on it is the answer its
\* client waits for; otherwise the target is known to be astray.
LEMMA ExitTracked ==
    ASSUME IInv, Tracked, NEW j \in Job, NEW ok \in BOOLEAN, Exit(j, ok),
           job[j] \in Jobs,
           \A t \in Target \ {job[j].target} : lockFile'[t] = lockFile[t],
           \/ UNCHANGED lockFile /\ job[j].op # "unlock"
           \/ lockFile'[job[j].target] = "none"
           \/ lockFile'[job[j].target] = job[j].by /\ ok /\ job[j].op # "unlock"
    PROVE  Tracked'
<1>1. /\ UNCHANGED <<stage, unforked, lockTable, astray>>
      /\ job'[j] = NoJob /\ \A i \in Job \ {j} : job'[i] = job[i]
      /\ \A c \in Coordinator, t \in Target :
            client'[c][t] = IF client[c][t] = j
                              THEN IF ok THEN "succeeded" ELSE "failed"
                              ELSE client[c][t]
  BY DEF IInv, TypeOK, Exit
<1>2. /\ j \notin {"none", "succeeded", "failed"}
      /\ "succeeded" \notin Job /\ "failed" \notin Job /\ "none" \notin Coordinator
  BY LockingConstants
<1>3. job[j].by \in Coordinator /\ job[j].target \in Target
  BY DEF Jobs
<1>4. \A d \in Coordinator, x \in Target : client[d][x] = j =>
        d = job[j].by /\ x = job[j].target
  BY DEF IInv, TypeOK, Runs
<1>5. job[j] # NoJob
  BY DEF Jobs, NoJob
<1>6. ASSUME NEW c \in Coordinator PROVE Followed(c)'
  <2> SUFFICES ASSUME stage[c] # "crashed", NEW i \in Job, NEW x \in Target,
                      Runs(i, c, x)', x \notin astray[c]
               PROVE  client'[c][x] = i
    BY <1>1 DEF Followed
  <2>1. i # j /\ Runs(i, c, x)
    BY <1>1 DEF Runs
  <2>2. client[c][x] = i
    BY <2>1 DEF Tracked, Followed
  <2> QED
    BY <1>1, <2>1, <2>2
<1>7. ASSUME NEW c \in Coordinator PROVE Scope(c)'
  BY <1>1, <1>2 DEF Tracked, Scope
<1>8. ASSUME NEW c \in Coordinator PROVE Known(c)'
  <2> SUFFICES ASSUME NEW t \in Target, lockFile'[t] = c, t \notin astray[c]
               PROVE  /\ stage[c] # "idle"
                      /\ stage[c] = "locking" =>
                            t \in lockTable[c] \/ client'[c][t] = "succeeded"
                      /\ stage[c] = "locked" => t \in TargetsOf[c]
                      /\ stage[c] \in {"undoing", "unlocking"} =>
                            t \in unforked[c] \/ client'[c][t] \in Job
    BY <1>1 DEF Known
  <2>1. CASE lockFile'[t] = lockFile[t]
    <3>1. ASSUME stage[c] \in {"undoing", "unlocking"}, client[c][t] = j PROVE FALSE
      <4>1. job[j].op = "unlock"
        BY <3>1 DEF IInv, ClientsOf
      <4>2. t = job[j].target /\ lockFile'[t] = "none"
        BY <1>4, <3>1, <4>1
      <4> QED
        BY <1>2, <4>2
    <3>2. ~(stage[c] = "locking" /\ client[c][t] = "succeeded" /\ client'[c][t] # "succeeded")
      BY <1>1, <1>2
    <3>3. Known(c)
      BY DEF Tracked
    <3> QED
      BY <1>1, <2>1, <3>1, <3>2, <3>3 DEF Known
  <2>2. CASE lockFile'[t] # lockFile[t]
    <3>1. t = job[j].target /\ c = job[j].by /\ ok /\ job[j].op # "unlock"
      BY <1>2, <2>2
    <3>2. stage[c] # "crashed" => client[c][t] = j
      BY <1>5, <3>1 DEF Tracked, Followed, Runs
    <3>3. stage[c] \in {"crashed", "locking"}
      BY <1>2, <3>1, <3>2 DEF IInv, TypeOK, ClientsOf, Working, Stages
    <3> QED
      BY <1>1, <3>1, <3>2, <3>3
  <2> QED
    BY <2>1, <2>2
<1> QED
  BY <1>6, <1>7, <1>8 DEF Tracked

LEMMA NextTracked == IInv /\ Tracked /\ [Next]_vars => Tracked'
<1> SUFFICES ASSUME IInv, Tracked, [Next]_vars PROVE Tracked'
  OBVIOUS
<1>1. ASSUME UNCHANGED <<stage, unforked, client, lockTable, lockFile, job, astray>>
      PROVE  Tracked'
  BY <1>1 DEF Tracked, Followed, Scope, Known, Runs
<1>2. ASSUME NEW c \in Coordinator, Proceed(c) PROVE Tracked'
  BY <1>2, RequestTracked, ClientTracked, LockReturnsTracked, LeaveTracked DEF Proceed
<1>3. ASSUME NEW c \in Coordinator, NEW t \in Target, SetProfile(c, t) PROVE Tracked'
  BY <1>1, <1>3 DEF SetProfile, coordinatorVars
<1>4. ASSUME NEW c \in Coordinator, InterruptOtherwise(c) PROVE Tracked'
  BY <1>1, <1>4 DEF InterruptOtherwise, targetVars
<1>5. ASSUME NEW c \in Coordinator, Disturb(c) PROVE Tracked'
  BY <1>3, <1>4, <1>5, BeginLockTracked, BeginUnlockTracked, ClientTracked, LeaveTracked
     DEF Disturb
<1>6. ASSUME NEW j \in Job, UndoEnds(j) \/ LockProfile(j) \/ UnlockProfile(j) PROVE Tracked'
  <2>1. /\ job[j] \in Jobs /\ job[j].target \in Target
        /\ lockFile \in [Target -> Coordinator \cup {"none"}]
    BY <1>6, JobRuns DEF IInv, TypeOK
  <2>2. CASE UndoEnds(j)
    BY <2>1, <2>2, ExitTracked DEF UndoEnds
  <2>3. CASE LockProfile(j)
    BY <2>1, <2>3, ExitTracked DEF LockProfile
  <2>4. CASE UnlockProfile(j)
    <3>1. PICK ok \in BOOLEAN : Exit(j, ok)
      BY <2>1, <2>4 DEF UnlockProfile, Jobs
    <3>2. /\ lockFile'[job[j].target] = "none"
          /\ \A t \in Target \ {job[j].target} : lockFile'[t] = lockFile[t]
      BY <2>1, <2>4 DEF UnlockProfile
    <3> QED
      BY <2>1, <3>1, <3>2, ExitTracked
  <2> QED
    BY <1>6, <2>2, <2>3, <2>4
<1>7. ASSUME NEW j \in Job, Handle(j) PROVE Tracked'
  BY <1>6, <1>7, GoesOnTracked DEF Handle
<1>8. CASE UNCHANGED vars
  BY <1>1, <1>8 DEF vars, coordinatorVars, targetVars
<1> QED
  BY <1>2, <1>5, <1>7, <1>8 DEF Next

\* Neither a lock() that failed nor an unlock() leaves a lock behind on a target
\* that could be asked, did what it was asked, and could answer.
THEOREM NoLockForgotten == Spec => []NothingLeftLocked
<1>1. Init => Tracked
  <2>1. "none" \notin Coordinator
    BY LockingConstants
  <2> QED
    BY <2>1 DEF Init, Tracked, Followed, Scope, Known, Runs
<1>2. Tracked => NothingLeftLocked
  BY DEF Tracked, Known, NothingLeftLocked
<1> QED
  BY <1>1, <1>2, NextTracked, Invariance, PTL DEF Spec
=============================================================================
