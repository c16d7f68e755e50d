--------------------------- MODULE ServiceProofs ---------------------------
(***************************************************************************)
(* What holds of the Disnix service for any number of clients, calls and   *)
(* starts of the service, whatever fails and whoever is killed.            *)
(***************************************************************************)
EXTENDS Service, WellFoundedInduction, TLAPS

-----------------------------------------------------------------------------
(* Daemons: the inductive invariant. *)

\* The pid file is made before, and removed after, these stages.
NeedsPidFile(d) == stage[d] \in {"initializing", "running", "stopping"}

Removed == \E e \in Daemon : status[e] = "cannot unlink pid file"

DaemonType ==
    /\ stage \in [Daemon -> Stages]
    /\ DOMAIN told = Daemon /\ DOMAIN status = Daemon

\* What the parent was told, and how the daemon ended, by stage.
Told(d) ==
    /\ stage[d] \in {"unstarted", "helper", "forked", "initializing"} => told[d] = "none"
    /\ stage[d] # "exited" => status[d] = "none"
    /\ told[d] = "success" =>
         /\ stage[d] \in {"running", "stopping", "unlinked", "exited"}
         /\ status[d] # "cannot init daemon"
    /\ told[d] \notin {"none", "success"} => stage[d] = "exited"

Filed(d) == NeedsPidFile(d) => pidFile = d \/ Removed

DaemonInv == DaemonType /\ \A d \in Daemon : Told(d) /\ Filed(d)

LEMMA DaemonInvInit == Init => DaemonInv
<1> SUFFICES ASSUME Init PROVE DaemonInv
  OBVIOUS
<1>1. PICK s \in Scenarios : DaemonInit(s.starts)
  BY DEF Init
<1>2. /\ stage \in [Daemon -> {"unstarted", "exited"}]
      /\ told = [d \in Daemon |-> "none"] /\ status = [d \in Daemon |-> "none"]
  BY <1>1 DEF DaemonInit
<1>3. DaemonType
  BY <1>2 DEF DaemonType, Stages
<1> QED
  BY <1>2, <1>3 DEF DaemonInv, Told, Filed, NeedsPidFile

\* A step of a daemon keeps the types, and what the stages of the others are.
LEMMA DaemonTypeStep ==
    ASSUME DaemonType, NEW d \in Daemon, Initialize(d) \/ Steps(d)
    PROVE  /\ DaemonType'
           /\ \A e \in Daemon \ {d} :
                stage'[e] = stage[e] /\ told'[e] = told[e] /\ status'[e] = status[e]
<1> USE DEF DaemonType, Stages, Goes, Notify, Exits, GivesUp
<1>1. CASE Start(d)
  BY <1>1 DEF Start
<1>2. CASE Helper(d)
  BY <1>2 DEF Helper
<1>3. CASE CreatePidFile(d)
  BY <1>3 DEF CreatePidFile
<1>4. CASE Initialize(d)
  BY <1>4 DEF Initialize
<1>5. CASE NameAcquired(d)
  BY <1>5 DEF NameAcquired
<1>6. CASE NameLost(d)
  BY <1>6 DEF NameLost
<1>7. CASE Terminate(d)
  BY <1>7 DEF Terminate
<1>8. CASE Unlink(d)
  BY <1>8 DEF Unlink
<1>9. CASE UnlinkAgain(d)
  BY <1>9 DEF UnlinkAgain
<1>10. CASE Killed(d)
  BY <1>10 DEF Killed
<1> QED
  BY <1>1, <1>2, <1>3, <1>4, <1>5, <1>6, <1>7, <1>8, <1>9, <1>10 DEF Steps

\* What it says of itself is true.
LEMMA ToldStep ==
    ASSUME DaemonInv, NEW d \in Daemon, Initialize(d) \/ Steps(d)
    PROVE  Told(d)'
<1> USE DEF DaemonInv, DaemonType, Told, At, Goes, Notify, Exits, GivesUp
<1>1. CASE Start(d)
  BY <1>1 DEF Start
<1>2. CASE Helper(d)
  BY <1>2 DEF Helper
<1>3. CASE CreatePidFile(d)
  BY <1>3 DEF CreatePidFile
<1>4. CASE Initialize(d)
  BY <1>4 DEF Initialize
<1>5. CASE NameAcquired(d)
  BY <1>5 DEF NameAcquired
<1>6. CASE NameLost(d)
  BY <1>6 DEF NameLost
<1>7. CASE Terminate(d)
  BY <1>7 DEF Terminate
<1>8. CASE Unlink(d)
  BY <1>8 DEF Unlink
<1>9. CASE UnlinkAgain(d)
  BY <1>9 DEF UnlinkAgain
<1>10. CASE Killed(d)
  BY <1>10 DEF Killed
<1> QED
  BY <1>1, <1>2, <1>3, <1>4, <1>5, <1>6, <1>7, <1>8, <1>9, <1>10 DEF Steps

\* The pid file is taken from nobody who needs it, but by a second removal.
LEMMA FiledStep ==
    ASSUME DaemonInv, NEW d \in Daemon, Initialize(d) \/ Steps(d), NEW e \in Daemon
    PROVE  Filed(e)'
<1>1. /\ DaemonType'
      /\ \A x \in Daemon \ {d} :
           stage'[x] = stage[x] /\ told'[x] = told[x] /\ status'[x] = status[x]
  BY DaemonTypeStep DEF DaemonInv
<1>2. Removed => Removed'
  <2> SUFFICES ASSUME NEW x \in Daemon, status[x] = "cannot unlink pid file"
               PROVE  status'[x] = "cannot unlink pid file"
    BY DEF Removed
  <2>1. stage[x] = "exited"
    BY DEF DaemonInv, Told
  <2> QED
    BY <1>1, <2>1 DEF Steps, Start, Helper, CreatePidFile, Initialize, NameAcquired, NameLost, Terminate,
                      Unlink, UnlinkAgain, Killed, At
<1> USE DaemonsOK, <1>2 DEF DaemonInv, DaemonType, Filed, NeedsPidFile, Told, At, Goes, Notify, Exits, GivesUp
<1>3. CASE Start(d)
  BY <1>3 DEF Start
<1>4. CASE Helper(d)
  BY <1>4 DEF Helper
<1>5. CASE CreatePidFile(d)
  BY <1>5 DEF CreatePidFile
<1>6. CASE Initialize(d)
  BY <1>6 DEF Initialize
<1>7. CASE NameAcquired(d)
  BY <1>7 DEF NameAcquired
<1>8. CASE NameLost(d)
  BY <1>8 DEF NameLost
<1>9. CASE Terminate(d)
  BY <1>9 DEF Terminate
<1>10. CASE Unlink(d)
  BY <1>10 DEF Unlink
<1>11. CASE UnlinkAgain(d)
  <2>1. CASE pidFile = NoDaemon
    BY <1>11, <2>1 DEF UnlinkAgain
  <2>2. CASE pidFile # NoDaemon
    <3>1. status'[d] = "cannot unlink pid file"
      BY <1>11, <2>2 DEF UnlinkAgain
    <3> QED
      BY <3>1 DEF Removed
  <2> QED
    BY <2>1, <2>2
<1>12. CASE Killed(d)
  BY <1>12 DEF Killed
<1> QED
  BY <1>3, <1>4, <1>5, <1>6, <1>7, <1>8, <1>9, <1>10, <1>11, <1>12 DEF Steps

LEMMA DaemonInvStep == DaemonInv /\ [Next]_vars => DaemonInv'
<1> SUFFICES ASSUME DaemonInv, [Next]_vars PROVE DaemonInv'
  OBVIOUS
<1>1. ASSUME NEW d \in Daemon, Initialize(d) \/ Steps(d) PROVE DaemonInv'
  <2>1. /\ DaemonType'
        /\ \A e \in Daemon \ {d} :
             stage'[e] = stage[e] /\ told'[e] = told[e] /\ status'[e] = status[e]
    BY <1>1, DaemonTypeStep DEF DaemonInv
  <2>2. ASSUME NEW e \in Daemon PROVE Told(e)'
    <3>1. CASE e = d
      BY <1>1, <3>1, ToldStep
    <3>2. CASE e # d
      BY <2>1, <3>2 DEF DaemonInv, Told
    <3> QED
      BY <3>1, <3>2
  <2>3. ASSUME NEW e \in Daemon PROVE Filed(e)'
    BY <1>1, FiledStep
  <2> QED
    BY <2>1, <2>2, <2>3 DEF DaemonInv
<1>2. CASE UNCHANGED daemonVars
  BY <1>2 DEF daemonVars, DaemonInv, DaemonType, Told, Filed, NeedsPidFile, Removed
<1>3. CASE UNCHANGED vars
  BY <1>2, <1>3 DEF vars
<1>4. ASSUME NEW d \in Daemon, InitializeService(d) \/ DaemonStep(d) PROVE DaemonInv'
  BY <1>1, <1>4 DEF InitializeService, DaemonStep
<1>5. ASSUME NEW c \in DOMAIN call, ClientStep(c) PROVE UNCHANGED daemonVars
  BY <1>5 DEF ClientStep, Connect, GetJobId, DoNotCall, StartJob, RefuseJob, Receive
<1>6. ASSUME NEW j \in jobs, JobEnds(j) \/ ThreadSignals(j) PROVE UNCHANGED daemonVars
  BY <1>6 DEF JobEnds, ThreadSignals
<1> QED
  BY <1>2, <1>3, <1>4, <1>5, <1>6 DEF Next

LEMMA DaemonInvAlways == Spec => []DaemonInv
  BY DaemonInvInit, DaemonInvStep, PTL DEF Spec

\* daemonize(): however system calls fail and whoever is killed, the parent is told
\* of a success only when the service is initialized, and of a failure only when
\* it is gone.
THEOREM ParentIsToldTheTruth == Spec => []ToldTheTruth
<1>1. DaemonInv => ToldTheTruth
  BY DEF DaemonInv, Told, ToldTheTruth
<1> QED
  BY <1>1, DaemonInvAlways, PTL

\* create_pid_file, daemonize(): of any number of starts of the service, the one that
\* runs is the one in the pid file, unless a second removal took the file of another.
THEOREM PidFileIsOfTheDaemon == Spec => []PidFileNamesDaemon
<1>1. DaemonInv => PidFileNamesDaemon
  BY DEF DaemonInv, Filed, NeedsPidFile, Removed, PidFileNamesDaemon, Up
<1> QED
  BY <1>1, DaemonInvAlways, PTL

-----------------------------------------------------------------------------
(* Jobs and clients: the inductive invariant. *)

\* What has been said of jobs: success of those that succeeded, and failure of
\* ids that are in use.
Said ==
    [signal : {"finish", "success"}, pid : {j.id : j \in {i \in jobs : i.st = "ok"}}]
      \cup [signal : {"failure"}, pid : logs]

JobFields == {"id", "daemon", "client", "watched", "reply", "st"}
ClientFields == {"st", "pid", "inbox", "exit"}

\* A job has the id that its client was given, and kept.
JobOK(j) ==
    /\ DOMAIN j = JobFields /\ j.id \in logs /\ j.client \in Client
    /\ client[j.client].pid = j.id /\ client[j.client].st \in {"waiting", "exited"}

\* A client that exits with success was told of a job with its id that succeeded.
ClientOK(c) ==
    /\ DOMAIN client[c] = ClientFields
    /\ client[c].inbox \in Seq(Said)
    /\ client[c].st = "exited" /\ client[c].exit = 0 =>
         \E j \in jobs : j.id = client[c].pid /\ j.st = "ok"

JobInv ==
    /\ DOMAIN call \subseteq Client /\ DOMAIN client = Client
    /\ \A j \in jobs : JobOK(j)
    /\ \A c \in Client : ClientOK(c)
    /\ OneJobPerId

LEMMA JobInvInit == Init => JobInv
<1> SUFFICES ASSUME Init PROVE JobInv
  OBVIOUS
<1>1. DOMAIN call \subseteq Client
  BY ScenariosOK DEF Init
<1>2. jobs = {} /\ client = [c \in Client |-> Idle]
  BY DEF Init
<1>3. <<>> \in Seq(Said)
  OBVIOUS
<1> QED
  BY <1>1, <1>2, <1>3 DEF JobInv, ClientOK, Idle, ClientFields, OneJobPerId

\* Receivers of a signal get it, and are otherwise as they were.
LEMMA EmittedClients ==
    ASSUME NEW clients, NEW signal, NEW id, NEW S, [signal |-> signal, pid |-> id] \in S,
           NEW c \in Client, DOMAIN clients[c] = ClientFields, clients[c].inbox \in Seq(S)
    PROVE  LET e == Emitted(clients, signal, id)
           IN  /\ DOMAIN e = Client /\ DOMAIN e[c] = ClientFields /\ e[c].inbox \in Seq(S)
               /\ e[c].st = clients[c].st /\ e[c].pid = clients[c].pid /\ e[c].exit = clients[c].exit
<1> QED
  BY DEF Emitted, ClientFields

LEMMA SeqMonotone ==
    ASSUME NEW S, NEW T, S \subseteq T, NEW s \in Seq(S)
    PROVE  s \in Seq(T)
  OBVIOUS

\* What has been said stays true while jobs that succeeded stay.
LEMMA SaidGrows ==
    ASSUME \A j \in jobs : j.st = "ok" => \E k \in jobs' : k.id = j.id /\ k.st = "ok",
           logs \subseteq logs'
    PROVE  Said \subseteq Said'
  BY DEF Said

\* Jobs that end, lose their threads or are signalled keep their ids and clients.
LEMMA JobsRenewed ==
    ASSUME JobInv,
           \A k \in jobs' : DOMAIN k = JobFields /\ \E j \in jobs : k.id = j.id /\ k.client = j.client,
           \A j \in jobs : j.st = "ok" => \E k \in jobs' : k.id = j.id /\ k.st = "ok",
           OneJobPerId', UNCHANGED <<call, logs>>, DOMAIN client' = Client,
           \A c \in Client :
             /\ DOMAIN client'[c] = ClientFields /\ client'[c].inbox \in Seq(Said')
             /\ client'[c].st = client[c].st /\ client'[c].pid = client[c].pid
             /\ client'[c].exit = client[c].exit
    PROVE  JobInv'
<1>1. ASSUME NEW k \in jobs' PROVE JobOK(k)'
  BY <1>1 DEF JobInv, JobOK
<1>2. ASSUME NEW c \in Client PROVE ClientOK(c)'
  BY <1>2 DEF JobInv, ClientOK
<1> QED
  BY <1>1, <1>2 DEF JobInv

\* A client without a job may do anything but report success.
LEMMA ClientMoves ==
    ASSUME JobInv, UNCHANGED <<jobs, logs, call>>, NEW c \in Client,
           client[c].st \in {"idle", "connected", "identified"},
           DOMAIN client' = Client, \A e \in Client : e # c => client'[e] = client[e],
           DOMAIN client'[c] = ClientFields, client'[c].inbox \in Seq(Said),
           client'[c].st # "exited" \/ client'[c].exit # 0
    PROVE  JobInv'
<1>1. ASSUME NEW k \in jobs' PROVE JobOK(k)'
  BY <1>1 DEF JobInv, JobOK
<1>2. Said' = Said
  BY DEF Said
<1>3. ASSUME NEW e \in Client PROVE ClientOK(e)'
  <2>1. CASE e = c
    BY <1>2, <2>1 DEF ClientOK
  <2>2. CASE e # c
    BY <1>2, <2>2 DEF JobInv, ClientOK
  <2> QED
    BY <2>1, <2>2
<1>4. OneJobPerId'
  BY DEF JobInv, OneJobPerId
<1> QED
  BY <1>1, <1>3, <1>4 DEF JobInv

LEMMA LeavesOK ==
    ASSUME NEW c \in Client, DOMAIN client = Client, DOMAIN client[c] = ClientFields, NEW code
    PROVE  LET l == Leaves(c, code)
           IN  /\ DOMAIN l = Client /\ DOMAIN l[c] = ClientFields
               /\ l[c].st = "exited" /\ l[c].exit = code /\ l[c].inbox = <<>> /\ l[c].pid = client[c].pid
               /\ \A e \in Client : e # c => l[e] = client[e]
  BY DEF Leaves, ClientFields

LEMMA BeforeTheCall ==
    ASSUME JobInv, NEW c \in Client, Connect(c) \/ GetJobId(c) \/ DoNotCall(c)
    PROVE  JobInv'
<1>1. /\ DOMAIN client = Client /\ DOMAIN client[c] = ClientFields /\ client[c].inbox \in Seq(Said)
      /\ client[c].st \in {"idle", "connected", "identified"} /\ UNCHANGED <<jobs, logs, call>>
  BY DEF JobInv, ClientOK, Connect, GetJobId, DoNotCall
<1>2. CASE client' = Leaves(c, 1)
  <2>1. /\ DOMAIN client' = Client /\ DOMAIN client'[c] = ClientFields
        /\ client'[c].inbox = <<>> /\ client'[c].exit = 1
        /\ \A e \in Client : e # c => client'[e] = client[e]
    BY <1>1, <1>2, LeavesOK
  <2>2. client'[c].inbox \in Seq(Said) /\ client'[c].exit # 0
    BY <2>1
  <2> QED
    BY <1>1, <2>1, <2>2, ClientMoves
<1>3. ASSUME NEW st, NEW pid, st # "exited", client' = [client EXCEPT ![c].st = st, ![c].pid = pid]
      PROVE  JobInv'
  <2>1. /\ DOMAIN client' = Client /\ DOMAIN client'[c] = ClientFields
        /\ client'[c].inbox = client[c].inbox /\ client'[c].st = st
        /\ \A e \in Client : e # c => client'[e] = client[e]
    BY <1>1, <1>3 DEF ClientFields
  <2> QED
    BY <1>1, <1>3, <2>1, ClientMoves
<1>4. ASSUME NEW st, client' = [client EXCEPT ![c].st = st]
      PROVE  client' = [client EXCEPT ![c].st = st, ![c].pid = client[c].pid]
  BY <1>1, <1>4 DEF ClientFields
<1>5. CASE Connect(c)
  BY <1>2, <1>3, <1>4, <1>5 DEF Connect
<1>6. CASE GetJobId(c)
  BY <1>2, <1>3, <1>6 DEF GetJobId
<1>7. CASE DoNotCall(c)
  BY <1>2, <1>3, <1>4, <1>7 DEF DoNotCall
<1> QED
  BY <1>5, <1>6, <1>7

\* A log file that was not there makes an id that no job has.
LEMMA StartJobStep ==
    ASSUME JobInv, NEW c \in Client, StartJob(c)
    PROVE  JobInv'
<1>1. PICK st \in {"running", "failed"} :
         jobs' = jobs \cup {[id |-> client[c].pid, daemon |-> owner, client |-> c, watched |-> TRUE,
                             reply |-> Request(c).reply, st |-> st]}
  BY DEF StartJob
<1> DEFINE new == [id |-> client[c].pid, daemon |-> owner, client |-> c, watched |-> TRUE,
                   reply |-> Request(c).reply, st |-> st]
<1>2. /\ client[c].pid \notin logs /\ client[c].st = "identified" /\ UNCHANGED call
      /\ logs' = logs \cup {client[c].pid} /\ client' = [client EXCEPT ![c].st = "waiting"]
  BY DEF StartJob, CallMethod
<1>3. /\ DOMAIN client' = Client /\ DOMAIN client'[c] = ClientFields
      /\ client'[c].inbox = client[c].inbox /\ client'[c].st = "waiting" /\ client'[c].pid = client[c].pid
      /\ \A e \in Client : e # c => client'[e] = client[e]
  BY <1>2 DEF JobInv, ClientOK, ClientFields
<1>4. DOMAIN new = JobFields /\ new.id = client[c].pid /\ new.client = c
  BY DEF JobFields
<1>5. ASSUME NEW k \in jobs' PROVE JobOK(k)'
  <2>1. CASE k = new
    BY <1>2, <1>3, <1>4, <2>1 DEF JobOK
  <2>2. CASE k \in jobs
    BY <1>2, <1>3, <2>2 DEF JobInv, JobOK
  <2> QED
    BY <1>1, <2>1, <2>2
<1>6. Said \subseteq Said'
  BY <1>1, <1>2, SaidGrows
<1>7. ASSUME NEW e \in Client PROVE ClientOK(e)'
  <2>1. client'[e].inbox \in Seq(Said')
    <3>1. client'[e].inbox = client[e].inbox /\ client[e].inbox \in Seq(Said)
      BY <1>3 DEF JobInv, ClientOK
    <3> QED
      BY <1>6, <3>1, SeqMonotone
  <2> QED
    BY <1>1, <1>3, <2>1 DEF JobInv, ClientOK
<1>8. OneJobPerId'
  <2> SUFFICES ASSUME NEW j \in jobs', NEW k \in jobs', j.id = k.id PROVE j = k
    BY DEF OneJobPerId
  <2>1. \A i \in jobs : i.id # new.id
    BY <1>2, <1>4 DEF JobInv, JobOK
  <2> QED
    BY <1>1, <2>1 DEF JobInv, OneJobPerId
<1> QED
  BY <1>2, <1>3, <1>5, <1>7, <1>8 DEF JobInv

LEMMA RefuseJobStep ==
    ASSUME JobInv, NEW c \in Client, RefuseJob(c)
    PROVE  JobInv'
<1> DEFINE E == Emitted(client, "failure", client[c].pid)
<1>1. /\ client[c].pid \in logs /\ client[c].st = "identified" /\ UNCHANGED <<jobs, logs, call>>
      /\ client' = [E EXCEPT ![c].st = "waiting"]
  BY DEF RefuseJob, CallMethod
<1>2. [signal |-> "failure", pid |-> client[c].pid] \in Said
  BY <1>1 DEF Said
<1>3. ASSUME NEW e \in Client
      PROVE  /\ DOMAIN E = Client /\ DOMAIN E[e] = ClientFields /\ E[e].inbox \in Seq(Said)
             /\ E[e].st = client[e].st /\ E[e].pid = client[e].pid /\ E[e].exit = client[e].exit
  BY <1>2, EmittedClients DEF JobInv, ClientOK
<1>4. DOMAIN client' = Client
  BY <1>1 DEF Emitted
<1>5. ASSUME NEW e \in Client
      PROVE  /\ DOMAIN client'[e] = ClientFields /\ client'[e].inbox \in Seq(Said)
             /\ client'[e].st = (IF e = c THEN "waiting" ELSE client[e].st)
             /\ client'[e].pid = client[e].pid /\ client'[e].exit = client[e].exit
  <2> HIDE DEF E
  <2> QED
    BY <1>1, <1>3 DEF ClientFields
<1>6. ASSUME NEW k \in jobs' PROVE JobOK(k)'
  BY <1>1, <1>5 DEF JobInv, JobOK
<1>7. Said' = Said
  BY <1>1 DEF Said
<1>8. ASSUME NEW e \in Client PROVE ClientOK(e)'
  BY <1>1, <1>5, <1>7 DEF JobInv, ClientOK
<1>9. OneJobPerId'
  BY <1>1 DEF JobInv, OneJobPerId
<1> QED
  BY <1>1, <1>4, <1>6, <1>8, <1>9 DEF JobInv

\* A client reports success when the signal that it takes says so of its id.
LEMMA ReceiveStep ==
    ASSUME JobInv, NEW c \in Client, Receive(c)
    PROVE  JobInv'
<1> DEFINE m == Head(client[c].inbox)
<1>1. /\ client[c].st = "waiting" /\ client[c].inbox # <<>> /\ UNCHANGED <<jobs, logs, call>>
      /\ client' = IF m.pid # client[c].pid THEN [client EXCEPT ![c].inbox = Tail(@)]
                   ELSE Leaves(c, IF m.signal = "failure" THEN 1 ELSE 0)
  BY DEF Receive
<1>2. /\ DOMAIN client = Client /\ DOMAIN client[c] = ClientFields /\ client[c].inbox \in Seq(Said)
  BY DEF JobInv, ClientOK
<1>3. m \in Said /\ Tail(client[c].inbox) \in Seq(Said) /\ <<>> \in Seq(Said)
  BY <1>1, <1>2
<1>4. /\ DOMAIN client' = Client /\ DOMAIN client'[c] = ClientFields /\ client'[c].inbox \in Seq(Said)
      /\ client'[c].st \in {"waiting", "exited"} /\ client'[c].pid = client[c].pid
      /\ \A e \in Client : e # c => client'[e] = client[e]
      /\ client'[c].st = "exited" => m.pid = client[c].pid
      /\ client'[c].st = "exited" /\ client'[c].exit = 0 => m.signal # "failure"
  <2> HIDE DEF m
  <2>1. CASE m.pid # client[c].pid
    BY <1>1, <1>2, <1>3, <2>1 DEF ClientFields
  <2>2. CASE m.pid = client[c].pid
    <3> DEFINE code == IF m.signal = "failure" THEN 1 ELSE 0
    <3>1. client' = Leaves(c, code)
      BY <1>1, <2>2
    <3>2. code = 0 => m.signal # "failure"
      OBVIOUS
    <3> HIDE DEF code
    <3>3. /\ DOMAIN client' = Client /\ DOMAIN client'[c] = ClientFields /\ client'[c].inbox = <<>>
          /\ client'[c].st = "exited" /\ client'[c].pid = client[c].pid /\ client'[c].exit = code
          /\ \A e \in Client : e # c => client'[e] = client[e]
      BY <1>2, <3>1, LeavesOK
    <3> QED
      BY <1>3, <2>2, <3>2, <3>3
  <2> QED
    BY <2>1, <2>2
<1>5. m.signal # "failure" => \E j \in jobs : j.id = m.pid /\ j.st = "ok"
  BY <1>3 DEF Said
<1>6. ASSUME NEW k \in jobs' PROVE JobOK(k)'
  BY <1>1, <1>4 DEF JobInv, JobOK
<1>7. Said' = Said
  BY <1>1 DEF Said
<1>8. ASSUME NEW e \in Client PROVE ClientOK(e)'
  <2> HIDE DEF m
  <2>1. CASE e = c
    BY <1>1, <1>4, <1>5, <1>7, <2>1 DEF ClientOK
  <2>2. CASE e # c
    BY <1>1, <1>4, <1>7, <2>2 DEF JobInv, ClientOK
  <2> QED
    BY <2>1, <2>2
<1>9. OneJobPerId'
  BY <1>1 DEF JobInv, OneJobPerId
<1> QED
  BY <1>1, <1>4, <1>6, <1>8, <1>9 DEF JobInv

\* The end of a daemon leaves its jobs without threads.
LEMMA DaemonStepStep ==
    ASSUME JobInv, NEW d \in Daemon, DaemonStep(d)
    PROVE  JobInv'
<1>1. /\ UNCHANGED <<logs, call, client>>
      /\ jobs' \in {jobs, {[j EXCEPT !.watched = @ /\ j.daemon # d] : j \in jobs}}
  BY DEF DaemonStep
<1>2. CASE jobs' = jobs
  BY <1>1, <1>2 DEF JobInv, JobOK, ClientOK, OneJobPerId, Said
<1>3. CASE jobs' = {[j EXCEPT !.watched = @ /\ j.daemon # d] : j \in jobs}
  <2> DEFINE Left(j) == [j EXCEPT !.watched = @ /\ j.daemon # d]
  <2>1. \A j \in jobs : /\ DOMAIN Left(j) = JobFields /\ Left(j).id = j.id
                        /\ Left(j).client = j.client /\ Left(j).st = j.st
    BY DEF JobInv, JobOK, JobFields
  <2>2. jobs' = {Left(j) : j \in jobs}
    BY <1>3
  <2> HIDE DEF Left
  <2>3. OneJobPerId'
    BY <2>1, <2>2 DEF JobInv, OneJobPerId
  <2>4. Said \subseteq Said'
    BY <1>1, <2>1, <2>2, SaidGrows
  <2>5. ASSUME NEW c \in Client
        PROVE  DOMAIN client'[c] = ClientFields /\ client'[c].inbox \in Seq(Said')
    BY <1>1, <2>4, SeqMonotone DEF JobInv, ClientOK
  <2>6. DOMAIN client' = Client
    BY <1>1 DEF JobInv
  <2> QED
    BY <1>1, <2>1, <2>2, <2>3, <2>5, <2>6, JobsRenewed
<1> QED
  BY <1>1, <1>2, <1>3

LEMMA JobEndsStep ==
    ASSUME JobInv, NEW j \in jobs, JobEnds(j)
    PROVE  JobInv'
<1>1. PICK st \in {"ok", "failed"} : jobs' = (jobs \ {j}) \cup {[j EXCEPT !.st = st]}
  BY DEF JobEnds
<1> DEFINE k == [j EXCEPT !.st = st]
<1>2. UNCHANGED <<logs, call, client>> /\ j.st = "running"
  BY DEF JobEnds
<1>3. DOMAIN k = JobFields /\ k.id = j.id /\ k.client = j.client /\ k.st = st
  BY DEF JobInv, JobOK, JobFields
<1>4. jobs' = (jobs \ {j}) \cup {k}
  BY <1>1
<1> HIDE DEF k
<1>5. OneJobPerId'
  BY <1>3, <1>4 DEF JobInv, OneJobPerId
<1>6. \A i \in jobs : i.st = "ok" => i \in jobs'
  BY <1>2, <1>4
<1>7. Said \subseteq Said'
  BY <1>2, <1>6, SaidGrows
<1>8. ASSUME NEW c \in Client
      PROVE  DOMAIN client'[c] = ClientFields /\ client'[c].inbox \in Seq(Said')
  BY <1>2, <1>7, SeqMonotone DEF JobInv, ClientOK
<1>9. DOMAIN client' = Client /\ \A i \in jobs' : DOMAIN i = JobFields
  BY <1>2, <1>3, <1>4 DEF JobInv, JobOK
<1> QED
  BY <1>2, <1>3, <1>4, <1>5, <1>6, <1>8, <1>9, JobsRenewed

\* A thread says of a job what became of it.
LEMMA ThreadSignalsStep ==
    ASSUME JobInv, NEW j \in jobs, ThreadSignals(j)
    PROVE  JobInv'
<1> DEFINE k == [j EXCEPT !.watched = FALSE]
           E == Emitted(client, Signal(j), j.id)
<1>1. /\ UNCHANGED <<logs, call>> /\ j.st \in {"ok", "failed"}
      /\ jobs' = (jobs \ {j}) \cup {k}
      /\ client' = client \/ (Signal(j) # None /\ client' = E)
  BY DEF ThreadSignals, Emit
<1>2. DOMAIN k = JobFields /\ k.id = j.id /\ k.client = j.client /\ k.st = j.st
  BY DEF JobInv, JobOK, JobFields
<1> HIDE DEF k
<1>3. OneJobPerId'
  BY <1>1, <1>2 DEF JobInv, OneJobPerId
<1>4. \A i \in jobs : i.st = "ok" => \E l \in jobs' : l.id = i.id /\ l.st = "ok"
  BY <1>1, <1>2
<1>5. Said \subseteq Said'
  BY <1>1, <1>4, SaidGrows
<1>6. Signal(j) # None => [signal |-> Signal(j), pid |-> j.id] \in Said
  <2>1. CASE j.st = "ok"
    <3>1. Signal(j) \in {"finish", "success"}
      BY <2>1 DEF Signal
    <3>2. j.id \in {i.id : i \in {i \in jobs : i.st = "ok"}}
      BY <2>1
    <3> HIDE DEF Signal
    <3> QED
      BY <3>1, <3>2 DEF Said
  <2>2. CASE j.st = "failed" /\ Signal(j) # None
    <3>1. Signal(j) = "failure" /\ j.id \in logs
      BY <2>2 DEF Signal, JobInv, JobOK
    <3> QED
      BY <3>1 DEF Said
  <2> QED
    BY <1>1, <2>1, <2>2
<1>7. ASSUME NEW c \in Client
      PROVE  /\ DOMAIN client' = Client /\ DOMAIN client'[c] = ClientFields /\ client'[c].inbox \in Seq(Said)
             /\ client'[c].st = client[c].st /\ client'[c].pid = client[c].pid
             /\ client'[c].exit = client[c].exit
  <2>1. CASE client' = client
    BY <2>1 DEF JobInv, ClientOK
  <2>2. CASE Signal(j) # None /\ client' = E
    <3>1. DOMAIN client[c] = ClientFields /\ client[c].inbox \in Seq(Said)
      BY DEF JobInv, ClientOK
    <3> QED
      BY <1>6, <2>2, <3>1, EmittedClients
  <2> QED
    BY <1>1, <2>1, <2>2
<1>8. ASSUME NEW c \in Client PROVE client'[c].inbox \in Seq(Said')
  BY <1>5, <1>7, SeqMonotone
<1>9. DOMAIN client' = Client /\ \A i \in jobs' : DOMAIN i = JobFields
  <2>1. DOMAIN client' = Client
    BY <1>1 DEF Emitted, JobInv
  <2> QED
    BY <1>1, <1>2, <2>1 DEF JobInv, JobOK
<1> HIDE DEF E
<1> QED
  BY <1>1, <1>2, <1>3, <1>4, <1>7, <1>8, <1>9, JobsRenewed

LEMMA JobInvStep == JobInv /\ [Next]_vars => JobInv'
<1> SUFFICES ASSUME JobInv, [Next]_vars PROVE JobInv'
  OBVIOUS
<1>1. CASE UNCHANGED <<logs, jobs, call, client>>
  BY <1>1 DEF JobInv, JobOK, ClientOK, OneJobPerId, Said
<1>2. ASSUME NEW d \in Daemon, InitializeService(d) \/ DaemonStep(d) PROVE JobInv'
  BY <1>1, <1>2, DaemonStepStep DEF InitializeService
<1>3. ASSUME NEW c \in DOMAIN call, ClientStep(c) PROVE JobInv'
  <2>1. c \in Client
    BY DEF JobInv
  <2> QED
    BY <1>3, <2>1, BeforeTheCall, StartJobStep, RefuseJobStep, ReceiveStep DEF ClientStep
<1>4. ASSUME NEW j \in jobs, JobEnds(j) \/ ThreadSignals(j) PROVE JobInv'
  BY <1>4, JobEndsStep, ThreadSignalsStep
<1>5. CASE UNCHANGED vars
  BY <1>1, <1>5 DEF vars
<1> QED
  BY <1>2, <1>3, <1>4, <1>5 DEF Next

LEMMA JobInvAlways == Spec => []JobInv
  BY JobInvInit, JobInvStep, PTL DEF Spec

\* open_log_file: although a service that starts again hands out ids again, no two
\* processes ever run as the same job, because the log file is made exclusively.
THEOREM IdsAreUnique == Spec => []OneJobPerId
<1>1. JobInv => OneJobPerId
  BY DEF JobInv
<1> QED
  BY <1>1, JobInvAlways, PTL

\* disnix_finish_signal_handler, disnix_success_signal_handler: among any number of
\* clients, which all hear the signals of each other's jobs, one that exits with
\* success had its own job done, unless it shares its id with another client.
THEOREM ClientsTellTheTruth == Spec => []SuccessIsReal
<1>1. JobInv => SuccessIsReal
  <2> SUFFICES ASSUME JobInv, NEW c \in DOMAIN call, client[c].st = "exited", client[c].exit = 0, ~Shared(c)
               PROVE  \E j \in JobsOf(c) : j.st = "ok"
    BY DEF SuccessIsReal
  <2>1. PICK j \in jobs : j.id = client[c].pid /\ j.st = "ok"
    BY DEF JobInv, ClientOK
  <2>2. j.client \in Client /\ client[j.client].pid = client[c].pid
    BY <2>1 DEF JobInv, JobOK
  <2>3. j.client = c
    BY <2>2 DEF Shared
  <2> QED
    BY <2>1, <2>3 DEF JobsOf
<1> QED
  BY <1>1, JobInvAlways, PTL

-----------------------------------------------------------------------------
(* The types of the state: job ids are numbers, and there is a highest.    *)

Replies == {"boolean", "strv", "string", "tempfile"}

ClientType(x) ==
    /\ x.st \in {"idle", "connected", "identified", "waiting", "hung", "exited"}
    /\ x.pid \in Nat \cup {-1} /\ x.exit \in {0, 1}
    /\ x.st = "identified" => x.pid \in Nat

Answered(request) == request.st = "called" => request.reply \in Replies

Bounded(ids) == ids \subseteq Nat /\ \E n \in Nat : \A id \in ids : id <= n

StateInv ==
    /\ pidFile \in Daemon \cup {NoDaemon} /\ owner \in Daemon \cup {NoDaemon}
    /\ counter \in [Daemon -> Nat] /\ Bounded(logs)
    /\ \A j \in jobs : j.daemon \in Daemon /\ j.reply \in Replies /\ j.st \in {"running", "ok", "failed"}
    /\ \A c \in Client : ClientType(client[c])
    /\ \A c \in DOMAIN call : Answered(Request(c))

\* Every method that disnix-client calls has one of four kinds of answers.
LEMMA RepliesKnown ==
    ASSUME NEW o
    PROVE  Answered(run_disnix_client(o))
<1>1. \A reply \in Replies : \A command : Answered(Job(reply, command))
  BY DEF Answered, Job
<1>2. Answered(Refused) /\ Answered(Hung)
  BY DEF Answered, Refused, Hung
<1>3. /\ \A a, b, c, d, e : Answered(on_handle_state_activity(a, b, c, d, e))
      /\ \A a : /\ Answered(on_handle_import(a)) /\ Answered(on_handle_export(a))
               /\ Answered(on_handle_print_invalid(a)) /\ Answered(on_handle_realise(a))
               /\ Answered(on_handle_query_installed(a)) /\ Answered(on_handle_query_requisites(a))
               /\ Answered(on_handle_collect_garbage(a)) /\ Answered(on_handle_lock(a))
               /\ Answered(on_handle_unlock(a)) /\ Answered(on_handle_print_missing_snapshots(a))
               /\ Answered(on_handle_resolve_snapshots(a))
      /\ \A a, b : /\ Answered(on_handle_set(a, b)) /\ Answered(on_handle_query_all_snapshots(a, b))
                  /\ Answered(on_handle_query_latest_snapshot(a, b))
      /\ \A a, b, c : Answered(on_handle_import_snapshots(a, b, c)) /\ Answered(on_handle_clean_snapshots(a, b, c))
      /\ Answered(on_handle_capture_config)
  <2>1. {"boolean", "strv", "string", "tempfile"} \subseteq Replies
    BY DEF Replies
  <2> QED
    BY <1>1, <2>1, Zenon
    DEF on_handle_state_activity, on_handle_import, on_handle_export, on_handle_print_invalid, on_handle_realise,
        on_handle_set, on_handle_query_installed, on_handle_query_requisites, on_handle_collect_garbage,
        on_handle_lock, on_handle_unlock, on_handle_query_all_snapshots, on_handle_query_latest_snapshot,
        on_handle_print_missing_snapshots, on_handle_import_snapshots, on_handle_resolve_snapshots,
        on_handle_clean_snapshots, on_handle_capture_config
<1> QED
  BY <1>2, <1>3 DEF run_disnix_client

\* determine_next_pid: a bounded set of ids that is not empty has a highest one.
LEMMA NextPid ==
    ASSUME Bounded(logs)
    PROVE  determine_next_pid \in Nat
<1>1. CASE logs = {}
  BY <1>1 DEF determine_next_pid
<1>2. CASE logs # {}
  <2>1. PICK bounds : bounds = {n \in Nat : \A id \in logs : id <= n}
    OBVIOUS
  <2>2. bounds \in SUBSET Nat /\ bounds # {}
    BY <2>1 DEF Bounded
  <2>3. PICK R : R = {ss \in Nat \X Nat : ss[1] < ss[2]}
    OBVIOUS
  <2>4. IsWellFoundedOn(R, Nat)
    BY NatLessThanWellFounded, <2>3 DEF OpToRel
  <2>5. PICK n \in bounds : \A m \in bounds : <<m, n>> \notin R
    BY <2>2, <2>4, WFMin
  <2>6. n \in Nat /\ \A id \in logs : id \in Nat /\ id <= n
    BY <2>1, <2>5 DEF Bounded
  <2>7. n \in logs
    <3>1. SUFFICES ASSUME n \notin logs PROVE FALSE
      OBVIOUS
    <3>2. \A id \in logs : id < n
      BY <2>6, <3>1
    <3>3. n - 1 \in Nat /\ \A id \in logs : id <= n - 1
      BY <1>2, <2>6, <3>2
    <3>4. <<n - 1, n>> \in R
      BY <2>3, <2>6, <3>3
    <3> QED
      BY <2>1, <2>5, <3>3, <3>4
  <2>8. \A id \in logs : n >= id
    BY <2>6
  <2>9. Max(logs) \in logs
    BY <2>7, <2>8, Zenon DEF Max
  <2> QED
    BY <1>2, <2>6, <2>9 DEF determine_next_pid
<1> QED
  BY <1>1, <1>2

LEMMA StateInvInit == Init => StateInv
<1> SUFFICES ASSUME Init PROVE StateInv
  OBVIOUS
<1>1. PICK s \in Scenarios : call = [c \in DOMAIN s.call |-> Parsed(s.call[c])] /\ DaemonInit(s.starts)
  BY DEF Init
<1>2. ASSUME NEW c \in DOMAIN call
      PROVE  Answered(Request(c))
  <2>1. PICK x, options : call[c] = Parsed(x) /\ options = ParseClient(x.argv.args, Environment)
    BY <1>1
  <2>2. PICK request : request = run_disnix_client(options)
    OBVIOUS
  <2>3. Request(c) = request
    BY <2>1, <2>2 DEF Parsed, Request
  <2> QED
    BY <2>2, <2>3, RepliesKnown
<1>3. \A c \in Client : ClientType(client[c])
  BY DEF Init, ClientType, Idle
<1>4. Bounded({})
  BY DEF Bounded
<1> QED
  BY <1>1, <1>2, <1>3, <1>4 DEF Init, DaemonInit, StateInv

\* One more id: there is still a highest.
LEMMA OneMoreId ==
    ASSUME Bounded(logs), NEW id \in Nat
    PROVE  Bounded(logs \cup {id})
<1>1. PICK n \in Nat : \A i \in logs : i \in Nat /\ i <= n
  BY DEF Bounded
<1>2. n + id \in Nat /\ id <= n + id /\ \A i \in Nat : i <= n => i <= n + id
  OBVIOUS
<1>3. \A i \in logs \cup {id} : i \in Nat /\ i <= n + id
  BY <1>1, <1>2
<1> QED
  BY <1>2, <1>3 DEF Bounded

\* A client that takes a step keeps its type, and those that hear a signal.
LEMMA LeavesType ==
    ASSUME JobInv, StateInv, NEW c \in Client, NEW code \in {0, 1}, client' = Leaves(c, code)
    PROVE  \A e \in Client : ClientType(client'[e])
<1>1. /\ client'[c].st = "exited" /\ client'[c].exit = code /\ client'[c].pid = client[c].pid
      /\ \A e \in Client : e # c => client'[e] = client[e]
  BY LeavesOK DEF JobInv, ClientOK
<1>2. \A e \in Client : ClientType(client[e])
  BY DEF StateInv
<1>3. ClientType(client'[c])
  BY <1>1, <1>2 DEF ClientType
<1> QED
  BY <1>1, <1>2, <1>3

LEMMA MovesType ==
    ASSUME JobInv, StateInv, NEW c \in Client, NEW st \in {"connected", "identified", "waiting", "hung"},
           NEW pid \in Nat \cup {-1}, st = "identified" => pid \in Nat,
           client' = [client EXCEPT ![c].st = st, ![c].pid = pid]
    PROVE  \A e \in Client : ClientType(client'[e])
<1>1. DOMAIN client = Client /\ DOMAIN client[c] = ClientFields
  BY DEF JobInv, ClientOK
<1>2. /\ client'[c].st = st /\ client'[c].exit = client[c].exit /\ client'[c].pid = pid
      /\ \A e \in Client : e # c => client'[e] = client[e]
  BY <1>1 DEF ClientFields
<1>3. \A e \in Client : ClientType(client[e])
  BY DEF StateInv
<1>4. ClientType(client'[c])
  BY <1>2, <1>3 DEF ClientType
<1> QED
  BY <1>2, <1>3, <1>4

LEMMA EmittedType ==
    ASSUME JobInv, StateInv, NEW signal, NEW id, NEW e \in Client
    PROVE  LET s == Emitted(client, signal, id)
           IN  /\ DOMAIN s = Client /\ DOMAIN s[e] = ClientFields /\ ClientType(s[e])
               /\ s[e].st = client[e].st
<1>1. PICK s : s = Emitted(client, signal, id)
  OBVIOUS
<1>2. DOMAIN client[e] = ClientFields
  BY DEF JobInv, ClientOK
<1>3. DOMAIN s = Client /\ (s[e] = client[e] \/ \E inbox : s[e] = [client[e] EXCEPT !.inbox = inbox])
  BY <1>1 DEF Emitted
<1>4. DOMAIN s[e] = ClientFields /\ s[e].st = client[e].st /\ s[e].pid = client[e].pid /\ s[e].exit = client[e].exit
  BY <1>2, <1>3 DEF ClientFields
<1> QED
  BY <1>1, <1>3, <1>4 DEF StateInv, ClientType

LEMMA ClientStepTypes ==
    ASSUME JobInv, StateInv, NEW c \in DOMAIN call, ClientStep(c)
    PROVE  StateInv'
<1>1. c \in Client /\ DOMAIN client = Client /\ DOMAIN client[c] = ClientFields /\ ClientType(client[c])
  BY DEF JobInv, ClientOK, StateInv
<1>2. ASSUME UNCHANGED <<pidFile, owner, call>>, counter' \in [Daemon -> Nat], Bounded(logs'),
             \A j \in jobs' : j.daemon \in Daemon /\ j.reply \in Replies /\ j.st \in {"running", "ok", "failed"},
             \A e \in Client : ClientType(client'[e])
      PROVE  StateInv'
  <2>1. \A e \in DOMAIN call' : Answered(Request(e))'
    BY <1>2 DEF StateInv, Request
  <2> QED
    BY <1>2, <2>1 DEF StateInv
<1>3. ASSUME NEW st, client' = [client EXCEPT ![c].st = st]
      PROVE  client' = [client EXCEPT ![c].st = st, ![c].pid = client[c].pid]
  BY <1>1, <1>3 DEF ClientFields
<1>4. ASSUME NEW st \in {"connected", "waiting", "hung"}, client' = [client EXCEPT ![c].st = st]
      PROVE  \A e \in Client : ClientType(client'[e])
  <2>1. /\ client'[c].st = st /\ client'[c].pid = client[c].pid /\ client'[c].exit = client[c].exit
        /\ \A e \in Client : e # c => client'[e] = client[e]
    BY <1>1, <1>4 DEF ClientFields
  <2>2. ClientType(client'[c])
    BY <1>1, <1>4, <2>1 DEF ClientType
  <2> QED BY <2>1, <2>2 DEF StateInv
<1>5. CASE Connect(c)
  <2>1. UNCHANGED <<pidFile, owner, call, counter, logs, jobs>>
    BY <1>5 DEF Connect, daemonVars
  <2>2. \A e \in Client : ClientType(client'[e])
    BY <1>1, <1>4, <1>5, LeavesType DEF Connect
  <2> QED
    BY <1>2, <2>1, <2>2 DEF StateInv
<1>6. CASE GetJobId(c)
  <2>1. UNCHANGED <<pidFile, owner, call, logs, jobs>>
    BY <1>6 DEF GetJobId, daemonVars
  <2>2. CASE owner = NoDaemon
    <3>1. client' = Leaves(c, 1) /\ counter' = counter
      BY <1>6, <2>2 DEF GetJobId
    <3> QED
      BY <1>1, <1>2, <2>1, <3>1, LeavesType DEF StateInv
  <2>3. CASE owner # NoDaemon
    <3>1. owner \in Daemon /\ counter[owner] \in Nat
      BY <2>3 DEF StateInv
    <3>2. /\ client' = [client EXCEPT ![c].st = "identified", ![c].pid = counter[owner]]
          /\ counter' = [counter EXCEPT ![owner] = @ + 1]
      BY <1>6, <2>3 DEF GetJobId
    <3>3. \A e \in Client : ClientType(client'[e])
      BY <1>1, <3>1, <3>2, MovesType
    <3>4. counter' \in [Daemon -> Nat]
      BY <3>1, <3>2 DEF StateInv
    <3> QED
      BY <1>2, <2>1, <3>3, <3>4 DEF StateInv
  <2> QED
    BY <2>2, <2>3
<1>7. CASE DoNotCall(c)
  <2>1. UNCHANGED <<pidFile, owner, call, counter, logs, jobs>>
    BY <1>7 DEF DoNotCall, daemonVars
  <2>2. \A e \in Client : ClientType(client'[e])
    BY <1>1, <1>4, <1>7, LeavesType DEF DoNotCall
  <2> QED
    BY <1>2, <2>1, <2>2 DEF StateInv
<1>8. CASE StartJob(c)
  <2>1. /\ UNCHANGED <<pidFile, owner, call, counter>> /\ logs' = logs \cup {client[c].pid}
        /\ client' = [client EXCEPT ![c].st = "waiting"] /\ owner \in Daemon /\ client[c].pid \in Nat
        /\ Request(c).reply \in Replies
    BY <1>1, <1>8 DEF StartJob, CallMethod, daemonVars, StateInv, ClientType, Answered
  <2>2. PICK st \in {"running", "failed"} :
          jobs' = jobs \cup {[id |-> client[c].pid, daemon |-> owner, client |-> c, watched |-> TRUE,
                              reply |-> Request(c).reply, st |-> st]}
    BY <1>8 DEF StartJob
  <2>3. Bounded(logs')
    BY <2>1, OneMoreId DEF StateInv
  <2>4. \A e \in Client : ClientType(client'[e])
    BY <1>4, <2>1
  <2> QED
    BY <1>2, <2>1, <2>2, <2>3, <2>4 DEF StateInv
<1>9. CASE RefuseJob(c)
  <2>1. UNCHANGED <<pidFile, owner, call, counter, logs, jobs>>
    BY <1>9 DEF RefuseJob, daemonVars
  <2>2. PICK s : s = Emitted(client, "failure", client[c].pid) /\ client' = [s EXCEPT ![c].st = "waiting"]
    BY <1>9 DEF RefuseJob
  <2>3. \A e \in Client : DOMAIN s = Client /\ DOMAIN s[e] = ClientFields /\ ClientType(s[e])
    BY <2>2, EmittedType
  <2>4. /\ client'[c].st = "waiting" /\ client'[c].pid = s[c].pid /\ client'[c].exit = s[c].exit
        /\ \A e \in Client : e # c => client'[e] = s[e]
    BY <1>1, <2>2, <2>3 DEF ClientFields
  <2>5. \A e \in Client : ClientType(client'[e])
    BY <1>1, <2>3, <2>4 DEF ClientType
  <2> QED
    BY <1>2, <2>1, <2>5 DEF StateInv
<1>10. CASE Receive(c)
  <2>1. UNCHANGED <<pidFile, owner, call, counter, logs, jobs>>
    BY <1>10 DEF Receive, daemonVars
  <2>2. CASE client' = [client EXCEPT ![c].inbox = Tail(@)]
    <3>1. /\ client'[c].st = client[c].st /\ client'[c].pid = client[c].pid /\ client'[c].exit = client[c].exit
          /\ \A e \in Client : e # c => client'[e] = client[e]
      BY <1>1, <2>2 DEF ClientFields
    <3>2. \A e \in Client : ClientType(client'[e])
      BY <1>1, <3>1 DEF ClientType, StateInv
    <3> QED
      BY <1>2, <2>1, <3>2 DEF StateInv
  <2>3. CASE \E code \in {0, 1} : client' = Leaves(c, code)
    <3>1. \A e \in Client : ClientType(client'[e])
      BY <1>1, <2>3, LeavesType
    <3> QED
      BY <1>2, <2>1, <3>1 DEF StateInv
  <2> QED
    BY <1>10, <2>2, <2>3 DEF Receive
<1> QED
  BY <1>5, <1>6, <1>7, <1>8, <1>9, <1>10 DEF ClientStep

\* The pid file and the name are of a start of the service, or of nobody.
LEMMA DaemonNames ==
    ASSUME NEW d \in Daemon, Initialize(d) \/ Steps(d),
           pidFile \in Daemon \cup {NoDaemon}, owner \in Daemon \cup {NoDaemon}
    PROVE  pidFile' \in Daemon \cup {NoDaemon} /\ owner' \in Daemon \cup {NoDaemon}
  BY DEF Initialize, Steps, Start, Helper, CreatePidFile, NameAcquired, NameLost, Terminate, Unlink,
         UnlinkAgain, Killed

LEMMA StateInvStep == JobInv /\ StateInv /\ [Next]_vars => StateInv'
<1> SUFFICES ASSUME JobInv, StateInv, [Next]_vars PROVE StateInv'
  OBVIOUS
<1>1. CASE UNCHANGED vars
  BY <1>1 DEF vars, daemonVars, StateInv, Request
<1>2. ASSUME UNCHANGED <<logs, call>>, counter' \in [Daemon -> Nat],
             pidFile' \in Daemon \cup {NoDaemon}, owner' \in Daemon \cup {NoDaemon},
             \A k \in jobs' : \E j \in jobs : /\ k.daemon = j.daemon /\ k.reply = j.reply
                                              /\ k.st \in {j.st, "ok", "failed"},
             \A e \in Client : ClientType(client'[e])
      PROVE  StateInv'
  <2>1. \A e \in DOMAIN call' : Answered(Request(e))'
    BY <1>2 DEF StateInv, Request
  <2> QED
    BY <1>2, <2>1 DEF StateInv
<1>3. ASSUME NEW d \in Daemon, InitializeService(d)
      PROVE  StateInv'
  <2>1. determine_next_pid \in Nat
    BY NextPid DEF StateInv
  <2>2. counter' = [counter EXCEPT ![d] = determine_next_pid] /\ UNCHANGED <<logs, jobs, call, client>> /\ Initialize(d)
    BY <1>3 DEF InitializeService
  <2>3. counter' \in [Daemon -> Nat]
    BY <2>1, <2>2 DEF StateInv
  <2> QED
    BY <1>2, <2>2, <2>3, DaemonNames DEF StateInv
<1>4. ASSUME NEW d \in Daemon, DaemonStep(d)
      PROVE  StateInv'
  <2>1. Steps(d) /\ UNCHANGED <<counter, logs, call, client>>
    BY <1>4 DEF DaemonStep
  <2>2. jobs' = jobs \/ jobs' = {[j EXCEPT !.watched = @ /\ j.daemon # d] : j \in jobs}
    BY <1>4 DEF DaemonStep
  <2>3. ASSUME NEW k \in jobs'
        PROVE  \E j \in jobs : k.daemon = j.daemon /\ k.reply = j.reply /\ k.st = j.st
    <3>1. ASSUME NEW j \in jobs, NEW w, k = [j EXCEPT !.watched = w]
          PROVE  k.daemon = j.daemon /\ k.reply = j.reply /\ k.st = j.st
      BY <3>1 DEF JobInv, JobOK, JobFields
    <3> QED
      BY <2>2, <3>1
  <2> QED
    BY <1>2, <2>1, <2>3, DaemonNames DEF StateInv
<1>5. ASSUME NEW j \in jobs, JobEnds(j)
      PROVE  StateInv'
  <2>1. UNCHANGED <<pidFile, owner, counter, logs, call, client>>
    BY <1>5 DEF JobEnds, daemonVars
  <2>2. PICK st \in {"ok", "failed"} : jobs' = (jobs \ {j}) \cup {[j EXCEPT !.st = st]}
    BY <1>5 DEF JobEnds
  <2> DEFINE k == [j EXCEPT !.st = st]
  <2>3. k.daemon = j.daemon /\ k.reply = j.reply /\ k.st \in {"ok", "failed"}
    BY DEF JobInv, JobOK, JobFields
  <2> QED
    BY <1>2, <2>1, <2>2, <2>3 DEF StateInv
<1>6. ASSUME NEW j \in jobs, ThreadSignals(j)
      PROVE  StateInv'
  <2>1. UNCHANGED <<pidFile, owner, counter, logs, call>>
    BY <1>6 DEF ThreadSignals, daemonVars
  <2>2. PICK k : k = [j EXCEPT !.watched = FALSE] /\ jobs' = (jobs \ {j}) \cup {k}
    BY <1>6 DEF ThreadSignals
  <2>3. k.daemon = j.daemon /\ k.reply = j.reply /\ k.st = j.st
    BY <2>2 DEF JobInv, JobOK, JobFields
  <2>4. client' = client \/ client' = Emitted(client, Signal(j), j.id)
    BY <1>6 DEF ThreadSignals, Emit
  <2>5. \A e \in Client : ClientType(client'[e])
    BY <2>4, EmittedType DEF StateInv
  <2> QED
    BY <1>2, <2>1, <2>2, <2>3, <2>5 DEF StateInv
<1> QED
  BY <1>1, <1>3, <1>4, <1>5, <1>6, ClientStepTypes DEF Next

\* determine_next_pid(), on_handle_get_job_id: every job has an id, a log file and one
\* of the four kinds of answers, and the ids of all log files have a next.
THEOREM TypeCorrect == Spec => []TypeOK
<1>1. DaemonInv /\ JobInv /\ StateInv => TypeOK
  BY DEF DaemonInv, DaemonType, JobInv, JobOK, StateInv, Bounded, ClientType, Replies, TypeOK
<1> QED
  BY <1>1, StateInvInit, StateInvStep, DaemonInvAlways, JobInvAlways, PTL DEF Spec
=============================================================================
