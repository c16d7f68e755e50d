------------------------------ MODULE Service ------------------------------
(***************************************************************************)
(* The Disnix service and its clients (src/dbus-service).                  *)
(*                                                                         *)
(* A client asks the service for a job id, calls a method with it and      *)
(* waits for a signal that carries it.  The service runs the command of a  *)
(* job in a process and waits for it in a thread.  Job ids count up from   *)
(* the highest log file the service finds when it starts; a log file is    *)
(* only created when a method is called.                                   *)
(***************************************************************************)
EXTENDS Commands, Daemonize, FiniteSets, FiniteSetsExt

CONSTANTS
    Client,       \* processes running disnix-client
    Scenarios,    \* what is run: the calls of clients, with the parameters they
                  \* were composed of, and the starts of the service
    Environment   \* DISNIX_PROFILE, or None

ASSUME ScenariosOK ==
    \A s \in Scenarios : DOMAIN s.call \subseteq Client /\ s.starts \subseteq Daemon

VARIABLES
    counter,   \* job_counter of every daemon
    logs,      \* the job ids that have a log file
    jobs,      \* the processes of jobs, and the threads that wait for them
    call,      \* what a client was asked for, and what it makes of it
    client     \* the clients

vars == <<daemonVars, counter, logs, jobs, call, client>>

Idle == [st |-> "idle", pid |-> -1, inbox |-> <<>>, exit |-> 0]

\* main() reads the options before it connects; what will be called is a
\* function of them.
Parsed(x) ==
    LET options == ParseClient(x.argv.args, Environment)
    IN  [argv |-> x.argv, wanted |-> x.wanted, options |-> options, request |-> run_disnix_client(options)]

Init ==
    /\ counter = [d \in Daemon |-> 0]
    /\ logs = {} /\ jobs = {}
    /\ \E s \in Scenarios : call = [c \in DOMAIN s.call |-> Parsed(s.call[c])] /\ DaemonInit(s.starts)
    /\ client = [c \in Client |-> Idle]

\* The directory has an entry for every log file, and "." and "..", of which atoi
\* makes 0.  It is made with the first log file: without one there is no entry.
determine_next_pid == IF logs = {} THEN 0 ELSE Max(logs) + 1

Options(c) == call[c].options
Request(c) == call[c].request

Leaves(c, code) == [client EXCEPT ![c].st = "exited", ![c].exit = code, ![c].inbox = <<>>]

\* A signal reaches all clients that are connected.  One that knows its job id
\* will ignore the signals of other jobs.
Connected(c) == client[c].st \in {"connected", "identified", "waiting"}
Hears(c, id) == Connected(c) /\ (client[c].st = "connected" \/ client[c].pid = id)
Emitted(clients, signal, id) ==
    [c \in Client |->
        IF Hears(c, id) THEN [clients[c] EXCEPT !.inbox = Append(@, [signal |-> signal, pid |-> id])]
        ELSE clients[c]]

-----------------------------------------------------------------------------
(* Daemons. *)

InitializeService(d) ==
    /\ Initialize(d)
    /\ counter' = [counter EXCEPT ![d] = determine_next_pid]
    /\ UNCHANGED <<logs, jobs, call, client>>

\* The threads of a daemon end with it; the processes of its jobs do not.
DaemonStep(d) ==
    /\ Steps(d)
    /\ jobs' = IF At(d, "exited")' THEN {[j EXCEPT !.watched = @ /\ j.daemon # d] : j \in jobs} ELSE jobs
    /\ UNCHANGED <<counter, logs, call, client>>

\* GLib: the signal goes out while the daemon has its name.
Emit(d, signal, id) ==
    client' = IF owner = d THEN Emitted(client, signal, id) ELSE client

-----------------------------------------------------------------------------
(* disnix-client. *)

Connect(c) ==
    /\ client[c].st = "idle"
    /\ client' = IF Options(c).usage \/ Options(c).operation = None \/ owner = NoDaemon
                 THEN Leaves(c, 1)
                 ELSE [client EXCEPT ![c].st = "connected"]
    /\ UNCHANGED <<daemonVars, counter, logs, jobs, call>>

\* on_handle_get_job_id, assign_pid
GetJobId(c) ==
    /\ client[c].st = "connected"
    /\ IF owner = NoDaemon
       THEN client' = Leaves(c, 1) /\ UNCHANGED counter
       ELSE /\ client' = [client EXCEPT ![c].st = "identified", ![c].pid = counter[owner]]
            /\ counter' = [counter EXCEPT ![owner] = @ + 1]
    /\ UNCHANGED <<daemonVars, logs, jobs, call>>

\* Nothing is called: the client stops, or waits for ever.
DoNotCall(c) ==
    /\ client[c].st = "identified"
    /\ \/ Request(c) = Refused /\ client' = Leaves(c, 1)
       \/ Request(c) = Hung /\ client' = [client EXCEPT ![c].st = "hung"]
       \/ Request(c).st = "called" /\ owner = NoDaemon /\ client' = Leaves(c, 1)
    /\ UNCHANGED <<daemonVars, counter, logs, jobs, call>>

CallMethod(c) ==
    /\ client[c].st = "identified" /\ owner # NoDaemon
    /\ Request(c).st = "called"

\* Fault: no log file is created.
StartJobUnlogged(c) ==
    /\ CallMethod(c) /\ client[c].pid \notin logs
    /\ jobs' = jobs \cup {[id |-> client[c].pid, daemon |-> owner, client |-> c, watched |-> TRUE,
                           reply |-> Request(c).reply, st |-> "running"]}
    /\ client' = [client EXCEPT ![c].st = "waiting"]
    /\ UNCHANGED <<daemonVars, counter, logs, call>>

\* Fault: the log file is opened without O_EXCL.
StartJobShared(c) ==
    /\ CallMethod(c)
    /\ logs' = logs \cup {client[c].pid}
    /\ jobs' = jobs \cup {[id |-> client[c].pid, daemon |-> owner, client |-> c, watched |-> TRUE,
                           reply |-> Request(c).reply, st |-> "running"]}
    /\ client' = [client EXCEPT ![c].st = "waiting"]
    /\ UNCHANGED <<daemonVars, counter, call>>

\* open_log_file creates the log file exclusively; then the process is forked,
\* which may fail.
StartJob(c) ==
    /\ CallMethod(c) /\ client[c].pid \notin logs
    /\ logs' = logs \cup {client[c].pid}
    /\ \E st \in {"running"} \cup (IF MayFail THEN {"failed"} ELSE {}) :
         jobs' = jobs \cup {[id |-> client[c].pid, daemon |-> owner, client |-> c, watched |-> TRUE,
                             reply |-> Request(c).reply, st |-> st]}
    /\ client' = [client EXCEPT ![c].st = "waiting"]
    /\ UNCHANGED <<daemonVars, counter, call>>

\* There is a log file already.
RefuseJob(c) ==
    /\ CallMethod(c) /\ client[c].pid \in logs
    /\ client' = [Emitted(client, "failure", client[c].pid) EXCEPT ![c].st = "waiting"]
    /\ UNCHANGED <<daemonVars, counter, logs, jobs, call>>

JobEnds(j) ==
    /\ j \in jobs /\ j.st = "running"
    /\ \E st \in {"ok", "failed"} : jobs' = (jobs \ {j}) \cup {[j EXCEPT !.st = st]}
    /\ UNCHANGED <<daemonVars, counter, logs, call, client>>

\* Fault: a thread that fails to get a result sends nothing, whatever the job.
SignalOfSuccessOnly(j) == IF j.st = "ok" THEN "success" ELSE None

\* What a thread sends: signal_boolean_result, signal_strv_result,
\* signal_string_result; signal_tempfile_result sends nothing on failure.
Signal(j) ==
    IF j.st = "ok" THEN IF j.reply = "boolean" THEN "finish" ELSE "success"
    ELSE IF j.reply = "tempfile" THEN None ELSE "failure"

ThreadSignals(j) ==
    /\ j \in jobs /\ j.watched /\ j.st \in {"ok", "failed"}
    /\ jobs' = (jobs \ {j}) \cup {[j EXCEPT !.watched = FALSE]}
    /\ IF Signal(j) = None THEN UNCHANGED client ELSE Emit(j.daemon, Signal(j), j.id)
    /\ UNCHANGED <<daemonVars, counter, logs, call>>

\* Fault: the handlers do not compare the job id.
ReceiveAny(c) ==
    /\ client[c].st = "waiting" /\ client[c].inbox # <<>>
    /\ client' = Leaves(c, IF Head(client[c].inbox).signal = "failure" THEN 1 ELSE 0)
    /\ UNCHANGED <<daemonVars, counter, logs, jobs, call>>

\* disnix_finish_signal_handler, disnix_success_signal_handler and
\* disnix_failure_signal_handler, in the main loop of the client.
Receive(c) ==
    /\ client[c].st = "waiting" /\ client[c].inbox # <<>>
    /\ client' = IF Head(client[c].inbox).pid # client[c].pid
                 THEN [client EXCEPT ![c].inbox = Tail(@)]
                 ELSE Leaves(c, IF Head(client[c].inbox).signal = "failure" THEN 1 ELSE 0)
    /\ UNCHANGED <<daemonVars, counter, logs, jobs, call>>

ClientStep(c) ==
    Connect(c) \/ GetJobId(c) \/ DoNotCall(c) \/ StartJob(c) \/ RefuseJob(c) \/ Receive(c)

Next ==
    \/ \E d \in Daemon : InitializeService(d) \/ DaemonStep(d)
    \/ \E c \in DOMAIN call : ClientStep(c)
    \/ \E j \in jobs : JobEnds(j) \/ ThreadSignals(j)

Spec == Init /\ [][Next]_vars

\* Clients run, jobs end and threads that wait for them go on.
FairSpec ==
    /\ Spec
    /\ \A c \in Client : WF_vars(c \in DOMAIN call /\ ClientStep(c))
    /\ WF_vars(\E j \in jobs : JobEnds(j) \/ ThreadSignals(j))

-----------------------------------------------------------------------------
(* Properties. *)

\* The type of the state.
TypeOK ==
    /\ stage \in [Daemon -> Stages]
    /\ pidFile \in Daemon \cup {NoDaemon} /\ owner \in Daemon \cup {NoDaemon}
    /\ counter \in [Daemon -> Nat] /\ logs \subseteq Nat
    /\ \A j \in jobs : j.id \in logs /\ j.daemon \in Daemon /\ j.client \in Client
                       /\ j.reply \in {"boolean", "strv", "string", "tempfile"} /\ j.st \in {"running", "ok", "failed"}
    /\ \A c \in DOMAIN call :
         /\ client[c].st \in {"idle", "connected", "identified", "waiting", "hung", "exited"}
         /\ client[c].pid \in Nat \cup {-1} /\ client[c].exit \in {0, 1}

\* At most one process ever ran under a job id, although a service that starts
\* again hands out ids again that were not used before it stopped.
OneJobPerId == \A j, k \in jobs : j.id = k.id => j = k

JobsOf(c) == {j \in jobs : j.client = c}

\* Two clients have the same job id: the service was restarted in between.
Shared(c) == \E b \in Client \ {c} : client[b].pid = client[c].pid

\* A client that reports success was asked for something that a job really did
\* for it, unless it got a job id that was handed out twice.
SuccessIsReal ==
    \A c \in DOMAIN call :
        client[c].st = "exited" /\ client[c].exit = 0 /\ ~Shared(c)
        => \E j \in JobsOf(c) : j.st = "ok"

\* What the coordinator asked for arrives: the command line it composes is read
\* back as the parameters it was composed of; both clients understand them in
\* the same way; and every argument vector that is composed fits the memory
\* that was allocated for it.  The one of statemgmt_import_snapshots does not:
\* it is one element short.
CallsArrive ==
    \A c \in DOMAIN call :
        LET o == Options(c)
            direct == run_disnix_activity(ParseActivity(call[c].argv.args, Environment))
        IN  /\ Fits(call[c].argv)
            /\ ~o.usage =>
                 \A p \in DOMAIN call[c].wanted : p # "command" => o[p] = call[c].wanted[p]
            /\ Request(c).st = "called" => /\ direct.st = "called"
                                           /\ direct.command = Request(c).command
                                           /\ o.operation # "--import-snapshots" => Fits(direct.command)

\* A client that waits gets its answer, unless the service goes away, or the job
\* was to produce a file and failed: then nobody tells it.
AnswersArrive ==
    \A c \in Client :
        client[c].st = "waiting" ~>
            \/ client[c].st = "exited"
            \/ \E j \in JobsOf(c) : j.st = "failed" /\ j.reply = "tempfile"
            \/ \E j \in JobsOf(c) : j.daemon # owner

\* A service that told its parent that it started did create the pid file and
\* determined its job ids before, and one that reported a failure is not there.
ToldTheTruth ==
    \A d \in Daemon :
        /\ told[d] = "success" =>
             /\ stage[d] \in {"running", "stopping", "unlinked", "exited"}
             /\ status[d] # "cannot init daemon"
        /\ told[d] \notin {"none", "success"} => stage[d] = "exited"

\* The pid file of a service that runs names it, unless one that was stopping
\* removed it a second time.
PidFileNamesDaemon ==
    \A d \in Daemon :
        Up(d) => pidFile = d \/ \E e \in Daemon : status[e] = "cannot unlink pid file"
=============================================================================
