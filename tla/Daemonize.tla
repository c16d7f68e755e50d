----------------------------- MODULE Daemonize -----------------------------
(***************************************************************************)
(* The life of the Disnix service: the double fork of daemonize(), the     *)
(* message through the pipe, the pid file, the name on the bus             *)
(* (src/dbus-service/daemonize.c, disnix-service.c).                       *)
(*                                                                         *)
(* Every member of Daemon is one start of disnix-service --daemon.         *)
(***************************************************************************)
EXTENDS Naturals

CONSTANTS
    Daemon,      \* starts of the service
    NoDaemon,    \* not one of them
    MayFail,     \* TRUE when system calls of daemonize() may fail
    MayCrash     \* TRUE when a daemon may be killed

ASSUME DaemonsOK == NoDaemon \notin Daemon /\ MayFail \in BOOLEAN /\ MayCrash \in BOOLEAN

VARIABLES
    stage,     \* how far each start has come
    told,      \* the status daemonize() returned, or "none"
    status,    \* the exit status of the daemon process, or "none"
    pidFile,   \* the daemon whose pid is in the pid file, or NoDaemon
    owner      \* the daemon that owns the name on the bus, or NoDaemon

daemonVars == <<stage, told, status, pidFile, owner>>

Stages == {"unstarted", "helper", "forked", "initializing", "running", "stopping", "unlinked", "exited"}

DaemonInit(starts) ==
    /\ stage = [d \in Daemon |-> IF d \in starts THEN "unstarted" ELSE "exited"]
    /\ told = [d \in Daemon |-> "none"]
    /\ status = [d \in Daemon |-> "none"]
    /\ pidFile = NoDaemon /\ owner = NoDaemon

At(d, s) == stage[d] = s
Goes(d, s) == stage' = [stage EXCEPT ![d] = s]

\* notify_parent_process: one byte; the parent reads one and returns it.
Notify(d, message) == told' = [told EXCEPT ![d] = message]

Exits(d, s) == Goes(d, "exited") /\ status' = [status EXCEPT ![d] = s]

\* The process gives up and tells the parent why.
GivesUp(d, message) == Notify(d, message) /\ Exits(d, message)

\* daemonize()
Start(d) ==
    /\ At(d, "unstarted")
    /\ \/ Goes(d, "helper") /\ UNCHANGED <<told, status>>
       \/ MayFail /\ GivesUp(d, "cannot fork helper process")
    /\ UNCHANGED <<pidFile, owner>>

Helper(d) ==
    /\ At(d, "helper")
    /\ \/ Goes(d, "forked") /\ UNCHANGED <<told, status>>
       \/ MayFail /\ GivesUp(d, "cannot set sid")
       \/ MayFail /\ GivesUp(d, "cannot fork daemon process")
    /\ UNCHANGED <<pidFile, owner>>

\* Fault: the pid file is created without O_EXCL.
CreatePidFileShared(d) ==
    /\ At(d, "forked")
    /\ Goes(d, "initializing") /\ pidFile' = d
    /\ UNCHANGED <<told, status, owner>>

\* The pid file is created exclusively.  When its contents cannot be written it
\* stays behind.
CreatePidFile(d) ==
    /\ At(d, "forked")
    /\ \/ pidFile = NoDaemon /\ Goes(d, "initializing") /\ pidFile' = d /\ UNCHANGED <<told, status>>
       \/ /\ GivesUp(d, "cannot create pid file")
          /\ \/ pidFile # NoDaemon /\ UNCHANGED pidFile
             \/ MayFail /\ pidFile = NoDaemon /\ pidFile' = d
       \/ MayFail /\ GivesUp(d, "cannot chdir") /\ UNCHANGED pidFile
    /\ UNCHANGED owner

\* Fault: the parent is told before the daemon is initialized.
NotifiedEarly(d) ==
    /\ At(d, "initializing")
    /\ Notify(d, "success")
    /\ \/ Goes(d, "running") /\ UNCHANGED <<status, pidFile>>
       \/ MayFail /\ Exits(d, "cannot init daemon") /\ pidFile' = NoDaemon
    /\ UNCHANGED owner

\* initialize_disnix_service asks for the name on the bus but does not wait for it.
Initialize(d) ==
    /\ At(d, "initializing")
    /\ \/ Goes(d, "running") /\ Notify(d, "success") /\ UNCHANGED <<status, pidFile>>
       \/ MayFail /\ GivesUp(d, "cannot init daemon") /\ pidFile' = NoDaemon
    /\ UNCHANGED owner

NameAcquired(d) ==
    /\ At(d, "running") /\ owner = NoDaemon
    /\ owner' = d
    /\ UNCHANGED <<stage, told, status, pidFile>>

\* Somebody else has it, or the connection broke.  The pid file stays behind.
NameLost(d) ==
    /\ At(d, "running")
    /\ owner \notin {d, NoDaemon} \/ MayFail
    /\ Exits(d, "name lost")
    /\ owner' = IF owner = d THEN NoDaemon ELSE owner
    /\ UNCHANGED <<told, pidFile>>

\* SIGTERM or SIGINT ends the main loop.
Terminate(d) ==
    /\ At(d, "running")
    /\ Goes(d, "stopping")
    /\ owner' = IF owner = d THEN NoDaemon ELSE owner
    /\ UNCHANGED <<told, status, pidFile>>

\* start_disnix_service removes the pid file ...
Unlink(d) ==
    /\ At(d, "stopping")
    /\ Goes(d, "unlinked") /\ pidFile' = NoDaemon
    /\ UNCHANGED <<told, status, owner>>

\* ... and so does daemonize, which takes a success for a failure.
UnlinkAgain(d) ==
    /\ At(d, "unlinked")
    /\ Exits(d, IF pidFile = NoDaemon THEN "success" ELSE "cannot unlink pid file")
    /\ pidFile' = NoDaemon
    /\ UNCHANGED <<told, owner>>

\* SIGKILL.  A parent that still reads from the pipe finds it closed.
Killed(d) ==
    /\ MayCrash /\ ~At(d, "unstarted") /\ ~At(d, "exited")
    /\ Exits(d, "killed")
    /\ told' = [told EXCEPT ![d] = IF @ = "none" THEN "unknown daemon error" ELSE @]
    /\ owner' = IF owner = d THEN NoDaemon ELSE owner
    /\ UNCHANGED pidFile

Steps(d) ==
    \/ Start(d) \/ Helper(d) \/ CreatePidFile(d) \/ NameAcquired(d) \/ NameLost(d)
    \/ Terminate(d) \/ Unlink(d) \/ UnlinkAgain(d) \/ Killed(d)

\* Daemons that are not on their way out.
Up(d) == stage[d] \in {"initializing", "running"}
=============================================================================
