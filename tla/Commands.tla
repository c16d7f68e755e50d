------------------------------ MODULE Commands ------------------------------
(***************************************************************************)
(* What becomes of one operation on a target: the command line that the    *)
(* coordinator runs (src/lib*/remote-*.c), what disnix-client or           *)
(* disnix-run-activity make of it, and the command that runs on the target *)
(* in the end (src/lib*/package-management.c, state-management.c,          *)
(* snapshot-management.c).                                                 *)
(*                                                                         *)
(* A call is a record of the parameters an operation can have; an option   *)
(* that is not given is None.  Names of operations are the options that    *)
(* select them.                                                            *)
(***************************************************************************)
EXTENDS Integers, Sequences, SequencesExt, TLC

CONSTANTS MaxKeep  \* the generations --keep can ask for

None == "none"

\* An argument vector, without the NULL at its end, and the elements that were
\* allocated for it.
Vector(size, args) == [size |-> size, args |-> args]
Fits(v) == Len(v.args) + 1 <= v.size
Literal(args) == Vector(Len(args) + 1, args)

Option(name, value) == IF value = None THEN <<>> ELSE <<name, value>>
Repeated(name, values) == FlattenSeq([i \in DOMAIN values |-> <<name, values[i]>>])

\* sprintf("%d") and atoi().
Decimal(n) == ToString(n)
atoi(digits) == CHOOSE n \in 0 .. MaxKeep : ToString(n) = digits

-----------------------------------------------------------------------------
(* The coordinator: the process that an operation on a target forks. *)

pkgmgmt_remote_collect_garbage(c) ==
    Literal(<<"interface", "--target", c.target, "--collect-garbage">>
            \o (IF c.deleteOld THEN <<"-d">> ELSE <<>>))

pkgmgmt_remote_set(c) ==
    Literal(<<"interface", "--target", c.target, "--profile", c.profile, "--set", Head(c.paths)>>)

pkgmgmt_remote_query_installed(c) ==
    Literal(<<"interface", "--target", c.target, "--profile", c.profile, "--query-installed">>)

pkgmgmt_remote_realise(c) ==
    Literal(<<"interface", "--realise", "--target", c.target, Head(c.paths)>>)

pkgmgmt_remote_query_requisites(c) ==
    Vector(5 + Len(c.paths), <<"interface", "--query-requisites", "--target", c.target>> \o c.paths)

pkgmgmt_remote_print_invalid(c) ==
    Vector(5 + Len(c.paths), <<"interface", "--target", c.target, "--print-invalid">> \o c.paths)

pkgmgmt_import_local_closure(c) ==
    Literal(<<"interface", "--import", "--target", c.target, "--localfile", Head(c.paths)>>)

pkgmgmt_export_remote_closure(c) ==
    Vector(Len(c.paths) + 6,
           <<"interface", "--target", c.target, "--export", "--remotefile">> \o c.paths)

\* Fault: the container and the type change places.
exec_dysnomia_activity_swapped(operation, c) ==
    Vector(10 + 2 * Len(c.arguments),
           <<"interface", operation, "--target", c.target, "--container", c.type, "--type", c.container>>
           \o Repeated("--arguments", c.arguments) \o <<Head(c.paths)>>)

exec_dysnomia_activity(operation, c) ==
    Vector(10 + 2 * Len(c.arguments),
           <<"interface", operation, "--target", c.target, "--container", c.container, "--type", c.type>>
           \o Repeated("--arguments", c.arguments) \o <<Head(c.paths)>>)

lock_or_unlock(operation, c) ==
    Literal(<<"interface", operation, "--target", c.target, "--profile", c.profile>>)

statemgmt_remote_shell(c) ==
    Vector(12 + 2 * Len(c.arguments),
           <<"interface", "--shell", "--target", c.target, "--container", c.container, "--type", c.type>>
           \o Repeated("--arguments", c.arguments) \o <<Head(c.paths)>>
           \o Option("--command", c.command))

statemgmt_remote_capture_config(c) ==
    Literal(<<"interface", "--capture-config", "--target", c.target>>)

statemgmt_remote_clean_snapshots(c) ==
    Vector(11, <<"interface", "--target", c.target, "--clean-snapshots", "--keep", Decimal(c.keep)>>
               \o Option("--container", c.container) \o Option("--component", c.component))

\* --query-all-snapshots and --query-latest-snapshot.
QuerySnapshots(operation, c) ==
    LET filter == Option("--container", c.container) \o Option("--component", c.component)
    IN  Vector(5 + Len(filter), <<"interface", "--target", c.target, operation>> \o filter)

statemgmt_remote_query_all_snapshots(c) == QuerySnapshots("--query-all-snapshots", c)
statemgmt_remote_query_latest_snapshot(c) == QuerySnapshots("--query-latest-snapshot", c)

statemgmt_remote_print_missing_snapshots(c) ==
    Vector(5 + Len(c.paths), <<"interface", "--target", c.target, "--print-missing-snapshots">> \o c.paths)

statemgmt_remote_resolve_snapshots(c) ==
    Vector(5 + Len(c.paths), <<"interface", "--target", c.target, "--resolve-snapshots">> \o c.paths)

\* The snapshots are a local or a remote file.
ImportSnapshots(file, c) ==
    Vector(10 + Len(c.paths),
           <<"interface", "--target", c.target, "--import-snapshots", file,
             "--container", c.container, "--component", c.component>> \o c.paths)

statemgmt_import_local_snapshots(c) == ImportSnapshots("--localfile", c)
statemgmt_import_remote_snapshots(c) == ImportSnapshots("--remotefile", c)

statemgmt_export_remote_snapshots(c) ==
    Vector(5 + Len(c.paths), <<"interface", "--target", c.target, "--export-snapshots">> \o c.paths)

-----------------------------------------------------------------------------
(* getopt_long() and the loops around it in disnix-client and              *)
(* disnix-run-activity.                                                    *)

Operations ==
    {"--import", "--export", "--print-invalid", "--realise", "--set", "--query-installed",
     "--query-requisites", "--collect-garbage", "--activate", "--deactivate", "--delete-state",
     "--lock", "--unlock", "--snapshot", "--restore", "--query-all-snapshots",
     "--query-latest-snapshot", "--print-missing-snapshots", "--import-snapshots",
     "--resolve-snapshots", "--clean-snapshots", "--capture-config", "--shell"}

\* Options with a value; that of --target is not looked at.
Valued == {"--target", "--profile", "--type", "--arguments", "--container", "--component",
           "--keep", "--command"}

\* Options neither program knows.
Unknown == {"--export-snapshots"}

NoOptions ==
    [operation |-> None, profile |-> None, type |-> None, container |-> None,
     component |-> None, command |-> None, arguments |-> <<>>, paths |-> <<>>,
     deleteOld |-> FALSE, keep |-> 1, awaits |-> None, usage |-> FALSE]

\* The value of the option that awaits one.
TakeValue(o, value) ==
    CASE o.awaits = "--profile" -> [o EXCEPT !.profile = value, !.awaits = None]
      [] o.awaits = "--type" -> [o EXCEPT !.type = value, !.awaits = None]
      [] o.awaits = "--arguments" -> [o EXCEPT !.arguments = Append(@, value), !.awaits = None]
      [] o.awaits = "--container" -> [o EXCEPT !.container = value, !.awaits = None]
      [] o.awaits = "--component" -> [o EXCEPT !.component = value, !.awaits = None]
      [] o.awaits = "--keep" -> [o EXCEPT !.keep = atoi(value), !.awaits = None]
      [] o.awaits = "--command" -> [o EXCEPT !.command = value, !.awaits = None]
      [] OTHER -> [o EXCEPT !.awaits = None]

TakeToken(o, token) ==
    IF o.usage THEN o
    ELSE IF o.awaits # None THEN TakeValue(o, token)
    ELSE CASE token \in Operations -> [o EXCEPT !.operation = token]
           [] token = "-d" -> [o EXCEPT !.deleteOld = TRUE]
           [] token \in {"--localfile", "--remotefile"} -> o
           [] token \in Valued -> [o EXCEPT !.awaits = token]
           [] token \in Unknown -> [o EXCEPT !.usage = TRUE]
           [] OTHER -> [o EXCEPT !.paths = Append(@, token)]

\* environment: the value of DISNIX_PROFILE.
check_profile_option(profile, environment) ==
    IF profile # None THEN profile ELSE IF environment # None THEN environment ELSE "default"

\* disnix-run-activity.  The first element is the name of the program.
ParseActivity(argv, environment) ==
    LET o == FoldLeft(TakeToken, NoOptions, Tail(argv))
    IN  [o EXCEPT !.profile = check_profile_option(@, environment)]

\* disnix-client accepts --command but does not keep its value.
ParseClient(argv, environment) == [ParseActivity(argv, environment) EXCEPT !.command = None]

-----------------------------------------------------------------------------
(* The target: the commands that carry the operations out.                 *)

Local(env, v) == [env |-> env, args |-> v.args, size |-> v.size]
Plain(args) == Local(<<>>, Literal(args))

pkgmgmt_import_closure(closure) == Plain(<<"nix-store", "--import", closure>>)
pkgmgmt_export_closure(paths) ==
    Local(<<>>, Vector(3 + Len(paths), <<"nix-store", "--export">> \o paths))
pkgmgmt_print_invalid_packages(paths) ==
    Local(<<>>, Vector(4 + Len(paths), <<"nix-store", "--check-validity", "--print-invalid">> \o paths))
pkgmgmt_realise(paths) == Local(<<>>, Vector(3 + Len(paths), <<"nix-store", "-r">> \o paths))
pkgmgmt_set_profile(profile, path) == Plain(<<"nix-env", "-p", profile, "--set", path>>)
query_installed_services(profile) == Plain(<<"print_text_from_profile_manifest", profile>>)
pkgmgmt_query_requisites(paths) == Local(<<>>, Vector(3 + Len(paths), <<"nix-store", "-qR">> \o paths))
pkgmgmt_collect_garbage(deleteOld) ==
    Plain(<<"nix-collect-garbage">> \o (IF deleteOld THEN <<"-d">> ELSE <<>>))

run_dysnomia_activity(type, activity, component, container, arguments) ==
    Local(arguments, Literal(<<"dysnomia", "--type", type, "--operation", activity,
                               "--component", component, "--container", container, "--environment">>))
statemgmt_shell(type, component, container, arguments, command) ==
    Local(arguments, Literal(<<"dysnomia", "--type", type, "--shell", "--component", component,
                               "--container", container, "--environment">>
                             \o Option("--command", command)))
statemgmt_capture_config == Plain(<<"dysnomia-containers", "--generate-expr">>)

acquire_locks(profile) == Plain(<<"acquire_locks", profile>>)
release_locks(profile) == Plain(<<"release_locks", profile>>)

statemgmt_query_all_snapshots(container, component) ==
    Plain(<<"dysnomia-snapshots", "--query-all", "--container", container, "--component", component>>)
statemgmt_query_latest_snapshot(container, component) ==
    Plain(<<"dysnomia-snapshots", "--query-latest", "--container", container, "--component", component>>)
statemgmt_print_missing_snapshots(snapshots) ==
    Local(<<>>, Vector(Len(snapshots) + 3, <<"dysnomia-snapshots", "--print-missing">> \o snapshots))
statemgmt_resolve_snapshots(snapshots) ==
    Local(<<>>, Vector(Len(snapshots) + 3, <<"dysnomia-snapshots", "--resolve">> \o snapshots))
\* An empty container or component is no filter.
NotEmpty(s) == IF s = "" THEN None ELSE s
statemgmt_clean_snapshots(keep, container, component) ==
    Local(<<>>, Vector(9, <<"dysnomia-snapshots", "--gc", "--keep", Decimal(keep)>>
                          \o Option("--container", NotEmpty(container))
                          \o Option("--component", NotEmpty(component))))
\* One element short: the NULL at the end is written behind the vector.
statemgmt_import_snapshots(container, component, snapshots) ==
    Local(<<>>, Vector(Len(snapshots) + 6,
                       <<"dysnomia-snapshots", "--import", "--container", container,
                         "--component", component>> \o snapshots))

-----------------------------------------------------------------------------
(* disnix-client: the method it calls on the Disnix service, and what the  *)
(* handler of the method runs and how it answers.                          *)

\* "refused": exit 1 without a call; "hung": no call either, but the client
\* waits for signals as if there had been one, with a proxy that is gone.
Refused == [st |-> "refused"]
Hung == [st |-> "hung"]
Job(reply, command) == [st |-> "called", reply |-> reply, command |-> command]

\* The container, or None and an error message.
check_dysnomia_activity_parameters(o) ==
    IF o.type = None \/ o.paths = <<>> THEN None
    ELSE IF o.container = None THEN o.type ELSE o.container

\* The dysnomia activity of an operation.
ActivityOf ==
    "--activate" :> "activate" @@ "--deactivate" :> "deactivate" @@ "--snapshot" :> "snapshot"
    @@ "--restore" :> "restore" @@ "--delete-state" :> "collect-garbage"

on_handle_state_activity(activity, derivation, container, type, arguments) ==
    Job("boolean", run_dysnomia_activity(type, activity, derivation, container, arguments))

on_handle_import(closure) == Job("boolean", pkgmgmt_import_closure(closure))
on_handle_export(derivation) == Job("tempfile", pkgmgmt_export_closure(derivation))
on_handle_print_invalid(derivation) == Job("strv", pkgmgmt_print_invalid_packages(derivation))
on_handle_realise(derivation) == Job("strv", pkgmgmt_realise(derivation))
on_handle_set(profile, derivation) == Job("boolean", pkgmgmt_set_profile(profile, derivation))
on_handle_query_installed(profile) == Job("string", query_installed_services(profile))
on_handle_query_requisites(derivation) == Job("strv", pkgmgmt_query_requisites(derivation))
on_handle_collect_garbage(deleteOld) == Job("boolean", pkgmgmt_collect_garbage(deleteOld))
on_handle_lock(profile) == Job("boolean", acquire_locks(profile))
on_handle_unlock(profile) == Job("boolean", release_locks(profile))
on_handle_query_all_snapshots(container, component) ==
    Job("strv", statemgmt_query_all_snapshots(container, component))
on_handle_query_latest_snapshot(container, component) ==
    Job("strv", statemgmt_query_latest_snapshot(container, component))
on_handle_print_missing_snapshots(component) == Job("strv", statemgmt_print_missing_snapshots(component))
on_handle_import_snapshots(container, component, snapshots) ==
    Job("boolean", statemgmt_import_snapshots(container, component, snapshots))
on_handle_resolve_snapshots(snapshots) == Job("strv", statemgmt_resolve_snapshots(snapshots))
on_handle_clean_snapshots(keep, container, component) ==
    Job("boolean", statemgmt_clean_snapshots(keep, container, component))
on_handle_capture_config == Job("tempfile", statemgmt_capture_config)

WantsPath == {"--import", "--set", "--import-snapshots", "--resolve-snapshots"}
OrEmpty(s) == IF s = None THEN "" ELSE s

run_disnix_client(o) ==
    LET op == o.operation
        container == check_dysnomia_activity_parameters(o)
    IN  IF o.usage \/ (op \in WantsPath /\ o.paths = <<>>) THEN Refused
        ELSE
        CASE op \in DOMAIN ActivityOf ->
               IF container = None THEN Hung
               ELSE on_handle_state_activity(ActivityOf[op], Head(o.paths), container, o.type, o.arguments)
          [] op = "--import" -> on_handle_import(Head(o.paths))
          [] op = "--export" -> on_handle_export(o.paths)
          [] op = "--print-invalid" -> on_handle_print_invalid(o.paths)
          [] op = "--realise" -> on_handle_realise(o.paths)
          [] op = "--set" -> on_handle_set(o.profile, Head(o.paths))
          [] op = "--query-installed" -> on_handle_query_installed(o.profile)
          [] op = "--query-requisites" -> on_handle_query_requisites(o.paths)
          [] op = "--collect-garbage" -> on_handle_collect_garbage(o.deleteOld)
          [] op = "--lock" -> on_handle_lock(o.profile)
          [] op = "--unlock" -> on_handle_unlock(o.profile)
          [] op = "--query-all-snapshots" -> on_handle_query_all_snapshots(o.container, o.component)
          [] op = "--query-latest-snapshot" -> on_handle_query_latest_snapshot(o.container, o.component)
          [] op = "--print-missing-snapshots" -> on_handle_print_missing_snapshots(o.paths)
          [] op = "--import-snapshots" -> on_handle_import_snapshots(o.container, o.component, o.paths)
          [] op = "--resolve-snapshots" -> on_handle_resolve_snapshots(o.paths)
          [] op = "--clean-snapshots" ->
               on_handle_clean_snapshots(o.keep, OrEmpty(o.container), OrEmpty(o.component))
          [] op = "--capture-config" -> on_handle_capture_config
          [] OTHER -> Refused

-----------------------------------------------------------------------------
(* disnix-run-activity: it runs the command itself, and exits with its     *)
(* status ("boolean"), after its output is complete ("strv"), or with 0    *)
(* whatever happened ("ignored").                                          *)

run_disnix_activity(o) ==
    LET op == o.operation
        container == check_dysnomia_activity_parameters(o)
    IN  IF \/ o.usage \/ op = None
           \/ op \in WantsPath /\ o.paths = <<>>
           \/ op \in DOMAIN ActivityOf \cup {"--shell"} /\ container = None
        THEN Refused
        ELSE
        CASE op \in DOMAIN ActivityOf ->
               Job("boolean", run_dysnomia_activity(o.type, ActivityOf[op], Head(o.paths), container, o.arguments))
          [] op = "--shell" ->
               Job("boolean", statemgmt_shell(o.type, Head(o.paths), container, o.arguments, o.command))
          [] op = "--import" -> Job("boolean", pkgmgmt_import_closure(Head(o.paths)))
          [] op = "--export" -> Job("ignored", pkgmgmt_export_closure(o.paths))
          [] op = "--print-invalid" -> Job("strv", pkgmgmt_print_invalid_packages(o.paths))
          [] op = "--realise" -> Job("strv", pkgmgmt_realise(o.paths))
          [] op = "--set" -> Job("boolean", pkgmgmt_set_profile(o.profile, Head(o.paths)))
          [] op = "--query-installed" -> Job("ignored", query_installed_services(o.profile))
          [] op = "--query-requisites" -> Job("strv", pkgmgmt_query_requisites(o.paths))
          [] op = "--collect-garbage" -> Job("boolean", pkgmgmt_collect_garbage(o.deleteOld))
          [] op = "--lock" -> Job("boolean", acquire_locks(o.profile))
          [] op = "--unlock" -> Job("boolean", release_locks(o.profile))
          [] op = "--query-all-snapshots" -> Job("strv", statemgmt_query_all_snapshots(o.container, o.component))
          [] op = "--query-latest-snapshot" -> Job("strv", statemgmt_query_latest_snapshot(o.container, o.component))
          [] op = "--print-missing-snapshots" -> Job("strv", statemgmt_print_missing_snapshots(o.paths))
          [] op = "--import-snapshots" -> Job("boolean", statemgmt_import_snapshots(o.container, o.component, o.paths))
          [] op = "--resolve-snapshots" -> Job("strv", statemgmt_resolve_snapshots(o.paths))
          [] op = "--clean-snapshots" ->
               Job("boolean", statemgmt_clean_snapshots(o.keep, OrEmpty(o.container), OrEmpty(o.component)))
          [] op = "--capture-config" -> Job("ignored", statemgmt_capture_config)
=============================================================================
