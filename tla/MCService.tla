----------------------------- MODULE MCService -----------------------------
(***************************************************************************)
(* Instances of Service for TLC.                                           *)
(***************************************************************************)
EXTENDS Service

MCClient == {"c1", "c2"}
MCDaemon == {"d1", "d2"}

\* The parameters of an operation that uses none of them.
Blank == [operation |-> None, target |-> "t", profile |-> "p", type |-> None, container |-> None,
          component |-> None, arguments |-> <<>>, paths |-> <<>>, command |-> None,
          deleteOld |-> FALSE, keep |-> 1]

Call(p, argv) ==
    [argv |-> argv,
     wanted |-> [field \in {"operation", "type", "container", "component", "arguments", "paths",
                            "command", "deleteOld", "keep"} |-> p[field]]
                @@ (IF "--profile" \in Range(argv.args) THEN "profile" :> p.profile ELSE << >>)]

PathLists == {<<>>, <<"s1">>, <<"s1", "s2">>}

\* Operations on store paths, snapshots and the whole target.
PackageCalls ==
    LET P(op, paths) == [Blank EXCEPT !.operation = op, !.paths = paths]
    IN  UNION {
          {Call(p, pkgmgmt_remote_collect_garbage(p)) :
             p \in {[P("--collect-garbage", <<>>) EXCEPT !.deleteOld = b] : b \in BOOLEAN}},
          {LET p == P("--set", <<"s1">>) IN Call(p, pkgmgmt_remote_set(p)),
           LET p == P("--query-installed", <<>>) IN Call(p, pkgmgmt_remote_query_installed(p)),
           LET p == P("--realise", <<"s1">>) IN Call(p, pkgmgmt_remote_realise(p)),
           LET p == P("--import", <<"s1">>) IN Call(p, pkgmgmt_import_local_closure(p)),
           LET p == P("--capture-config", <<>>) IN Call(p, statemgmt_remote_capture_config(p))},
          {Call(P("--query-requisites", s), pkgmgmt_remote_query_requisites(P("--query-requisites", s))) :
             s \in PathLists},
          {Call(P("--print-invalid", s), pkgmgmt_remote_print_invalid(P("--print-invalid", s))) :
             s \in PathLists},
          {Call(P("--export", s), pkgmgmt_export_remote_closure(P("--export", s))) : s \in PathLists},
          {Call(P("--lock", <<>>), lock_or_unlock("--lock", Blank)),
           Call(P("--unlock", <<>>), lock_or_unlock("--unlock", Blank))}}

StateCalls ==
    LET Ops == {"--activate", "--deactivate", "--snapshot", "--restore", "--delete-state"}
        P(op, args) == [Blank EXCEPT !.operation = op, !.paths = <<"s1">>, !.type = "process",
                                     !.container = "box", !.arguments = args]
        ArgLists == {<<>>, <<"k=v">>, <<"k=v", "l=w">>}
    IN  {Call(P(op, args), exec_dysnomia_activity(op, P(op, args))) : op \in Ops, args \in ArgLists}
        \cup {Call(p, statemgmt_remote_shell(p)) :
                p \in {[P("--shell", args) EXCEPT !.command = c] : args \in ArgLists, c \in {None, "ls"}}}

SnapshotCalls ==
    LET P(op, paths) == [Blank EXCEPT !.operation = op, !.paths = paths, !.container = "box",
                                      !.component = "c"]
        Clean == {[P("--clean-snapshots", <<>>) EXCEPT !.keep = n, !.container = b, !.component = c] :
                    n \in 0 .. MaxKeep, b \in {None, "box"}, c \in {None, "c"}}
        Some == [Blank EXCEPT !.operation = "--print-missing-snapshots"]
    IN  UNION {
          {Call(p, statemgmt_remote_clean_snapshots(p)) : p \in Clean},
          {LET p == P("--query-all-snapshots", <<>>) IN Call(p, statemgmt_remote_query_all_snapshots(p)),
           LET p == P("--query-latest-snapshot", <<>>) IN Call(p, statemgmt_remote_query_latest_snapshot(p))},
          {Call(p, statemgmt_remote_print_missing_snapshots(p)) :
             p \in {[Some EXCEPT !.paths = s] : s \in PathLists}},
          {Call(p, statemgmt_remote_resolve_snapshots(p)) :
             p \in {[Some EXCEPT !.paths = s, !.operation = "--resolve-snapshots"] : s \in PathLists}},
          {Call(P("--import-snapshots", s), statemgmt_import_local_snapshots(P("--import-snapshots", s))) :
             s \in PathLists},
          {Call(P("--import-snapshots", s), statemgmt_import_remote_snapshots(P("--import-snapshots", s))) :
             s \in PathLists},
          {Call(P("--export-snapshots", s), statemgmt_export_remote_snapshots(P("--export-snapshots", s))) :
             s \in PathLists}}

\* disnix-client --activate without a type, typed by a user.
Mistyped ==
    LET p == [Blank EXCEPT !.operation = "--activate", !.paths = <<"s1">>]
    IN  Call(p, Literal(<<"disnix-client", "--activate", "s1">>))

AnyCall == PackageCalls \cup StateCalls \cup SnapshotCalls \cup {Mistyped}

UnlockCall == Call([Blank EXCEPT !.operation = "--unlock"], lock_or_unlock("--unlock", Blank))
PrintInvalid == LET p == [Blank EXCEPT !.operation = "--print-invalid", !.paths = <<"s1">>]
                IN  Call(p, pkgmgmt_remote_print_invalid(p))
ExportCall == LET p == [Blank EXCEPT !.operation = "--export", !.paths = <<"s1">>]
              IN  Call(p, pkgmgmt_export_remote_closure(p))

\* One client with any call, or two with answers of different kinds and a service
\* that is started twice.
MCScenarios ==
    {[call |-> "c1" :> x, starts |-> {"d1"}] : x \in AnyCall}
    \cup {[call |-> "c1" :> x[1] @@ "c2" :> x[2], starts |-> {"d1", "d2"}] :
             x \in {<<UnlockCall, UnlockCall>>, <<UnlockCall, ExportCall>>, <<PrintInvalid, ExportCall>>}}
============================================================================
