------------------------------ MODULE FrontEnd ------------------------------
(***************************************************************************)
(* The command lines of Disnix: which options each command understands,    *)
(* what they are when they are not given, and what the shell front ends    *)
(* (scripts/disnix-*.in) pass on to the commands they call                 *)
(* (src/*/main.c, src/libmain).                                            *)
(*                                                                         *)
(* An argument list is a function from options, as they are spelled, to    *)
(* their values; an environment is one from variables to theirs.           *)
(***************************************************************************)
EXTENDS Naturals, Sequences, FiniteSets, SequencesExt, TLC

\* An option, argument or variable that is not given.
CONSTANT None

-----------------------------------------------------------------------------
(* Options. *)

\* Long options with the letter that stands for them (DisnixCommandLineOption).
Letters ==
    [h |-> "help", v |-> "version", m |-> "max-concurrent-transfers", p |-> "profile",
     o |-> "old-manifest", C |-> "component", c |-> "container", u |-> "unlock", f |-> "format",
     d |-> "delete-old", S |-> "service", t |-> "target", i |-> "infrastructure"]

Option(spelling) == IF spelling \in DOMAIN Letters THEN Letters[spelling] ELSE spelling
Given(args, option) ==
    LET spellings == {spelling \in DOMAIN args : Option(spelling) = option}
    IN  IF spellings = {} THEN None ELSE args[CHOOSE spelling \in spellings : TRUE]

Value(env, variable) == IF variable \in DOMAIN env THEN env[variable] ELSE None
FirstGiven(values) ==
    values[CHOOSE n \in DOMAIN values : values[n] # None /\ \A m \in 1 .. n - 1 : values[m] = None]

check_interface_option(interface, env) ==
    FirstGiven(<<interface, Value(env, "DISNIX_CLIENT_INTERFACE"), "disnix-ssh-client">>)

\* The option is not looked at.
check_target_property_option(target_property, env) ==
    FirstGiven(<<Value(env, "DISNIX_TARGET_PROPERTY"), "hostname">>)

check_profile_option(profile, env) ==
    FirstGiven(<<profile, Value(env, "DISNIX_PROFILE"), "default">>)

check_tmpdir(tmpdir, env) == FirstGiven(<<tmpdir, Value(env, "TMPDIR"), "/tmp">>)

check_global_delete_state(env) == Value(env, "DISNIX_DELETE_STATE") = "1"

-----------------------------------------------------------------------------
(* The commands: the letters and the long options that getopt_long and the *)
(* switch after it know, what must be given, and how many operands.        *)

Command(letters, options, required, operands) ==
    [options |-> letters \cup options \cup {"h", "v", "help"},
     required |-> required, operands |-> operands]

\* The options that select a part of the state, and those that move it.
Selection == {"container", "component"}
Profiles == {"coordinator-profile-path", "profile"}
Transfers == {"transfer-only", "depth-first", "all", "keep", "max-concurrent-transfers"}
Connection == {"interface", "target-property"}

disnix_activate == Command({"o", "p"},
    Profiles \cup {"old-manifest", "no-upgrade", "no-rollback", "dry-run", "version"}, {}, 1)
disnix_build == Command({"m"}, {"max-concurrent-transfers", "version"}, {}, 1)
disnix_capture_infra == Command({}, Connection \cup {"xml", "version"}, {}, 1)
disnix_capture_manifest == Command({"p", "m"},
    Connection \cup {"profile", "max-concurrent-transfers", "xml", "version"}, {}, 1)
disnix_clean_snapshots == Command({"c", "C"},
    Connection \cup Selection \cup {"keep", "xml", "version"}, {}, 1)
disnix_collect_garbage == Command({"d"}, Connection \cup {"delete-old", "xml", "version"}, {}, 1)
\* getopt_long knows -m, but the switch does not.
disnix_compare_manifest == Command({"o", "p"}, Profiles \cup {"old-manifest"}, {}, 0)
disnix_convert_manifest == Command({"p", "i"},
    Connection \cup Profiles \cup {"infrastructure"}, {"infrastructure"}, 0)
disnix_copy_closure == Command({"t"}, {"from", "to", "target", "interface", "version"}, {}, 1)
disnix_copy_snapshots == Command({"t", "C", "c"},
    Selection \cup {"from", "to", "target", "all", "interface", "version"}, Selection, 0)
disnix_delete_state == Command({"c", "C", "p"}, Selection \cup Profiles \cup {"version"}, {}, 0)
disnix_deploy == Command({"m", "o", "p"},
    Profiles \cup Transfers
      \cup {"old-manifest", "no-upgrade", "no-migration", "no-lock", "delete-state", "version"}, {}, 0)
disnix_diagnose == Command({"S", "c", "t", "p"},
    Profiles \cup {"service", "show-mappings", "container", "target", "command", "version"},
    {"service"}, 0)
disnix_distribute == Command({"m"}, {"max-concurrent-transfers", "version"}, {}, 1)
disnix_lock == Command({"u", "p"}, Profiles \cup {"unlock", "version"}, {}, 0)
disnix_migrate == Command({"c", "C", "m", "o", "p"},
    Selection \cup Profiles \cup Transfers
      \cup {"old-manifest", "no-upgrade", "delete-state", "version"}, {}, 0)
disnix_query == Command({"f", "p"}, Connection \cup {"format", "profile", "xml", "version"}, {}, 1)
disnix_restore == Command({"c", "C", "m", "o", "p"},
    Selection \cup Profiles \cup Transfers \cup {"old-manifest", "no-upgrade", "version"}, {}, 0)
disnix_set == Command({"p"},
    Profiles \cup {"no-coordinator-profile", "no-target-profiles", "version"}, {}, 1)
disnix_snapshot == Command({"c", "C", "m", "o", "p"},
    Selection \cup Profiles \cup Transfers \cup {"old-manifest", "no-upgrade", "version"}, {}, 0)
disnix_visualize == Command({"p"}, Profiles \cup {"no-containers", "version"}, {}, 0)

Commands ==
    [activate |-> disnix_activate, build |-> disnix_build, capture_infra |-> disnix_capture_infra,
     capture_manifest |-> disnix_capture_manifest, clean_snapshots |-> disnix_clean_snapshots,
     collect_garbage |-> disnix_collect_garbage, compare_manifest |-> disnix_compare_manifest,
     convert_manifest |-> disnix_convert_manifest, copy_closure |-> disnix_copy_closure,
     copy_snapshots |-> disnix_copy_snapshots, delete_state |-> disnix_delete_state,
     deploy |-> disnix_deploy, diagnose |-> disnix_diagnose, distribute |-> disnix_distribute,
     lock |-> disnix_lock, migrate |-> disnix_migrate, query |-> disnix_query,
     restore |-> disnix_restore, set |-> disnix_set, snapshot |-> disnix_snapshot,
     visualize |-> disnix_visualize]

\* What main does with a command line: "usage" (exit status 1), "help" (exit
\* status 0), "error" (exit status 1) or "runs".
Parse(command, args, operands) ==
    LET knows == Commands[command]
    IN  IF ~(DOMAIN args \subseteq knows.options) THEN "usage"
        ELSE IF \E option \in {"help", "version"} : Given(args, option) # None THEN "help"
        ELSE IF \/ operands < knows.operands
                \/ \E option \in knows.required : Given(args, option) = None
                \/ {"from", "to"} \subseteq DOMAIN args
             THEN "error"
        ELSE "runs"

\* What an option is in effect when the command runs.
InEffect(option, args, env) ==
    CASE option = "interface" -> check_interface_option(Given(args, option), env)
      [] option = "target-property" -> check_target_property_option(Given(args, option), env)
      [] option = "profile" -> check_profile_option(Given(args, option), env)
      [] option = "delete-state" /\ check_global_delete_state(env) -> "yes"
      [] OTHER -> Given(args, option)

-----------------------------------------------------------------------------
(* The front ends: the commands they call, and the options they pass on.   *)
(* Each keeps the option of the user as it is; a letter for some.          *)

Call(command, args) == [command |-> command, args |-> args]

\* One option; and the options of one list, with those of another that it lacks.
Only(option, value) == [spelling \in {option} |-> value]
Over(args, others) ==
    [spelling \in DOMAIN args \cup DOMAIN others |->
       IF spelling \in DOMAIN args THEN args[spelling] ELSE others[spelling]]

\* Fault: one of the options is not passed on.
PassLess(asked, spellings) ==
    [spelling \in {s \in spellings \ {"no-lock"} : Given(asked, Option(s)) # None} |->
       Given(asked, Option(spelling))]

\* The options among these that the user gave, spelled as the script spells them.
Pass(asked, spellings) ==
    [spelling \in {s \in spellings : Given(asked, Option(s)) # None} |-> Given(asked, Option(spelling))]

\* What the getopt of each script knows.  With another option, or with that for
\* the usage or the version, a script calls nothing.
script_options == {"interface", "target-property", "show-trace"}
model_options == {"services", "infrastructure", "distribution", "packages", "architecture", "extra-params"}
env_options ==
    {"s", "i", "d", "P", "A", "D", "p", "m"} \cup script_options \cup model_options
      \cup {"deployment", "rollback", "undeploy", "switch-to-generation", "list-generations",
            "delete-generations", "delete-all-generations", "deploy-state", "profile",
            "max-concurrent-transfers", "build-on-targets", "coordinator-profile-path", "no-upgrade",
            "no-lock", "no-coordinator-profile", "no-target-profiles", "no-migration", "delete-state",
            "depth-first", "keep"}
delegate_options ==
    {"s", "i", "d", "P", "A", "B", "m"} \cup script_options \cup model_options
      \cup {"build", "max-concurrent-transfers"}
reconstruct_options ==
    {"p", "m"} \cup script_options
      \cup {"deploy-state", "profile", "max-concurrent-transfers", "coordinator-profile-path",
            "no-coordinator-profile"}
\* The line that should note --no-target-profiles is not an assignment but a
\* command that does not exist: the script ends there.
convert_options ==
    {"i", "p"} \cup script_options \cup {"profile", "coordinator-profile-path", "no-coordinator-profile"}

Script(asked, options, calls) == IF DOMAIN asked \subseteq options THEN calls ELSE <<>>

\* disnix-env; previous is the manifest of the last generation, if there is any.
disnix_env(asked, env, previous) ==
    LET given == IF check_global_delete_state(env) THEN Over(asked, Only("delete-state", "yes")) ELSE asked
        passed == Pass(given, {"m", "profile", "no-lock", "no-upgrade", "delete-state",
                               "no-coordinator-profile", "coordinator-profile-path",
                               "no-target-profiles", "no-migration", "depth-first", "keep"})
    IN  Script(asked, env_options,
          <<Call("deploy", IF previous = None THEN passed ELSE Over(passed, Only("o", previous)))>>)

disnix_delegate(asked) == Script(asked, delegate_options, <<Call("build", Pass(asked, {"m"}))>>)

disnix_reconstruct(asked) == Script(asked, reconstruct_options,
    <<Call("capture_manifest", Pass(asked, {"profile", "target-property", "interface", "m"})),
      Call("compare_manifest", Pass(asked, {"profile", "coordinator-profile-path"})),
      Call("set", Over(Only("no-target-profiles", "yes"),
        Pass(asked, {"profile", "coordinator-profile-path", "no-coordinator-profile"})))>>)

\* disnix-convert-manifest is not given --coordinator-profile-path.
disnix_convert(asked) == Script(asked, convert_options,
    <<Call("convert_manifest", Pass(asked, {"profile", "target-property", "interface", "i"})),
      Call("set", Pass(asked, {"profile", "coordinator-profile-path", "no-coordinator-profile"}))>>)
=============================================================================
