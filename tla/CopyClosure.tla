----------------------------- MODULE CopyClosure -----------------------------
(***************************************************************************)
(* Copying the closures of store paths between the coordinator and a       *)
(* target (src/libpkgmgmt/copy-closure.c).  Every copy is a process; the   *)
(* commands it waits for are Nix commands, here or on the target.          *)
(***************************************************************************)
EXTENDS Naturals, Sequences, FiniteSets

CONSTANTS
    References,   \* store path |-> the store paths it refers to
    MayFail       \* TRUE when commands on stores can fail

Path == DOMAIN References

ASSUME ReferencesOK ==
    /\ IsFiniteSet(Path)
    /\ \A p \in Path : References[p] \subseteq Path
    /\ MayFail \in BOOLEAN

VARIABLES
    store,    \* the valid paths of the coordinator and of every target
    worker    \* the process of every item of an iteration

copyVars == <<store, worker>>

Closure[P \in SUBSET Path] ==
    LET more == P \cup UNION {References[p] : p \in P}
    IN  IF more = P THEN P ELSE Closure[more]

Closed(P) == \A p \in P : References[p] \subseteq P

Copy(from, to, paths) == [at |-> "query", from |-> from, to |-> to, paths |-> paths]
NoWorker == [at |-> "none"]
Running(w) == w.at \notin {"none", "ok", "failed"}
Ended(w) == w.at \in {"ok", "failed"}

Goes(i, at, paths) == worker' = [worker EXCEPT ![i].at = at, ![i].paths = paths]

\* Fault: only the paths that were asked for are looked at.
QueryNothing(i) ==
    LET w == worker[i]
    IN  /\ w.at = "query" /\ w.paths \subseteq store[w.from]
        /\ Goes(i, IF w.paths = {} THEN "ok" ELSE "print invalid", w.paths)
        /\ UNCHANGED store

\* Only valid paths have requisites.
QueryRequisites(i) ==
    LET w == worker[i]
    IN  /\ w.at = "query" /\ w.paths \subseteq store[w.from]
        /\ Goes(i, IF w.paths = {} THEN "ok" ELSE "print invalid", Closure[w.paths])
        /\ UNCHANGED store

PrintInvalid(i) ==
    LET w == worker[i]
        invalid == w.paths \ store[w.to]
    IN  /\ w.at = "print invalid"
        /\ Goes(i, IF invalid = {} THEN "ok" ELSE "export", invalid)
        /\ UNCHANGED store

Export(i) ==
    LET w == worker[i]
    IN  /\ w.at = "export" /\ w.paths \subseteq store[w.from]
        /\ Goes(i, "import", w.paths)
        /\ UNCHANGED store

Import(i) ==
    LET w == worker[i]
    IN  /\ w.at = "import"
        /\ store' = [store EXCEPT ![w.to] = @ \cup w.paths]
        /\ Goes(i, "ok", w.paths)

\* A command fails, or its process cannot be started; an import may have added
\* some of the paths, references first.
CopyFails(i) ==
    LET w == worker[i]
    IN  /\ w.at \in {"query", "print invalid", "export", "import"}
        /\ MayFail \/ (w.at \in {"query", "export"} /\ ~(w.paths \subseteq store[w.from]))
        /\ Goes(i, "failed", w.paths)
        /\ \/ UNCHANGED store
           \/ /\ w.at = "import"
              /\ \E some \in SUBSET w.paths :
                   /\ Closed(store[w.to] \cup some)
                   /\ store' = [store EXCEPT ![w.to] = @ \cup some]

CopyStep(i) ==
    QueryRequisites(i) \/ PrintInvalid(i) \/ Export(i) \/ Import(i) \/ CopyFails(i)
=============================================================================
