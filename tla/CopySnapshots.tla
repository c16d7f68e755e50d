--------------------------- MODULE CopySnapshots ---------------------------
(***************************************************************************)
(* Copying the snapshots of one component between the coordinator and a    *)
(* target (src/libstatemgmt/copy-snapshots.c).                             *)
(*                                                                         *)
(* A snapshot store keeps the generations of a component: a sequence of    *)
(* snapshots, the newest last.  dysnomia-snapshots, which owns the stores, *)
(* is external; each of its commands may fail.  A copy is given by the set *)
(* of outcomes it can have at the receiving store.                         *)
(***************************************************************************)
EXTENDS Naturals, Sequences, SequencesExt, FiniteSetsExt

\* The receiving store, and the exit status so far.
Outcome(gens, ok) == [gens |-> gens, ok |-> ok]

\* --import links a snapshot as the newest generation, unless it is already.
Generation(gens, s) ==
    IF gens # <<>> /\ Last(gens) = s THEN gens ELSE Append(gens, s)

\* --query-all and --query-latest.
QueryAll(gens) == gens
QueryLatest(gens) == IF gens = <<>> THEN <<>> ELSE <<Last(gens)>>
Query(gens, all) == IF all THEN QueryAll(gens) ELSE QueryLatest(gens)

\* --print-missing: which of the given snapshots the store lacks.
PrintMissing(snapshots, gens) == {n \in DOMAIN snapshots : snapshots[n] \notin Range(gens)}

\* --gc --keep
Clean(gens, keep) ==
    IF Len(gens) <= keep THEN gens
    ELSE SubSeq(gens, Len(gens) - keep + 1, Len(gens))

\* A command that fails leaves the store alone.
Failed(o) == Outcome(o.gens, FALSE)
Imported(o, s) == Outcome(Generation(o.gens, s), TRUE)

\* The receiver has the snapshot: resolve and import it there, which orders it.
\* A failing resolve leaves nothing to import, which is refused.
OrderRemotely(o, s) == {Imported(o, s), Failed(o)}

\* The receiver lacks the snapshot: resolve it here, import it there.
SendMissing(o, s) == {Imported(o, s), Failed(o)}

OrderLocally(o, s) == {Imported(o, s), Failed(o)}

\* Of all snapshots that are missing only the first is exported and imported.
RetrieveMissing(o, snapshots, missing) == {Imported(o, snapshots[Min(missing)]), Failed(o)}

\* One round of the loops.
SendRound(o, s) ==
    {Failed(o)} \cup
    IF PrintMissing(<<s>>, o.gens) = {} THEN OrderRemotely(o, s) ELSE SendMissing(o, s)

RetrieveRound(o, s, snapshots) ==
    LET missing == PrintMissing(snapshots, o.gens)
    IN  {Failed(o)} \cup
        IF missing = {} THEN OrderLocally(o, s) ELSE RetrieveMissing(o, snapshots, missing)

Round(direction, o, s, snapshots) ==
    IF direction = "to" THEN SendRound(o, s) ELSE RetrieveRound(o, s, snapshots)

\* The query may fail; then round follows round, whatever their status, and the
\* exit status is that of the last one.
Copy(direction, snapshots, dst) ==
    LET After[n \in 0 .. Len(snapshots)] ==
          IF n = 0 THEN {Outcome(dst, TRUE)}
          ELSE UNION {Round(direction, o, snapshots[n], snapshots) : o \in After[n - 1]}
    IN  {Outcome(dst, FALSE)} \cup After[Len(snapshots)]

CopySnapshotsTo(src, dst, all) == Copy("to", Query(src, all), dst)

\* Fault: the newest snapshot is taken to be the oldest generation.
RetrieveOldest(src, dst, all) ==
    Copy("from", IF all \/ src = <<>> THEN src ELSE <<Head(src)>>, dst)

CopySnapshotsFrom(src, dst, all) == Copy("from", Query(src, all), dst)
=============================================================================
