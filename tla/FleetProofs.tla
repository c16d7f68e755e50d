----------------------------- MODULE FleetProofs -----------------------------
(***************************************************************************)
(* Proofs about Fleet: every item of an iteration has one process that is  *)
(* completed once, within the limit; the stores stay closed under          *)
(* references; an exit status of 0 means that everything was done; and the *)
(* programs implement the iterations of module Iteration.                  *)
(***************************************************************************)
EXTENDS Fleet, FiniteSetTheorems, TLAPS

-----------------------------------------------------------------------------
(* The invariant: processes and their output. *)

\* A process that copies, and one that runs a command on a target.
Copying ==
    [at : {"query", "print invalid", "export", "import", "ok", "failed"},
     from : DOMAIN store, to : DOMAIN store, paths : SUBSET (Path \cup Missing)]
Working == [at : {"work", "ok", "failed"}, paths : SUBSET (Path \cup Missing)]
Workers == IF Kind \in {"send", "fetch"} THEN Copying ELSE Working

Batch == 1 .. Len(batch)

InScenario ==
    \E s \in Scenarios : /\ program = s.program /\ items = s.items /\ limit = s.limit
                         /\ DOMAIN store = DOMAIN s.store

Types ==
    /\ InScenario
    /\ phase \in 0 .. 2 /\ phase < Len(Phases[program])
    /\ batch \in Seq(1 .. Len(items)) /\ Len(batch) <= Len(items)
    /\ DOMAIN worker = Batch
    /\ \A i \in Batch : worker[i] = NoWorker \/ worker[i] \in Workers
    /\ completed \in [Batch -> {0, 1}]
    /\ pipe \in [Batch -> 0 .. Capacity] /\ got \in [Batch -> Nat]
    /\ index \in 0 .. Len(batch) /\ running \in 0 .. Len(batch) /\ pos \in 0 .. Len(batch) + 1
    /\ futures \in Seq(Batch)
    /\ success \in BOOLEAN /\ waited \in BOOLEAN
    /\ exit \in {"none", "0", "1", "crashed"}
    /\ result \in [1 .. Len(items) -> SUBSET (Path \cup Missing)]

\* Processes are started in order, and completed after they ended.
Counting ==
    /\ \A i \in Batch : worker[i] # NoWorker <=> i <= index
    /\ \A i \in Batch : completed[i] = 1 => Ended(worker[i])
    /\ running = Cardinality(Children)
    /\ Ordered => running <= Limit

\* The array of futures holds every child once; output is in the pipe or read.
Buffering ==
    Gathers =>
      /\ Len(futures) = running
      /\ \A j, k \in 1 .. running : futures[j] = futures[k] => j = k
      /\ \A k \in 1 .. running : futures[k] \in Children
      /\ \A i \in Children : \E k \in 1 .. running : futures[k] = i
      /\ \A i \in Batch : completed[i] = 1 => pipe[i] = 0
      /\ \A i \in Batch : worker[i].at = "ok" => got[i] + pipe[i] = Output

IterationInv == Types /\ Counting /\ Buffering

-----------------------------------------------------------------------------
(* The invariant: what is in the stores. *)

\* What a process copies, whether the coordinator still waits for it or not.
Root(i) == IF Kind = "send" THEN {Item(i).path} ELSE result[batch[i]]
Destination(i) == IF Kind = "send" THEN Item(i).target ELSE Coordinator

\* What it still has to add to the paths that are there is closed with them,
\* and brings the closure of the root.
Closing(w, there) ==
    /\ w.at = "print invalid" => w.paths \subseteq Path /\ Closed(w.paths)
    /\ w.at \in {"export", "import"} => w.paths \subseteq Path /\ Closed(there \cup w.paths)

Bringing(w, root, there) ==
    /\ w.at = "query" => w.paths = root
    /\ w.at = "print invalid" => w.paths = Closure[root]
    /\ w.at \in {"export", "import"} => Closure[root] \subseteq there \cup w.paths
    /\ w.at = "ok" => Closure[root] \subseteq there

CopyOK(i, w) ==
    /\ w.to = Destination(i)
    /\ Closing(w, store[Destination(i)]) /\ Bringing(w, Root(i), store[Destination(i)])

StoresClean == \A p \in DOMAIN store : store[p] \subseteq Path /\ Closed(store[p])

StoresOK ==
    /\ StoresClean
    /\ Kind \in {"send", "fetch"} =>
         \A i \in Batch : worker[i] # NoWorker => CopyOK(i, worker[i])

\* What a future of an item may return.
Returned(i) == IF program = "build" THEN {Outputs[items[i].path]} ELSE {items[i].path}

ResultsOK ==
    /\ \A i \in 1 .. Len(items) : result[i] \in {Missing, Returned(i)}
    /\ (program # "capture_manifest" \/ phase = 0) => batch = [i \in 1 .. Len(items) |-> i]
    /\ program = "capture_manifest" /\ phase = 1 =>
         \A i \in 1 .. Len(items) : result[i] # Missing <=> \E k \in Batch : batch[k] = i
    /\ Kind = "realise" /\ success => \A i \in Batch : completed[i] = 1 => result[batch[i]] # Missing
    /\ Kind = "fetch" => \A i \in Batch : result[batch[i]] # Missing

OutcomesOK ==
    /\ success => \A i \in Batch : completed[i] = 1 => worker[i].at = "ok"
    /\ exit = "0" => phase + 1 = Len(Phases[program]) /\ \A i \in Batch : worker[i].at = "ok"

Inv == IterationInv /\ StoresOK /\ ResultsOK /\ OutcomesOK

-----------------------------------------------------------------------------
(* The closure of a set of paths. *)

\* The recursion is well-founded: there is a function that satisfies it, the
\* least closed superset.
LEMMA ClosureUnfolds ==
    ASSUME NEW P \in SUBSET Path
    PROVE  LET more == P \cup UNION {References[p] : p \in P}
           IN  more \in SUBSET Path /\ Closure[P] = IF more = P THEN P ELSE Closure[more]
<1> DEFINE More(Q) == Q \cup UNION {References[p] : p \in Q}
           Least(Q) == {x \in Path : \A C \in SUBSET Path : Q \subseteq C /\ Closed(C) => x \in C}
           Solves(f) == f = [Q \in SUBSET Path |-> IF More(Q) = Q THEN Q ELSE f[More(Q)]]
           F == [Q \in SUBSET Path |-> Least(Q)]
<1>1. \A Q \in SUBSET Path : More(Q) \in SUBSET Path /\ (More(Q) = Q <=> Closed(Q))
  BY ReferencesOK DEF Closed
<1>2. \A Q, C \in SUBSET Path : Closed(C) => (Q \subseteq C <=> More(Q) \subseteq C)
  BY DEF Closed
<1>3. ASSUME NEW Q \in SUBSET Path
      PROVE  Least(Q) = IF More(Q) = Q THEN Q ELSE Least(More(Q))
  <2>1. CASE More(Q) = Q
    BY <1>1, <2>1
  <2>2. CASE More(Q) # Q
    <3>1. \A C \in SUBSET Path : (Q \subseteq C /\ Closed(C)) <=> (More(Q) \subseteq C /\ Closed(C))
      BY <1>2
    <3> QED BY <2>2, <3>1
  <2> QED BY <2>1, <2>2
<1>4. Solves(F)
  <2>1. \A Q \in SUBSET Path : F[Q] = IF More(Q) = Q THEN Q ELSE F[More(Q)]
    <3> SUFFICES ASSUME NEW Q \in SUBSET Path PROVE F[Q] = IF More(Q) = Q THEN Q ELSE F[More(Q)]
      OBVIOUS
    <3>1. F[Q] = Least(Q) /\ F[More(Q)] = Least(More(Q))
      BY <1>1
    <3> QED BY <1>3, <3>1
  <2> HIDE DEF More
  <2> QED BY <2>1
<1>5. Closure = CHOOSE f : Solves(f)
  BY DEF Closure
<1>6. Solves(Closure)
  BY <1>4, <1>5
<1> QED BY <1>1, <1>6

\* It is the least set that is closed.
LEMMA ClosureIsLeast ==
    ASSUME NEW P \in SUBSET Path
    PROVE  /\ P \subseteq Closure[P] /\ Closure[P] \subseteq Path /\ Closed(Closure[P])
           /\ \A C \in SUBSET Path : P \subseteq C /\ Closed(C) => Closure[P] \subseteq C
<1> DEFINE More(Q) == Q \cup UNION {References[p] : p \in Q}
           Right(Q) == /\ Q \subseteq Closure[Q] /\ Closure[Q] \subseteq Path /\ Closed(Closure[Q])
                       /\ \A C \in SUBSET Path : Q \subseteq C /\ Closed(C) => Closure[Q] \subseteq C
           Wrong == {Path \ Q : Q \in {R \in SUBSET Path : ~Right(R)}}
<1>1. SUFFICES ASSUME Wrong # {} PROVE FALSE
  OBVIOUS
<1>2. IsWellFoundedOn(StrictSubsetOrdering(Path), SUBSET Path)
  BY FS_StrictSubsetOrderingWellFounded, FS_FiniteSubsetsOfFinite, ReferencesOK
<1>3. PICK T \in Wrong : \A U \in Wrong : <<U, T>> \notin StrictSubsetOrdering(Path)
  <2>1. Wrong \subseteq SUBSET Path
    OBVIOUS
  <2> HIDE DEF Wrong
  <2> QED BY <1>1, <1>2, <2>1, WFMin
<1>4. PICK Q \in SUBSET Path : T = Path \ Q /\ ~Right(Q)
  BY <1>3
<1>5. More(Q) \in SUBSET Path /\ Closure[Q] = IF More(Q) = Q THEN Q ELSE Closure[More(Q)]
  BY ClosureUnfolds
<1>6. CASE More(Q) = Q
  <2>1. Closed(Q)
    BY <1>6 DEF Closed
  <2> QED BY <1>4, <1>5, <1>6, <2>1
<1>7. CASE More(Q) # Q
  <2>1. <<Path \ More(Q), T>> \in StrictSubsetOrdering(Path)
    BY <1>4, <1>5, <1>7 DEF StrictSubsetOrdering
  <2>2. Right(More(Q))
    BY <1>3, <1>5, <2>1
  <2>3. \A C \in SUBSET Path : Q \subseteq C /\ Closed(C) => More(Q) \subseteq C
    BY DEF Closed
  <2> QED BY <1>4, <1>5, <1>7, <2>2, <2>3
<1> QED BY <1>6, <1>7

LEMMA ClosureOfNothing == Closure[{}] = {}
<1>1. Closed({})
  BY DEF Closed
<1> QED BY <1>1, ClosureIsLeast

-----------------------------------------------------------------------------
(* Programs, their iterations and their items. *)

LEMMA SetInOrder ==
    ASSUME NEW S, IsFiniteSet(S)
    PROVE  /\ SetToSeq(S) \in [1 .. Cardinality(S) -> S] /\ Cardinality(S) \in Nat
           /\ \A x \in S : \E k \in 1 .. Cardinality(S) : SetToSeq(S)[k] = x
<1>1. Cardinality(S) \in Nat /\ ExistsBijection(1 .. Cardinality(S), S)
  BY FS_CardinalityType
<1>2. PICK n \in Nat : n = Cardinality(S)
  BY <1>1
<1>3. \E f \in [1 .. n -> S] : IsInjective(f)
  BY <1>1, <1>2 DEF ExistsBijection, Bijection, Injection
<1>4. PICK f : f = SetToSeq(S)
  OBVIOUS
<1>5. f \in Injection(1 .. n, S)
  BY <1>2, <1>3, <1>4 DEF SetToSeq, Injection
<1>6. Cardinality(1 .. n) = n
  BY FS_Interval
<1>7. f \in Surjection(1 .. n, S)
  BY <1>2, <1>5, <1>6, FS_Injection
<1> QED BY <1>2, <1>4, <1>5, <1>7 DEF Injection, Surjection

LEMMA ProgramFacts ==
    ASSUME Types
    PROVE  /\ program \in {"build", "distribute", "capture_manifest", "query", "command"}
           /\ limit \in Nat /\ Limit \in Nat
           /\ items \in Seq([path : Path, target : DOMAIN store]) /\ Coordinator \in DOMAIN store
           /\ program = "build" => \A i \in 1 .. Len(items) :
                items[i].path \in DOMAIN Outputs /\ Outputs[items[i].path] \in Path
<1>1. PICK s \in Scenarios : /\ program = s.program /\ items = s.items /\ limit = s.limit
                             /\ DOMAIN store = DOMAIN s.store
  BY DEF Types, InScenario
<1>2. ScenarioOK(s)
  BY ScenariosOK
<1>3. program \in {"build", "distribute", "capture_manifest", "query", "command"}
  BY <1>1, <1>2 DEF ScenarioOK, Phases
<1>4. limit \in Nat /\ Limit \in Nat
  BY <1>1, <1>2, UnlimitedOK DEF ScenarioOK, Limit
<1> QED BY <1>1, <1>2, <1>3, <1>4 DEF ScenarioOK

LEMMA KindFacts ==
    ASSUME Types
    PROVE  /\ Kind \in {"send", "realise", "fetch", "resolve", "query", "command"}
           /\ Kind = "send" <=> program \in {"build", "distribute"} /\ phase = 0
           /\ Kind = "realise" <=> program = "build" /\ phase = 1
           /\ Kind = "fetch" <=> \/ program = "build" /\ phase = 2
                                 \/ program = "capture_manifest" /\ phase = 1
           /\ Kind = "resolve" <=> program = "capture_manifest" /\ phase = 0
           /\ Kind = "query" <=> program = "query"
           /\ Kind = "command" <=> program = "command"
           /\ Len(Phases[program]) =
                IF program = "build" THEN 3 ELSE IF program = "capture_manifest" THEN 2 ELSE 1
<1>1. program \in {"build", "distribute", "capture_manifest", "query", "command"}
  BY ProgramFacts
<1>2. phase \in {0, 1, 2} /\ phase < Len(Phases[program])
  BY DEF Types
<1>3. CASE program = "build"
  BY <1>2, <1>3 DEF Kind, Phases
<1>4. CASE program = "capture_manifest"
  BY <1>2, <1>4 DEF Kind, Phases
<1>5. CASE program = "distribute"
  BY <1>2, <1>5 DEF Kind, Phases
<1>6. CASE program = "query"
  BY <1>2, <1>6 DEF Kind, Phases
<1>7. CASE program = "command"
  BY <1>2, <1>7 DEF Kind, Phases
<1> QED BY <1>1, <1>3, <1>4, <1>5, <1>6, <1>7

\* The iteration that a program is in is one or the other, until it exits.
LEMMA IterationFacts ==
    ASSUME Types
    PROVE  /\ Ordered => exit = "none" /\ ~Gathers /\ Kind \in {"send", "fetch", "command"}
           /\ Gathers => exit = "none" /\ ~Ordered /\ Kind \in {"realise", "resolve", "query"}
           /\ exit = "none" => Ordered \/ Gathers
<1>1. /\ Ordered <=> exit = "none" /\ Kind \in {"send", "fetch", "command"}
      /\ Gathers <=> exit = "none" /\ Kind \in {"realise", "resolve", "query"}
  BY DEF Ordered, Gathers, At
<1>2. Kind \in {"send", "realise", "fetch", "resolve", "query", "command"}
  BY KindFacts
<1> QED BY <1>1, <1>2

LEMMA ItemFacts ==
    ASSUME Types, NEW i \in Batch
    PROVE  /\ batch[i] \in 1 .. Len(items) /\ Item(i) \in [path : Path, target : DOMAIN store]
           /\ Root(i) \in SUBSET (Path \cup Missing) /\ Destination(i) \in DOMAIN store
<1>1. batch[i] \in 1 .. Len(items)
  <2>1. PICK n : n = Len(items)
    OBVIOUS
  <2>2. batch \in Seq(1 .. n) /\ i \in 1 .. Len(batch)
    BY <2>1 DEF Types, Batch
  <2> QED BY <2>1, <2>2
<1>2. Item(i) \in [path : Path, target : DOMAIN store]
  <2>1. PICK Items : Items = [path : Path, target : DOMAIN store]
    OBVIOUS
  <2>2. items \in Seq(Items)
    BY <2>1, ProgramFacts
  <2>3. Item(i) \in Items
    BY <1>1, <2>2 DEF Item
  <2> QED BY <2>1, <2>3
<1>3. result[batch[i]] \in SUBSET (Path \cup Missing)
  <2>1. result \in [1 .. Len(items) -> SUBSET (Path \cup Missing)]
    BY DEF Types
  <2> QED BY <1>1, <2>1
<1>4. /\ Item(i).path \in Path /\ Item(i).target \in DOMAIN store
      /\ Coordinator \in DOMAIN store
  BY <1>2, ProgramFacts
<1>5. Destination(i) \in DOMAIN store
  BY <1>4 DEF Destination
<1>6. Root(i) \in SUBSET (Path \cup Missing)
  BY <1>3, <1>4 DEF Root
<1> QED BY <1>1, <1>2, <1>5, <1>6

-----------------------------------------------------------------------------
(* Processes and children. *)

LEMMA SameIteration ==
    ASSUME UNCHANGED <<scenarioVars, phase, batch>>
    PROVE  /\ Kind' = Kind /\ Batch' = Batch
           /\ exit' = exit => (Ordered' <=> Ordered) /\ (Gathers' <=> Gathers) /\ Limit' = Limit
BY DEF scenarioVars, Kind, Batch, Ordered, Gathers, At, Limit

LEMMA ChildrenFinite ==
    ASSUME Types
    PROVE  IsFiniteSet(Children) /\ Cardinality(Children) \in Nat /\ Children \subseteq Batch
<1>1. Len(batch) \in Nat
  BY DEF Types
<1>2. IsFiniteSet(Batch)
  BY <1>1, FS_Interval DEF Batch
<1>3. Children \subseteq Batch
  BY DEF Types, Children
<1>4. IsFiniteSet(Children)
  BY <1>2, <1>3, FS_Subset
<1> QED BY <1>3, <1>4, FS_CardinalityType

LEMMA WorkerFacts ==
    ASSUME Types, NEW i \in Batch
    PROVE  /\ worker[i] \in Copying => worker[i] # NoWorker
           /\ worker[i] \in Working => worker[i] # NoWorker
           /\ worker[i].at \in {"query", "print invalid", "export", "import"} =>
                worker[i] \in Copying /\ Kind \in {"send", "fetch"}
           /\ worker[i].at = "work" => worker[i] \in Working /\ Kind \notin {"send", "fetch"}
           /\ Ended(worker[i]) => worker[i] # NoWorker
<1>1. worker[i] = NoWorker \/ worker[i] \in (IF Kind \in {"send", "fetch"} THEN Copying ELSE Working)
  BY DEF Types, Workers
<1>2. \A w \in Copying : w.at \notin {"none", "work"}
  BY DEF Copying
<1>3. \A w \in Working : w.at \in {"work", "ok", "failed"}
  BY DEF Working
<1>4. NoWorker.at = "none"
  BY DEF NoWorker
<1> HIDE DEF Copying, Working, NoWorker
<1> QED BY <1>1, <1>2, <1>3, <1>4 DEF Ended

\* A process takes a step: it stays what it is.
LEMMA GoesFacts ==
    ASSUME Types, NEW i \in Batch, NEW at, NEW paths \in SUBSET (Path \cup Missing), Goes(i, at, paths),
           \/ worker[i] \in Copying /\ at \in {"query", "print invalid", "export", "import", "ok", "failed"}
           \/ worker[i] \in Working /\ at \in {"work", "ok", "failed"}
    PROVE  /\ DOMAIN worker' = DOMAIN worker /\ \A j \in Batch \ {i} : worker'[j] = worker[j]
           /\ worker'[i].at = at /\ worker'[i].paths = paths
           /\ worker[i] \in Copying => worker'[i] \in Copying
                /\ worker'[i].from = worker[i].from /\ worker'[i].to = worker[i].to
           /\ worker[i] \in Working => worker'[i] \in Working
<1>1. worker' = [worker EXCEPT ![i].at = at, ![i].paths = paths]
  BY DEF Goes
<1>2. DOMAIN worker = Batch
  BY DEF Types
<1>3. DOMAIN worker' = DOMAIN worker /\ \A j \in Batch \ {i} : worker'[j] = worker[j]
  BY <1>1, <1>2
<1>4. PICK w : w = [worker[i] EXCEPT !.at = at]
  OBVIOUS
<1>5. worker'[i] = [w EXCEPT !.paths = paths]
  BY <1>1, <1>2, <1>4
<1>6. /\ \A v \in Copying : "from" \in DOMAIN v
      /\ \A v \in Working : "from" \notin DOMAIN v
  BY DEF Copying, Working
<1>7. CASE worker[i] \in Copying
  <2>1. worker[i] \notin Working
    BY <1>6, <1>7
  <2>2. w \in [at : {"query", "print invalid", "export", "import", "ok", "failed"},
               from : DOMAIN store, to : DOMAIN store, paths : SUBSET (Path \cup Missing)]
        /\ w.at = at /\ w.from = worker[i].from /\ w.to = worker[i].to
    BY <1>4, <1>7, <2>1 DEF Copying
  <2>3. /\ worker'[i] \in Copying /\ worker'[i].at = at /\ worker'[i].paths = paths
        /\ worker'[i].from = worker[i].from /\ worker'[i].to = worker[i].to
    BY <1>5, <2>2 DEF Copying
  <2> QED BY <1>3, <1>7, <2>1, <2>3
<1>8. CASE worker[i] \in Working
  <2>1. worker[i] \notin Copying
    BY <1>6, <1>8
  <2>2. w \in [at : {"work", "ok", "failed"}, paths : SUBSET (Path \cup Missing)] /\ w.at = at
    BY <1>4, <1>8, <2>1 DEF Working
  <2>3. worker'[i] \in Working /\ worker'[i].at = at /\ worker'[i].paths = paths
    BY <1>5, <2>2 DEF Working
  <2> QED BY <1>3, <1>8, <2>1, <2>3
<1> QED BY <1>7, <1>8

LEMMA FirstStepFacts ==
    ASSUME Types, exit = "none", NEW i \in Batch
    PROVE  /\ FirstStep(i) \in Workers
           /\ FirstStep(i) # NoWorker
           /\ Kind \in {"send", "fetch"} =>
                FirstStep(i).at = "query" /\ FirstStep(i).to = Destination(i) /\ FirstStep(i).paths = Root(i)
           /\ Kind \notin {"send", "fetch"} => FirstStep(i).at = "work"
<1>1. /\ Item(i).path \in Path /\ Item(i).target \in DOMAIN store /\ Coordinator \in DOMAIN store
      /\ result[batch[i]] \in SUBSET (Path \cup Missing)
  <2>1. Item(i) \in [path : Path, target : DOMAIN store] /\ batch[i] \in 1 .. Len(items)
    BY ItemFacts
  <2>2. result \in [1 .. Len(items) -> SUBSET (Path \cup Missing)]
    BY DEF Types
  <2> QED BY <2>1, <2>2, ProgramFacts
<1>2. CASE Kind = "send"
  BY <1>1, <1>2 DEF FirstStep, At, Copy, Copying, Destination, Root, NoWorker, Workers
<1>3. CASE Kind = "fetch"
  BY <1>1, <1>3 DEF FirstStep, At, Copy, Copying, Destination, Root, NoWorker, Workers
<1>4. CASE Kind \notin {"send", "fetch"}
  <2>1. FirstStep(i) = [at |-> "work", paths |-> {}]
    BY <1>4 DEF FirstStep, At
  <2> QED BY <1>4, <2>1 DEF Working, NoWorker, Workers
<1> QED BY <1>2, <1>3, <1>4

LEMMA ItemsCounted ==
    ASSUME Len(batch) \in Nat
    PROVE  IsFiniteSet(Batch) /\ Cardinality(Batch) = Len(batch)
<1>1. PICK n \in Nat : n = Len(batch)
  OBVIOUS
<1>2. IsFiniteSet(1 .. n) /\ Cardinality(1 .. n) = IF 1 > n THEN 0 ELSE n - 1 + 1
  <2>1. 1 \in Int /\ n \in Int
    OBVIOUS
  <2> HIDE <1>1
  <2> QED BY <2>1, FS_Interval
<1>3. Cardinality(1 .. n) = n
  BY <1>2
<1> QED BY <1>1, <1>2, <1>3 DEF Batch

LEMMA NextItem ==
    ASSUME Types
    PROVE  /\ HasNext <=> index < Len(batch)
           /\ HasNext => index + 1 \in Batch /\ index < index + 1
<1>1. /\ completed \in [Batch -> {0, 1}] /\ index \in 0 .. Len(batch) /\ Len(batch) \in Nat
  BY DEF Types
<1>2. completed \in Seq({0, 1}) /\ DOMAIN completed = 1 .. Len(batch)
  BY <1>1 DEF Batch
<1>3. Len(completed) = Len(batch)
  BY <1>1, <1>2
<1> QED BY <1>1, <1>3 DEF HasNext, Batch

\* A process is started for the next item.
LEMMA ChildStarted ==
    ASSUME Types, Counting, HasNext, NEW w, w # NoWorker,
           worker' = [worker EXCEPT ![index + 1] = w], UNCHANGED completed
    PROVE  /\ index + 1 \in Batch \ Children /\ Children' = Children \cup {index + 1}
           /\ worker'[index + 1] = w /\ \A j \in Batch \ {index + 1} : worker'[j] = worker[j]
           /\ Cardinality(Children') = Cardinality(Children) + 1 /\ DOMAIN worker' = Batch
           /\ completed[index + 1] = 0 /\ worker[index + 1] = NoWorker
           /\ Cardinality(Children) + 1 <= Len(batch)
<1>1. /\ DOMAIN worker = Batch /\ completed \in [Batch -> {0, 1}] /\ index \in 0 .. Len(batch)
      /\ Len(batch) \in Nat
  BY DEF Types
<1>3. index + 1 \in Batch /\ index < index + 1
  BY NextItem
<1>4. worker[index + 1] = NoWorker
  BY <1>1, <1>3 DEF Counting
<1>5. completed[index + 1] = 0
  BY <1>1, <1>3, <1>4 DEF Counting, Ended, NoWorker
<1>6. worker'[index + 1] = w /\ \A j \in Batch \ {index + 1} : worker'[j] = worker[j]
  BY <1>1, <1>3
<1>7. DOMAIN worker' = Batch
  BY <1>1
<1>8. Children' = Children \cup {index + 1} /\ index + 1 \notin Children
  BY <1>1, <1>3, <1>4, <1>5, <1>6, <1>7 DEF Children
<1>9. IsFiniteSet(Children)
  BY ChildrenFinite
<1>10. PICK n : n = index + 1
  OBVIOUS
<1>11. Cardinality(Children \cup {n}) = Cardinality(Children) + 1
  BY <1>8, <1>9, <1>10, FS_AddElement
<1>12. Children \cup {n} \in SUBSET Batch
  BY <1>3, <1>10, ChildrenFinite
<1>13. Cardinality(Children \cup {n}) <= Len(batch)
  <2>1. IsFiniteSet(Batch) /\ Cardinality(Batch) = Len(batch)
    BY <1>1, ItemsCounted
  <2> QED BY <1>12, <2>1, FS_Subset
<1> QED BY <1>3, <1>4, <1>5, <1>6, <1>7, <1>8, <1>10, <1>11, <1>13

\* A process is waited for.
LEMMA ChildCompleted ==
    ASSUME Types, Counting, NEW i \in Batch, Zombie(i), NEW ok \in BOOLEAN, Complete(i, ok), UNCHANGED worker
    PROVE  /\ i \in Children /\ Children' = Children \ {i}
           /\ Cardinality(Children') = Cardinality(Children) - 1
           /\ completed' \in [Batch -> {0, 1}]
           /\ \A j \in Batch : completed'[j] = IF j = i THEN 1 ELSE completed[j]
           /\ success' = (success /\ ok)
<1>1. /\ DOMAIN worker = Batch /\ completed \in [Batch -> {0, 1}]
  BY DEF Types
<1>2. completed[i] = 0 /\ worker[i] # NoWorker
  BY <1>1, WorkerFacts DEF Zombie
<1>3. completed' = [completed EXCEPT ![i] = @ + 1] /\ success' = (success /\ ok)
  BY DEF Complete
<1>4. /\ completed' \in [Batch -> {0, 1}]
      /\ \A j \in Batch : completed'[j] = IF j = i THEN 1 ELSE completed[j]
  BY <1>1, <1>2, <1>3
<1>5. i \in Children /\ Children' = Children \ {i}
  BY <1>1, <1>2, <1>4 DEF Children
<1>6. IsFiniteSet(Children)
  BY ChildrenFinite
<1>7. Cardinality(Children \ {i}) = Cardinality(Children) - 1
  BY <1>5, <1>6, FS_RemoveElement
<1> QED BY <1>3, <1>4, <1>5, <1>7

-----------------------------------------------------------------------------
(* Every step preserves the invariant of the processes. *)

LEMMA Framed ==
    ASSUME Types, UNCHANGED <<scenarioVars, phase, batch>>, DOMAIN store' = DOMAIN store
    PROVE  /\ InScenario' /\ Copying' = Copying /\ Workers' = Workers /\ Batch' = Batch /\ Kind' = Kind
           /\ phase' \in 0 .. 2 /\ phase' < Len(Phases[program'])
           /\ batch' \in Seq(1 .. Len(items')) /\ Len(batch') <= Len(items')
BY SameIteration DEF Types, InScenario, Copying, Working, Workers, scenarioVars

LEMMA InitIteration == Init => IterationInv
<1> SUFFICES ASSUME Init PROVE IterationInv
  OBVIOUS
<1>1. PICK s \in Scenarios :
         /\ program = s.program /\ items = s.items /\ limit = s.limit /\ store = s.store
         /\ batch = [i \in 1 .. Len(s.items) |-> i]
         /\ worker = [i \in 1 .. Len(s.items) |-> NoWorker]
         /\ completed = [i \in 1 .. Len(s.items) |-> 0]
         /\ pipe = [i \in 1 .. Len(s.items) |-> 0] /\ got = [i \in 1 .. Len(s.items) |-> 0]
         /\ result = [i \in 1 .. Len(s.items) |-> Missing]
  BY DEF Init
<1>2. /\ index = 0 /\ success = TRUE /\ running = 0 /\ waited = FALSE
      /\ futures = <<>> /\ pos = 0 /\ phase = 0 /\ exit = "none"
  BY DEF Init
<1>3. ScenarioOK(s)
  BY ScenariosOK
<1>4. PICK n \in Nat : n = Len(s.items)
  BY <1>3 DEF ScenarioOK
<1>5. batch \in Seq(1 .. n) /\ Len(batch) = n /\ Len(items) = n
  BY <1>1, <1>4
<1>6. Batch = 1 .. n
  BY <1>5 DEF Batch
<1>7. 0 < Len(Phases[program])
  <2>1. program \in {"build", "distribute", "capture_manifest", "query", "command"}
    BY <1>1, <1>3 DEF ScenarioOK, Phases
  <2> QED BY <2>1 DEF Phases
<1>8. Types
  <2>1. InScenario
    BY <1>1 DEF InScenario
  <2>2. \A i \in Batch : worker[i] = NoWorker
    BY <1>1, <1>4, <1>6
  <2>3. /\ completed \in [Batch -> {0, 1}] /\ pipe \in [Batch -> 0 .. Capacity] /\ got \in [Batch -> Nat]
        /\ result \in [1 .. Len(items) -> SUBSET (Path \cup Missing)] /\ DOMAIN worker = Batch
    BY <1>1, <1>4, <1>5, <1>6, PipesOK
  <2>4. futures \in Seq(Batch)
    BY <1>2
  <2>5. /\ batch \in Seq(1 .. Len(items)) /\ Len(batch) <= Len(items)
        /\ 0 \in 0 .. Len(batch) /\ 0 \in 0 .. Len(batch) + 1
    BY <1>4, <1>5
  <2>6. phase \in 0 .. 2 /\ phase < Len(Phases[program])
    BY <1>2, <1>7
  <2> QED BY <1>2, <2>1, <2>2, <2>3, <2>4, <2>5, <2>6 DEF Types
<1>9. Children = {}
  BY <1>1, <1>4 DEF Children
<1>10. Limit \in Nat
  BY <1>8, ProgramFacts
<1>11. Counting
  BY <1>1, <1>2, <1>4, <1>6, <1>9, <1>10, FS_EmptySet DEF Counting
<1>12. Buffering
  <2>1. \A i \in Batch : worker[i].at # "ok"
    BY <1>1, <1>4, <1>6 DEF NoWorker
  <2>2. Len(futures) = 0
    BY <1>2
  <2> QED BY <1>1, <1>2, <1>4, <1>6, <1>9, <2>1, <2>2 DEF Buffering
<1> QED BY <1>8, <1>11, <1>12 DEF IterationInv

LEMMA SpawnIteration ==
    ASSUME IterationInv, SpawnPid \/ SpawnFuture
    PROVE  IterationInv'
<1>1. /\ exit = "none" /\ HasNext /\ worker' = [worker EXCEPT ![index + 1] = FirstStep(index + 1)]
      /\ index' = index + 1 /\ running' = running + 1
      /\ UNCHANGED <<store, success, completed, waited, pipe, got, pos, scenarioVars, phase, batch, result, exit>>
      /\ Ordered => running < Limit
      /\ UNCHANGED futures \/ (Gathers /\ futures' = Append(futures, index + 1))
      /\ Gathers => futures' = Append(futures, index + 1)
  BY IterationFacts DEF SpawnPid, SpawnFuture, SpawnNextPid, SpawnNextFuture, MaySpawn, HasNext, IterationInv,
     futureVars, Ordered, Gathers, At
<1>2. Types /\ Counting /\ Buffering
  BY DEF IterationInv
<1>3. PICK n : n = index + 1
  OBVIOUS
<1>4. PICK w : w = FirstStep(index + 1)
  OBVIOUS
<1>5. n \in Batch
  BY <1>1, <1>2, <1>3, NextItem
<1>6. w # NoWorker /\ w \in Workers
  BY <1>1, <1>2, <1>3, <1>4, <1>5, FirstStepFacts
<1>7. /\ Children' = Children \cup {n} /\ n \notin Children
      /\ worker'[n] = w /\ \A j \in Batch \ {n} : worker'[j] = worker[j]
      /\ Cardinality(Children') = Cardinality(Children) + 1 /\ DOMAIN worker' = Batch
      /\ completed[n] = 0 /\ worker[n] = NoWorker /\ Cardinality(Children) + 1 <= Len(batch)
  BY <1>1, <1>2, <1>3, <1>4, <1>6, ChildStarted
<1>8. /\ InScenario' /\ Copying' = Copying /\ Workers' = Workers /\ Batch' = Batch /\ Kind' = Kind
      /\ phase' \in 0 .. 2 /\ phase' < Len(Phases[program'])
      /\ batch' \in Seq(1 .. Len(items')) /\ Len(batch') <= Len(items')
      /\ (Ordered' <=> Ordered) /\ (Gathers' <=> Gathers) /\ Limit' = Limit
  BY <1>1, <1>2, Framed, SameIteration
<1>9. index \in Nat /\ index < Len(batch) /\ Len(batch) \in Nat /\ running \in Nat
  BY <1>1, <1>2, NextItem DEF Types
<1>10. futures' \in Seq(Batch)
  <2>1. futures \in Seq(Batch)
    BY <1>2 DEF Types
  <2> QED BY <1>1, <1>3, <1>5, <2>1
<1>11. Types'
  <2>1. \A i \in Batch : worker'[i] = NoWorker \/ worker'[i] \in Workers
    BY <1>2, <1>6, <1>7 DEF Types
  <2>2. index' \in 0 .. Len(batch) /\ running' \in 0 .. Len(batch)
    BY <1>1, <1>2, <1>7, <1>9 DEF Counting
  <2> QED BY <1>1, <1>2, <1>7, <1>8, <1>10, <2>1, <2>2 DEF Types, scenarioVars
<1>12. Counting'
  <2>1. \A i \in Batch : worker'[i] # NoWorker <=> i <= index'
    <3> SUFFICES ASSUME NEW i \in Batch PROVE worker'[i] # NoWorker <=> i <= index'
      OBVIOUS
    <3>1. i \in Nat /\ (i # n => (i <= n <=> i <= index))
      BY <1>3, <1>9 DEF Batch
    <3>2. index' = n /\ n <= n
      BY <1>1, <1>3, <1>9
    <3>3. CASE i = n
      BY <1>6, <1>7, <3>2, <3>3
    <3>4. CASE i # n
      <4>1. worker'[i] = worker[i] /\ (worker[i] # NoWorker <=> i <= index)
        BY <1>2, <1>7, <3>4 DEF Counting
      <4> QED BY <3>1, <3>2, <3>4, <4>1
    <3> QED BY <3>3, <3>4
  <2>2. \A i \in Batch : completed'[i] = 1 => Ended(worker'[i])
    BY <1>1, <1>2, <1>7 DEF Counting
  <2>3. running' = Cardinality(Children')
    BY <1>1, <1>2, <1>7 DEF Counting
  <2>4. Ordered' => running' <= Limit'
    <3>1. Limit \in Nat
      BY <1>2, ProgramFacts
    <3> QED BY <1>1, <1>8, <1>9, <3>1
  <2> QED BY <1>8, <2>1, <2>2, <2>3, <2>4 DEF Counting
<1>13. Buffering'
  <2>1. SUFFICES ASSUME Gathers PROVE Buffering'
    BY <1>8 DEF Buffering
  <2>2. futures' = Append(futures, n) /\ futures \in Seq(Batch) /\ Len(futures) = running
    BY <1>1, <1>2, <1>3, <2>1 DEF Buffering, Types
  <2>3. /\ Len(futures') = running + 1 /\ futures'[running + 1] = n
        /\ \A k \in 1 .. running : futures'[k] = futures[k]
    BY <2>2
  <2>4. \A k \in 1 .. running' : k = running + 1 \/ k \in 1 .. running
    BY <1>1, <1>9
  <2>5. \A j, k \in 1 .. running' : futures'[j] = futures'[k] => j = k
    BY <1>2, <1>7, <2>1, <2>3, <2>4 DEF Buffering
  <2>6. \A k \in 1 .. running' : futures'[k] \in Children'
    BY <1>2, <1>7, <2>1, <2>3, <2>4 DEF Buffering
  <2>7. \A i \in Children' : \E k \in 1 .. running' : futures'[k] = i
    <3>1. running + 1 \in 1 .. running' /\ \A k \in 1 .. running : k \in 1 .. running'
      BY <1>1, <1>9
    <3> QED BY <1>2, <1>7, <2>1, <2>3, <3>1 DEF Buffering
  <2>8. w.at # "ok"
    BY <1>1, <1>2, <1>3, <1>4, <1>5, FirstStepFacts
  <2>9. \A i \in Batch : worker'[i].at = "ok" => got'[i] + pipe'[i] = Output
    BY <1>1, <1>2, <1>7, <2>1, <2>8 DEF Buffering
  <2> QED BY <1>1, <1>2, <1>8, <2>1, <2>3, <2>5, <2>6, <2>7, <2>9 DEF Buffering
<1> QED BY <1>11, <1>12, <1>13 DEF IterationInv

\* Waiting for a process keeps the count, in either kind of iteration.
LEMMA CompletedProcess ==
    ASSUME Types, Counting, NEW i \in Batch, Zombie(i), Complete(i, worker[i].at = "ok"),
           running' = running - 1, waited' \in BOOLEAN,
           UNCHANGED <<worker, index, store, scenarioVars, phase, batch, exit, pipe, got>>,
           pos' \in 0 .. Len(batch) + 1, futures' \in Seq(Batch),
           result' \in [1 .. Len(items) -> SUBSET (Path \cup Missing)]
    PROVE  /\ Types' /\ Counting'
           /\ i \in Children /\ Children' = Children \ {i}
           /\ \A j \in Batch : completed'[j] = IF j = i THEN 1 ELSE completed[j]
           /\ success' = (success /\ worker[i].at = "ok")
<1>1. /\ i \in Children /\ Children' = Children \ {i}
      /\ Cardinality(Children') = Cardinality(Children) - 1
      /\ completed' \in [Batch -> {0, 1}]
      /\ \A j \in Batch : completed'[j] = IF j = i THEN 1 ELSE completed[j]
      /\ success' = (success /\ worker[i].at = "ok")
  BY ChildCompleted
<1>2. /\ InScenario' /\ Copying' = Copying /\ Workers' = Workers /\ Batch' = Batch /\ Kind' = Kind
      /\ phase' \in 0 .. 2 /\ phase' < Len(Phases[program'])
      /\ batch' \in Seq(1 .. Len(items')) /\ Len(batch') <= Len(items')
      /\ (Ordered' <=> Ordered) /\ (Gathers' <=> Gathers) /\ Limit' = Limit
  BY Framed, SameIteration
<1>3. IsFiniteSet(Children) /\ Cardinality(Children) \in Nat
  BY ChildrenFinite
<1>4. Cardinality(Children) # 0
  <2>1. Children # {}
    BY <1>1
  <2> QED BY <1>3, <2>1, FS_EmptySet
<1>5. running' \in 0 .. Len(batch) /\ running' = Cardinality(Children')
  <2>1. running \in 0 .. Len(batch) /\ running = Cardinality(Children) /\ Len(batch) \in Nat
    BY DEF Types, Counting
  <2> QED BY <1>1, <1>3, <1>4, <2>1
<1>6. Types'
  <2>1. success' \in BOOLEAN
    BY <1>1
  <2>2. \A j \in Batch : worker'[j] = NoWorker \/ worker'[j] \in Workers
    BY DEF Types
  <2> QED BY <1>1, <1>2, <1>5, <2>1, <2>2 DEF Types, scenarioVars
<1>7. Counting'
  <2>1. \A j \in Batch : completed'[j] = 1 => Ended(worker'[j])
    BY <1>1 DEF Counting, Zombie
  <2>2. Ordered' => running' <= Limit'
    <3>1. running \in Nat /\ Limit \in Nat
      BY ProgramFacts DEF Types
    <3> QED BY <1>2, <3>1 DEF Counting
  <2>3. \A j \in Batch : worker'[j] # NoWorker <=> j <= index'
    BY DEF Counting
  <2> QED BY <1>2, <1>5, <2>1, <2>2, <2>3 DEF Counting
<1> QED BY <1>1, <1>6, <1>7

LEMMA WaitIteration ==
    ASSUME IterationInv, NEW i \in DOMAIN worker, WaitReaps(i)
    PROVE  IterationInv'
<1>1. Types /\ Counting /\ i \in Batch
  BY DEF IterationInv, Types
<1>2. /\ Zombie(i) /\ Complete(i, worker[i].at = "ok") /\ running' = running - 1 /\ waited' = TRUE
      /\ UNCHANGED <<worker, index, store, scenarioVars, phase, batch, exit, pipe, got, pos, futures, result>>
      /\ Ordered
  BY DEF WaitReaps, WaitForProcess, copyVars, futureVars
<1>3. /\ pos' \in 0 .. Len(batch) + 1 /\ futures' \in Seq(Batch)
      /\ result' \in [1 .. Len(items) -> SUBSET (Path \cup Missing)]
  BY <1>1, <1>2 DEF Types
<1>4. Types' /\ Counting'
  BY <1>1, <1>2, <1>3, CompletedProcess
<1>5. ~Gathers'
  BY <1>1, <1>2, IterationFacts, SameIteration
<1> QED BY <1>4, <1>5 DEF IterationInv, Buffering

LEMMA AnswerFacts ==
    ASSUME Types, NEW i \in Batch, Gathers
    PROVE  Answer(i) = Returned(batch[i]) /\ Answer(i) \in SUBSET Path /\ Answer(i) # Missing
<1>1. batch[i] \in 1 .. Len(items) /\ Item(i) = items[batch[i]] /\ Item(i).path \in Path
  BY ItemFacts DEF Item
<1>2. At("realise") <=> program = "build"
  BY IterationFacts, KindFacts DEF At
<1>3. At("realise") => Outputs[Item(i).path] \in Path
  BY <1>1, <1>2, ProgramFacts
<1>4. Missing \cap Path = {} /\ Missing # {}
  BY ScenariosOK DEF Missing
<1>5. CASE At("realise")
  <2>1. Answer(i) = {Outputs[Item(i).path]} /\ Returned(batch[i]) = {Outputs[Item(i).path]}
    BY <1>1, <1>2, <1>5 DEF Answer, Returned
  <2> QED BY <1>3, <1>4, <1>5, <2>1
<1>6. CASE ~At("realise")
  <2>1. Answer(i) = {Item(i).path} /\ Returned(batch[i]) = {Item(i).path}
    BY <1>1, <1>2, <1>6 DEF Answer, Returned
  <2> QED BY <1>1, <1>4, <2>1
<1> QED BY <1>5, <1>6

\* The last future takes the place of the one that is finished: the others stay.
LEMMA ShorterFacts ==
    ASSUME NEW S, futures \in Seq(S), running = Len(futures), pos \in 1 .. running
    PROVE  /\ \A i : Shorter(i) \in Seq(S) /\ Len(Shorter(i)) = running - 1
           /\ \A i : \A k \in 1 .. running - 1 : Shorter(i)[k] = IF k = pos THEN futures[running] ELSE futures[k]
<1>1. running \in Nat /\ pos \in Nat /\ pos <= running
  OBVIOUS
<1>2. PICK n \in Nat : n = running - 1
  BY <1>1
<1>3. PICK front : front = SubSeq(futures, 1, n)
  OBVIOUS
<1>4. front \in Seq(S) /\ Len(front) = n /\ \A k \in 1 .. n : front[k] = futures[k]
  BY <1>1, <1>2, <1>3
<1>5. futures[running] \in S
  BY <1>1
<1>6. CASE pos = running
  <2>1. \A i : Shorter(i) = front
    BY <1>2, <1>3, <1>6 DEF Shorter
  <2>2. \A k \in 1 .. n : k # pos
    BY <1>1, <1>2, <1>6
  <2> QED BY <1>2, <1>4, <2>1, <2>2
<1>7. CASE pos # running
  <2>1. PICK moved : moved = [front EXCEPT ![pos] = futures[running]]
    OBVIOUS
  <2>2. \A i : Shorter(i) = moved
    BY <1>2, <1>3, <1>7, <2>1 DEF Shorter, LastMoved
  <2>3. /\ moved \in Seq(S) /\ Len(moved) = n
        /\ \A k \in 1 .. n : moved[k] = IF k = pos THEN futures[running] ELSE front[k]
    <3>1. front \in [1 .. n -> S]
      BY <1>4
    <3>2. moved \in [1 .. n -> S]
      BY <1>5, <2>1, <3>1
    <3>3. moved \in Seq(S) /\ Len(moved) = n
      BY <3>2
    <3>4. \A k \in 1 .. n : moved[k] = IF k = pos THEN futures[running] ELSE front[k]
      BY <2>1, <3>1
    <3> QED BY <3>3, <3>4
  <2> QED BY <1>2, <1>4, <2>2, <2>3
<1> QED BY <1>6, <1>7

LEMMA FinishIteration ==
    ASSUME IterationInv, NEW i \in DOMAIN worker, FutureFinished(i)
    PROVE  IterationInv'
<1>1. Types /\ Counting /\ Buffering /\ i \in Batch
  BY DEF IterationInv, Types
<1>2. /\ Zombie(i) /\ Complete(i, worker[i].at = "ok") /\ running' = running - 1 /\ UNCHANGED waited
      /\ UNCHANGED <<worker, index, store, scenarioVars, phase, batch, exit, pipe, got>>
      /\ Gathers /\ pos \in 1 .. running /\ futures[pos] = i /\ pipe[i] = 0
      /\ futures' = Shorter(i) /\ pos' = pos + 1
      /\ result' = IF worker[i].at = "ok" THEN [result EXCEPT ![batch[i]] = Answer(i)] ELSE result
  BY DEF FutureFinished, Finalize, Reads, copyVars
<1>3. /\ futures \in Seq(Batch) /\ running = Len(futures) /\ running \in 0 .. Len(batch) /\ Len(batch) \in Nat
      /\ waited \in BOOLEAN
  BY <1>1, <1>2 DEF Types, Buffering
<1>4. /\ futures' \in Seq(Batch) /\ Len(futures') = running'
      /\ \A k \in 1 .. running' : futures'[k] = IF k = pos THEN futures[running] ELSE futures[k]
  BY <1>2, <1>3, ShorterFacts
<1>5. result' \in [1 .. Len(items) -> SUBSET (Path \cup Missing)]
  <2>1. result \in [1 .. Len(items) -> SUBSET (Path \cup Missing)] /\ batch[i] \in 1 .. Len(items)
    BY <1>1, ItemFacts DEF Types
  <2>2. Answer(i) \in SUBSET (Path \cup Missing)
    BY <1>1, <1>2, AnswerFacts
  <2> QED BY <1>2, <2>1, <2>2
<1>6. /\ Types' /\ Counting'
      /\ i \in Children /\ Children' = Children \ {i}
      /\ \A j \in Batch : completed'[j] = IF j = i THEN 1 ELSE completed[j]
  <2>1. pos' \in 0 .. Len(batch) + 1
    BY <1>2, <1>3
  <2> QED BY <1>1, <1>2, <1>3, <1>4, <1>5, <2>1, CompletedProcess
<1>7. Buffering'
  <2>1. \A k \in 1 .. running' : k \in 1 .. running /\ k # running
    BY <1>2, <1>3
  <2>2. running \in 1 .. running
    BY <1>2, <1>3
  <2>3. \A j, k \in 1 .. running : futures[j] = futures[k] => j = k
    BY <1>1, <1>2 DEF Buffering
  <2>4. \A j, k \in 1 .. running' : futures'[j] = futures'[k] => j = k
    BY <1>4, <2>1, <2>2, <2>3
  <2>5. \A k \in 1 .. running' : futures'[k] \in Children'
    <3>1. \A k \in 1 .. running : futures[k] \in Children
      BY <1>1, <1>2 DEF Buffering
    <3> QED BY <1>2, <1>4, <1>6, <2>1, <2>2, <2>3, <3>1
  <2>6. \A j \in Children' : \E k \in 1 .. running' : futures'[k] = j
    <3> SUFFICES ASSUME NEW j \in Children' PROVE \E k \in 1 .. running' : futures'[k] = j
      OBVIOUS
    <3>1. PICK k \in 1 .. running : futures[k] = j
      BY <1>1, <1>2, <1>6 DEF Buffering
    <3>2. k # pos
      BY <1>2, <1>6, <3>1
    <3>3. CASE k = running
      <4>1. pos \in 1 .. running'
        BY <1>2, <1>3, <3>2, <3>3
      <4> QED BY <1>4, <3>1, <3>3, <4>1
    <3>4. CASE k # running
      <4>1. k \in 1 .. running'
        BY <1>2, <1>3, <3>4
      <4> QED BY <1>4, <3>1, <3>2, <4>1
    <3> QED BY <3>3, <3>4
  <2>7. \A j \in Batch : completed'[j] = 1 => pipe'[j] = 0
    BY <1>1, <1>2, <1>6 DEF Buffering
  <2>8. \A j \in Batch : worker'[j].at = "ok" => got'[j] + pipe'[j] = Output
    BY <1>1, <1>2 DEF Buffering
  <2>9. Batch' = Batch
    BY <1>2, SameIteration
  <2> QED BY <1>4, <2>4, <2>5, <2>6, <2>7, <2>8, <2>9 DEF Buffering
<1> QED BY <1>6, <1>7 DEF IterationInv

\* A running process takes a step, or ends.
LEMMA ProcessIteration ==
    ASSUME IterationInv, NEW i \in Batch, worker[i] # NoWorker, ~Ended(worker[i]),
           DOMAIN worker' = DOMAIN worker, \A j \in Batch \ {i} : worker'[j] = worker[j],
           worker'[i] # NoWorker, worker'[i] \in Workers, DOMAIN store' = DOMAIN store,
           UNCHANGED <<iteratorVars, futureVars, scenarioVars, phase, batch, result, exit>>,
           Gathers /\ worker'[i].at = "ok" => got[i] + pipe[i] = Output
    PROVE  IterationInv'
<1>1. Types /\ Counting /\ Buffering
  BY DEF IterationInv
<1>2. /\ InScenario' /\ Copying' = Copying /\ Workers' = Workers /\ Batch' = Batch /\ Kind' = Kind
      /\ phase' \in 0 .. 2 /\ phase' < Len(Phases[program'])
      /\ batch' \in Seq(1 .. Len(items')) /\ Len(batch') <= Len(items')
      /\ (Ordered' <=> Ordered) /\ (Gathers' <=> Gathers) /\ Limit' = Limit
  BY <1>1, Framed, SameIteration
<1>3. UNCHANGED <<index, success, completed, running, waited, futures, pos, pipe, got, items>>
  BY DEF iteratorVars, modelVars, futureVars, scenarioVars
<1>4. Types'
  <2>1. \A j \in Batch : worker'[j] = NoWorker \/ worker'[j] \in Workers
    BY <1>1 DEF Types
  <2> QED BY <1>1, <1>2, <1>3, <2>1 DEF Types
<1>5. Children' = Children
  BY <1>1, <1>3 DEF Children, Types
<1>6. Counting'
  <2>1. completed[i] # 1
    BY <1>1 DEF Counting
  <2> QED BY <1>1, <1>2, <1>3, <1>5, <2>1 DEF Counting
<1>7. Buffering'
  BY <1>1, <1>2, <1>3, <1>5 DEF Buffering
<1> QED BY <1>4, <1>6, <1>7 DEF IterationInv

LEMMA WorkIteration ==
    ASSUME IterationInv, NEW i \in DOMAIN worker, Work(i)
    PROVE  IterationInv'
<1>1. Types /\ i \in Batch
  BY DEF IterationInv, Types
<1>2. /\ worker[i].at = "work" /\ UNCHANGED <<iteratorVars, futureVars, scenarioVars, phase, batch, result, exit>>
      /\ \/ Effect(i) /\ Goes(i, "ok", {}) /\ (Gathers => got[i] + pipe[i] = Output)
         \/ Goes(i, "failed", {}) /\ UNCHANGED store
  BY DEF Work
<1>3. worker[i] \in Working /\ Kind \notin {"send", "fetch"} /\ worker[i] # NoWorker /\ ~Ended(worker[i])
  BY <1>1, <1>2, WorkerFacts DEF Ended
<1>4. DOMAIN store' = DOMAIN store
  BY <1>2 DEF Effect
<1>5. PICK at \in {"ok", "failed"} : Goes(i, at, {}) /\ (Gathers /\ at = "ok" => got[i] + pipe[i] = Output)
  BY <1>2
<1>6. /\ DOMAIN worker' = DOMAIN worker /\ \A j \in Batch \ {i} : worker'[j] = worker[j]
      /\ worker'[i].at = at /\ worker'[i] \in Working
  <2>1. {} \in SUBSET (Path \cup Missing)
    OBVIOUS
  <2> QED BY <1>1, <1>3, <1>5, <2>1, GoesFacts
<1>7. worker'[i] # NoWorker /\ worker'[i] \in Workers
  BY <1>3, <1>5, <1>6 DEF Workers, NoWorker
<1> QED BY <1>1, <1>2, <1>3, <1>4, <1>5, <1>6, <1>7, ProcessIteration

\* What a copying process does, in terms of its record.
LEMMA CopyFacts ==
    ASSUME Types, StoresClean, NEW i \in Batch, CopyStep(i)
    PROVE  /\ worker[i] \in Copying /\ Kind \in {"send", "fetch"} /\ ~Ended(worker[i])
           /\ worker'[i] \in Copying /\ worker'[i].to = worker[i].to
           /\ DOMAIN worker' = DOMAIN worker /\ \A j \in Batch \ {i} : worker'[j] = worker[j]
           /\ DOMAIN store' = DOMAIN store
<1>1. worker[i].at \in {"query", "print invalid", "export", "import"}
  BY DEF CopyStep, QueryRequisites, PrintInvalid, Export, Import, CopyFails
<1>2. worker[i] \in Copying /\ Kind \in {"send", "fetch"} /\ ~Ended(worker[i])
  BY <1>1, WorkerFacts DEF Ended
<1>3. worker[i].paths \in SUBSET (Path \cup Missing) /\ worker[i].to \in DOMAIN store
      /\ worker[i].from \in DOMAIN store
  BY <1>2 DEF Copying
<1>4. DOMAIN store' = DOMAIN store
  BY DEF CopyStep, QueryRequisites, PrintInvalid, Export, Import, CopyFails
<1> HIDE DEF Copying
<1> DEFINE Ats == {"query", "print invalid", "export", "import", "ok", "failed"}
<1>5. \E at \in Ats : \E paths \in SUBSET (Path \cup Missing) : Goes(i, at, paths)
  <2>1. CASE QueryRequisites(i)
    <3>1. worker[i].paths \in SUBSET Path
      BY <2>1, <1>3 DEF QueryRequisites, StoresClean
    <3>2. PICK paths : paths = Closure[worker[i].paths]
      OBVIOUS
    <3>3. paths \in SUBSET (Path \cup Missing)
      BY <3>1, <3>2, ClosureIsLeast
    <3>4. PICK at : at = IF worker[i].paths = {} THEN "ok" ELSE "print invalid"
      OBVIOUS
    <3>5. at \in Ats /\ Goes(i, at, paths)
      BY <2>1, <3>2, <3>4 DEF QueryRequisites
    <3> QED BY <3>3, <3>5
  <2>2. CASE ~QueryRequisites(i)
    <3>1. CASE PrintInvalid(i)
      <4>1. PICK paths : paths = worker[i].paths \ store[worker[i].to]
        OBVIOUS
      <4>2. paths \in SUBSET (Path \cup Missing)
        BY <1>3, <4>1
      <4>3. PICK at : at = IF paths = {} THEN "ok" ELSE "export"
        OBVIOUS
      <4>4. at \in Ats /\ Goes(i, at, paths)
        BY <3>1, <4>1, <4>3 DEF PrintInvalid
      <4> QED BY <4>2, <4>4
    <3>2. CASE ~PrintInvalid(i)
      BY <1>3, <2>2, <3>2 DEF CopyStep, Export, Import, CopyFails
    <3> QED BY <3>1, <3>2
  <2> QED BY <2>1, <2>2
<1>6. PICK at \in Ats, paths \in SUBSET (Path \cup Missing) : Goes(i, at, paths)
  BY <1>5
<1> QED BY <1>2, <1>4, <1>6, GoesFacts

LEMMA CopyIteration ==
    ASSUME IterationInv, StoresClean, NEW i \in DOMAIN worker, Copies(i)
    PROVE  IterationInv'
<1>1. Types /\ i \in Batch
  BY DEF IterationInv, Types
<1>2. CopyStep(i) /\ UNCHANGED <<iteratorVars, futureVars, scenarioVars, phase, batch, result, exit>>
  BY DEF Copies
<1>3. /\ worker[i] \in Copying /\ Kind \in {"send", "fetch"} /\ ~Ended(worker[i])
      /\ worker'[i] \in Copying
      /\ DOMAIN worker' = DOMAIN worker /\ \A j \in Batch \ {i} : worker'[j] = worker[j]
      /\ DOMAIN store' = DOMAIN store
  BY <1>1, <1>2, CopyFacts
<1>4. worker'[i] \in Workers
  BY <1>3 DEF Workers
<1>5. worker[i] # NoWorker /\ worker'[i] # NoWorker
  <2>1. \A w \in Copying : w # NoWorker
    <3>1. \A w \in Copying : w.at # "none"
      BY DEF Copying
    <3>2. NoWorker.at = "none"
      BY DEF NoWorker
    <3> HIDE DEF Copying, NoWorker
    <3> QED BY <3>1, <3>2
  <2> QED BY <1>3, <2>1
<1>6. ~Gathers
  BY <1>1, <1>3, IterationFacts
<1> QED BY <1>1, <1>2, <1>3, <1>4, <1>5, <1>6, ProcessIteration

\* Neither processes nor their output change.
LEMMA IdleIteration ==
    ASSUME IterationInv,
           UNCHANGED <<copyVars, modelVars, running, futureVars, scenarioVars, phase, batch, result>>,
           waited' \in BOOLEAN, exit' \in {"none", "0", "1", "crashed"}, exit' = "none" => exit = "none"
    PROVE  IterationInv'
<1>1. Types /\ Counting /\ Buffering
  BY DEF IterationInv
<1>2. UNCHANGED <<store, worker, index, success, completed, running, futures, pos, pipe, got, items, result>>
  BY DEF modelVars, futureVars, scenarioVars, copyVars
<1>3. /\ InScenario' /\ Copying' = Copying /\ Workers' = Workers /\ Batch' = Batch /\ Kind' = Kind
      /\ phase' \in 0 .. 2 /\ phase' < Len(Phases[program'])
      /\ batch' \in Seq(1 .. Len(items')) /\ Len(batch') <= Len(items')
  BY <1>1, <1>2, Framed
<1>4. Types'
  BY <1>1, <1>2, <1>3 DEF Types
<1>5. /\ exit' = "none" => exit' = exit /\ (Ordered' <=> Ordered) /\ (Gathers' <=> Gathers) /\ Limit' = Limit
      /\ Ordered' \/ Gathers' => exit' = "none"
  <2>1. Ordered' \/ Gathers' => exit' = "none"
    BY <1>4 DEF Ordered, Gathers, At
  <2>2. exit' = "none" => exit' = exit
    BY DEF IterationInv
  <2> QED BY <2>1, <2>2, SameIteration
<1>6. Children' = Children
  BY <1>2 DEF Children
<1>7. Counting'
  BY <1>1, <1>2, <1>3, <1>5, <1>6 DEF Counting
<1>8. Buffering'
  BY <1>1, <1>2, <1>3, <1>5, <1>6 DEF Buffering
<1> QED BY <1>4, <1>7, <1>8 DEF IterationInv

LEMMA QuietIteration ==
    ASSUME IterationInv, ForkFails \/ Exits \/ WaitReapsNothing \/ Spins \/ UNCHANGED vars
    PROVE  IterationInv'
<1>1. waited \in BOOLEAN /\ exit \in {"none", "0", "1", "crashed"}
  BY DEF IterationInv, Types
<1>2. /\ UNCHANGED <<copyVars, modelVars, running, futureVars, scenarioVars, phase, batch, result>>
      /\ waited' \in BOOLEAN /\ exit' \in {"none", "0", "1", "crashed"} /\ (exit' = "none" => exit = "none")
  <2>1. CASE ForkFails
    BY <1>1, <2>1 DEF ForkFails, iteratorVars
  <2>2. CASE Exits
    BY <1>1, <2>2 DEF Exits, iteratorVars
  <2>3. CASE WaitReapsNothing
    BY <1>1, <2>3 DEF WaitReapsNothing, WaitForNothing
  <2>4. CASE Spins \/ UNCHANGED vars
    BY <1>1, <2>4 DEF Spins, vars, iteratorVars
  <2> QED BY <2>1, <2>2, <2>3, <2>4
<1> QED BY <1>2, IdleIteration

\* Output is written and read.
LEMMA OutputIteration ==
    ASSUME IterationInv, NEW i \in Batch,
           UNCHANGED <<copyVars, iteratorVars, futures, scenarioVars, phase, batch, result, exit>>,
           pos' \in 0 .. Len(batch) + 1,
           pipe' \in [Batch -> 0 .. Capacity], got' \in [Batch -> Nat],
           Gathers => \A j \in Batch : /\ completed[j] = 1 => pipe'[j] = 0
                                       /\ worker[j].at = "ok" => got'[j] + pipe'[j] = Output
    PROVE  IterationInv'
<1>1. Types /\ Counting /\ Buffering
  BY DEF IterationInv
<1>2. UNCHANGED <<store, worker, index, success, completed, running, waited, futures, items>>
  BY DEF iteratorVars, modelVars, scenarioVars, copyVars
<1>3. /\ InScenario' /\ Copying' = Copying /\ Workers' = Workers /\ Batch' = Batch /\ Kind' = Kind
      /\ phase' \in 0 .. 2 /\ phase' < Len(Phases[program'])
      /\ batch' \in Seq(1 .. Len(items')) /\ Len(batch') <= Len(items')
      /\ (Ordered' <=> Ordered) /\ (Gathers' <=> Gathers) /\ Limit' = Limit
  BY <1>1, <1>2, Framed, SameIteration
<1>4. Types'
  BY <1>1, <1>2, <1>3 DEF Types
<1>5. Children' = Children
  BY <1>2 DEF Children
<1>6. Counting'
  BY <1>1, <1>2, <1>3, <1>5 DEF Counting
<1>7. Buffering'
  BY <1>1, <1>2, <1>3, <1>5 DEF Buffering
<1> QED BY <1>4, <1>6, <1>7 DEF IterationInv

LEMMA BufferIteration ==
    ASSUME IterationInv, Buffer
    PROVE  IterationInv'
<1>1. Types /\ Counting /\ Buffering /\ Gathers
  BY DEF IterationInv, Buffer
<1>2. UNCHANGED <<copyVars, scenarioVars, phase, batch, result, exit, iteratorVars, futures>>
  BY DEF Buffer, BufferAgain, AppendOutput
<1>3. /\ pipe \in [Batch -> 0 .. Capacity] /\ got \in [Batch -> Nat] /\ running \in 0 .. Len(batch)
      /\ Len(batch) \in Nat /\ Capacity \in Nat /\ DOMAIN worker = Batch
  BY <1>1, PipesOK DEF Types
<1>4. CASE BufferAgain
  <2>1. /\ pos' = 1 /\ running > 0 /\ UNCHANGED <<pipe, got>>
    BY <1>4 DEF BufferAgain
  <2>2. running \in 1 .. running /\ pos' \in 0 .. Len(batch) + 1
    BY <1>3, <2>1
  <2>3. futures[running] \in Batch
    BY <1>1, <2>2, ChildrenFinite DEF Buffering
  <2>4. \A j \in Batch : /\ completed[j] = 1 => pipe'[j] = 0
                         /\ worker[j].at = "ok" => got'[j] + pipe'[j] = Output
    BY <1>1, <2>1 DEF Buffering
  <2> QED BY <1>2, <1>3, <2>1, <2>2, <2>3, <2>4, OutputIteration
<1>5. ASSUME NEW i \in Batch, AppendOutput(i) PROVE IterationInv'
  <2>1. /\ pos \in 1 .. running /\ got' = [got EXCEPT ![i] = @ + pipe[i]] /\ pipe' = [pipe EXCEPT ![i] = 0]
        /\ pos' = pos + 1
    BY <1>5 DEF AppendOutput, Reads
  <2>2. pos' \in 0 .. Len(batch) + 1
    BY <1>3, <2>1
  <2>3. pipe[i] \in Nat /\ got[i] \in Nat
    BY <1>3
  <2>4. pipe' \in [Batch -> 0 .. Capacity] /\ got' \in [Batch -> Nat]
    BY <1>3, <2>1, <2>3
  <2>5. \A j \in Batch : got'[j] + pipe'[j] = got[j] + pipe[j] /\ (pipe[j] = 0 => pipe'[j] = 0)
    BY <1>3, <2>1, <2>3
  <2>6. \A j \in Batch : /\ completed[j] = 1 => pipe'[j] = 0
                         /\ worker[j].at = "ok" => got'[j] + pipe'[j] = Output
    BY <1>1, <2>5 DEF Buffering
  <2> QED BY <1>2, <2>2, <2>4, <2>6, OutputIteration
<1> QED BY <1>3, <1>4, <1>5 DEF Buffer

LEMMA WriteIteration ==
    ASSUME IterationInv, NEW i \in DOMAIN worker, Writes(i)
    PROVE  IterationInv'
<1>1. Types /\ Counting /\ Buffering /\ Gathers /\ i \in Batch
  BY DEF IterationInv, Writes, Types
<1>2. /\ UNCHANGED <<copyVars, scenarioVars, phase, batch, result, exit, iteratorVars, futures, pos, got>>
      /\ worker[i].at = "work" /\ pipe' = [pipe EXCEPT ![i] = @ + 1] /\ pipe[i] < Capacity
  BY DEF Writes, Write
<1>3. /\ pipe \in [Batch -> 0 .. Capacity] /\ got \in [Batch -> Nat] /\ Capacity \in Nat
      /\ pos \in 0 .. Len(batch) + 1
  BY <1>1, PipesOK DEF Types
<1>4. pipe' \in [Batch -> 0 .. Capacity]
  <2>1. pipe[i] + 1 \in 0 .. Capacity
    BY <1>1, <1>2, <1>3
  <2> QED BY <1>2, <1>3, <2>1
<1>5. completed[i] # 1
  BY <1>1, <1>2 DEF Counting, Ended
<1>6. \A j \in Batch : /\ completed[j] = 1 => pipe'[j] = 0
                       /\ worker[j].at = "ok" => got'[j] + pipe'[j] = Output
  <2>1. \A j \in Batch \ {i} : pipe'[j] = pipe[j]
    BY <1>2, <1>3
  <2> QED BY <1>1, <1>2, <1>5, <2>1 DEF Buffering
<1> QED BY <1>1, <1>2, <1>3, <1>4, <1>6, OutputIteration

\* The items of the next iteration: those with a result, or all of them.
LEMMA NextBatchFacts ==
    ASSUME Types
    PROVE  /\ NextBatch \in Seq(1 .. Len(items)) /\ Len(NextBatch) <= Len(items) /\ Len(NextBatch) \in Nat
           /\ ~At("resolve") => NextBatch = [i \in 1 .. Len(items) |-> i]
           /\ At("resolve") => \A i \in 1 .. Len(items) :
                result[i] # Missing <=> \E k \in 1 .. Len(NextBatch) : NextBatch[k] = i
           /\ At("resolve") => Len(NextBatch) = Cardinality({i \in 1 .. Len(items) : result[i] # Missing})
<1>1. PICK Items : items \in Seq(Items)
  BY ProgramFacts
<1>2. PICK n \in Nat : n = Len(items) /\ DOMAIN items = 1 .. n
  BY <1>1
<1>3. CASE At("resolve")
  <2> DEFINE S == {i \in 1 .. n : result[i] # Missing}
  <2>1. IsFiniteSet(1 .. n) /\ Cardinality(1 .. n) = n
    BY FS_Interval
  <2>2. IsFiniteSet(S) /\ Cardinality(S) <= n
    <3>1. S \in SUBSET (1 .. n)
      OBVIOUS
    <3> HIDE DEF S
    <3> QED BY <2>1, <3>1, FS_Subset
  <2>3. NextBatch = SetToSeq(S)
    BY <1>2, <1>3 DEF NextBatch
  <2>4. S \subseteq 1 .. n
    OBVIOUS
  <2>5. PICK m \in Nat : m = Cardinality(S)
    BY <2>2, SetInOrder
  <2>6. /\ NextBatch \in [1 .. m -> S]
        /\ \A x \in S : \E k \in 1 .. m : NextBatch[k] = x
    BY <2>2, <2>3, <2>5, SetInOrder
  <2>7. NextBatch \in [1 .. m -> 1 .. n]
    BY <2>4, <2>6
  <2>8. NextBatch \in Seq(1 .. n) /\ Len(NextBatch) = m
    BY <2>7
  <2>9. \A i \in 1 .. n : result[i] # Missing <=> i \in S
    OBVIOUS
  <2>10. \A k \in 1 .. m : NextBatch[k] \in S
    BY <2>6
  <2>11. Len(NextBatch) = Cardinality({i \in 1 .. Len(items) : result[i] # Missing})
    BY <1>2, <2>5, <2>8
  <2> HIDE DEF S
  <2> QED BY <1>2, <1>3, <2>2, <2>5, <2>6, <2>8, <2>9, <2>10, <2>11
<1>4. CASE ~At("resolve")
  <2>1. NextBatch = [i \in 1 .. n |-> i]
    BY <1>2, <1>4 DEF NextBatch
  <2> QED BY <1>2, <1>4, <2>1
<1> QED BY <1>3, <1>4

LEMMA PhaseIteration ==
    ASSUME IterationInv, PhaseEnds
    PROVE  IterationInv'
<1>1. Types
  BY DEF IterationInv
<1>2. /\ exit = "none" /\ phase + 1 < Len(Phases[program]) /\ phase' = phase + 1
      /\ Begin(NextBatch) /\ UNCHANGED <<store, program, items, limit, result, exit>>
  BY <1>1, IterationFacts DEF PhaseEnds, IterationOver, scenarioVars
<1>3. PICK b : b = NextBatch
  OBVIOUS
<1>4. PICK n \in Nat : n = Len(b)
  BY <1>1, <1>3, NextBatchFacts
<1>5. /\ b \in Seq(1 .. Len(items)) /\ n <= Len(items)
  BY <1>1, <1>3, <1>4, NextBatchFacts
<1>6. /\ batch' = b /\ index' = 0 /\ success' = TRUE /\ running' = 0 /\ waited' = FALSE
      /\ completed' = [i \in 1 .. n |-> 0] /\ futures' = <<>> /\ pos' = 0
      /\ pipe' = [i \in 1 .. n |-> 0] /\ got' = [i \in 1 .. n |-> 0]
      /\ worker' = [i \in 1 .. n |-> NoWorker]
  BY <1>2, <1>3, <1>4 DEF Begin, InitModel, InitFutures
<1>7. Batch' = 1 .. n
  BY <1>4, <1>6 DEF Batch
<1>8. Types'
  <2>1. InScenario'
    BY <1>1, <1>2 DEF Types, InScenario
  <2>2. phase' \in 0 .. 2 /\ phase' < Len(Phases[program'])
    <3>1. PICK m : m = Len(Phases[program])
      OBVIOUS
    <3>2. m \in {1, 2, 3} /\ phase \in 0 .. 2
      BY <1>1, <3>1, KindFacts DEF Types
    <3>3. phase' = phase + 1 /\ phase + 1 < m /\ Len(Phases[program']) = m
      BY <1>2, <3>1
    <3> QED BY <3>2, <3>3
  <2>3. batch' \in Seq(1 .. Len(items')) /\ Len(batch') <= Len(items') /\ Len(batch') = n
    BY <1>2, <1>4, <1>5, <1>6
  <2>4. DOMAIN worker' = Batch' /\ \A i \in Batch' : worker'[i] = NoWorker
    BY <1>6, <1>7
  <2>5. /\ completed' \in [Batch' -> {0, 1}]
        /\ pipe' \in [Batch' -> 0 .. Capacity] /\ got' \in [Batch' -> Nat]
    BY <1>6, <1>7, PipesOK
  <2>6. /\ 0 \in 0 .. n /\ 0 \in 0 .. n + 1 /\ futures' \in Seq(Batch')
    BY <1>4, <1>6
  <2>7. result' \in [1 .. Len(items') -> SUBSET (Path \cup Missing)]
    BY <1>1, <1>2 DEF Types
  <2> QED BY <1>2, <1>6, <2>1, <2>2, <2>3, <2>4, <2>5, <2>6, <2>7 DEF Types
<1>9. Children' = {}
  BY <1>4, <1>6 DEF Children
<1>10. Limit' \in Nat
  <2>1. limit \in Nat /\ limit' = limit
    BY <1>1, <1>2, ProgramFacts
  <2> QED BY <2>1, UnlimitedOK DEF Limit
<1>11. \A i \in Batch' : worker'[i] = NoWorker /\ completed'[i] = 0 /\ i > 0
  BY <1>4, <1>6, <1>7
<1>12. Counting'
  BY <1>6, <1>9, <1>10, <1>11, FS_EmptySet, <1>4, <1>7 DEF Counting
<1>13. Buffering'
  <2>1. NoWorker.at # "ok"
    BY DEF NoWorker
  <2>2. Len(futures') = 0
    BY <1>6
  <2> QED BY <1>6, <1>9, <1>11, <2>1, <2>2 DEF Buffering
<1> QED BY <1>8, <1>12, <1>13 DEF IterationInv

LEMMA NextIteration ==
    ASSUME IterationInv, StoresClean, [Next]_vars
    PROVE  IterationInv'
<1>1. CASE SpawnPid \/ SpawnFuture
  BY <1>1, SpawnIteration
<1>2. CASE ForkFails \/ Exits \/ WaitReapsNothing \/ Spins \/ UNCHANGED vars
  BY <1>2, QuietIteration
<1>3. CASE Buffer
  BY <1>3, BufferIteration
<1>4. CASE \E i \in DOMAIN worker : WaitReaps(i) \/ FutureFinished(i)
  BY <1>4, WaitIteration, FinishIteration
<1>5. CASE PhaseEnds
  BY <1>5, PhaseIteration
<1>6. CASE \E i \in DOMAIN worker : Process(i)
  BY <1>6, WorkIteration, WriteIteration, CopyIteration DEF Process
<1> QED BY <1>1, <1>2, <1>3, <1>4, <1>5, <1>6 DEF Next, Program

\* Once an iteration is over, every item has a process and was completed.
LEMMA AllCompleted ==
    ASSUME IterationInv, ~HasNext, running = 0
    PROVE  \A i \in Batch : worker[i] # NoWorker /\ completed[i] = 1
<1>1. Types /\ Counting
  BY DEF IterationInv
<1>2. index = Len(batch)
  BY <1>1, NextItem DEF Types
<1>3. \A i \in Batch : worker[i] # NoWorker
  BY <1>1, <1>2 DEF Counting, Batch, Types
<1>4. Children = {}
  BY <1>1, ChildrenFinite, FS_EmptySet DEF Counting
<1>5. completed \in [Batch -> {0, 1}] /\ DOMAIN worker = Batch
  BY <1>1 DEF Types
<1> QED BY <1>3, <1>4, <1>5 DEF Children

-----------------------------------------------------------------------------
(* The steps of the data. *)

LEMMA InitData == Init => StoresOK /\ ResultsOK /\ OutcomesOK
<1> SUFFICES ASSUME Init PROVE StoresOK /\ ResultsOK /\ OutcomesOK
  OBVIOUS
<1>1. Types
  BY InitIteration DEF IterationInv
<1>2. PICK s \in Scenarios :
         /\ store = s.store /\ items = s.items
         /\ batch = [i \in 1 .. Len(s.items) |-> i]
         /\ worker = [i \in 1 .. Len(s.items) |-> NoWorker]
         /\ completed = [i \in 1 .. Len(s.items) |-> 0]
         /\ result = [i \in 1 .. Len(s.items) |-> Missing]
  BY DEF Init
<1>3. phase = 0 /\ exit = "none"
  BY DEF Init
<1>4. ScenarioOK(s)
  BY ScenariosOK
<1>5. StoresClean
  BY <1>2, <1>4 DEF ScenarioOK, StoresClean
<1>6. Len(s.items) \in Nat
  BY <1>4 DEF ScenarioOK
<1>7. Len(batch) = Len(s.items)
  BY <1>2, <1>6
<1>8. \A i \in Batch : worker[i] = NoWorker /\ completed[i] = 0
  BY <1>2, <1>7 DEF Batch
<1>9. StoresOK
  BY <1>5, <1>8 DEF StoresOK
<1>10. ResultsOK
  <2>1. \A i \in 1 .. Len(items) : result[i] = Missing
    BY <1>2
  <2>2. Kind # "fetch"
    BY <1>1, <1>3, KindFacts
  <2>3. batch = [i \in 1 .. Len(items) |-> i]
    BY <1>2
  <2>4. \A i \in Batch : completed[i] # 1
    BY <1>8
  <2>5. phase # 1
    BY <1>3
  <2> QED BY <2>1, <2>2, <2>3, <2>4, <2>5 DEF ResultsOK
<1>11. OutcomesOK
  BY <1>3, <1>8 DEF OutcomesOK
<1> QED BY <1>9, <1>10, <1>11

LEMMA SameRoots ==
    ASSUME UNCHANGED <<scenarioVars, phase, batch>>, NEW i
    PROVE  /\ Destination(i)' = Destination(i) /\ Returned(i)' = Returned(i)
           /\ result' = result => Root(i)' = Root(i)
BY SameIteration DEF Destination, Returned, Root, Item, Kind, scenarioVars

\* What the others copy does not spoil what a process copies.
LEMMA CopyKept ==
    ASSUME NEW w, NEW root, NEW A, NEW B, A \subseteq B, Closed(B), Closing(w, A), Bringing(w, root, A)
    PROVE  Closing(w, B) /\ Bringing(w, root, B)
<1>1. ASSUME Closed(A \cup w.paths) PROVE Closed(B \cup w.paths)
  BY <1>1 DEF Closed
<1> QED BY <1>1 DEF Closing, Bringing

LEMMA StoresKept ==
    ASSUME Types, StoresOK, UNCHANGED <<store, worker, scenarioVars, phase, batch>>,
           Kind \in {"send", "fetch"} => UNCHANGED result
    PROVE  StoresOK'
<1>1. Kind' = Kind /\ Batch' = Batch
  BY SameIteration
<1>2. StoresClean'
  BY DEF StoresOK, StoresClean
<1>3. ASSUME Kind \in {"send", "fetch"}, NEW i \in Batch, worker[i] # NoWorker
      PROVE  CopyOK(i, worker[i])'
  <2>1. CopyOK(i, worker[i])
    BY <1>3 DEF StoresOK
  <2>2. Destination(i)' = Destination(i) /\ Root(i)' = Root(i)
    BY <1>3, SameRoots
  <2> QED BY <2>1, <2>2 DEF CopyOK
<1> QED BY <1>1, <1>2, <1>3 DEF StoresOK

LEMMA ResultsKept ==
    ASSUME ResultsOK, UNCHANGED <<scenarioVars, phase, batch, result>>,
           Kind = "realise" => UNCHANGED <<success, completed>>
    PROVE  ResultsOK'
<1>1. Kind' = Kind /\ Batch' = Batch /\ \A i : Returned(i)' = Returned(i)
  BY SameIteration, SameRoots
<1>2. program' = program /\ items' = items
  BY DEF scenarioVars
<1>3. \A i \in 1 .. Len(items) : result[i] \in {Missing, Returned(i)}
  BY DEF ResultsOK
<1>4. (\A i \in 1 .. Len(items) : result[i] \in {Missing, Returned(i)})'
  BY <1>1, <1>2, <1>3
<1> QED BY <1>1, <1>2, <1>4 DEF ResultsOK

LEMMA OutcomesKept ==
    ASSUME OutcomesOK, UNCHANGED <<scenarioVars, phase, batch, success, completed>>,
           exit' = "0" => exit = "0", \A i \in Batch : worker[i].at = "ok" => worker'[i].at = "ok"
    PROVE  OutcomesOK'
BY SameIteration DEF OutcomesOK, scenarioVars

LEMMA IdleData ==
    ASSUME Inv, ForkFails \/ WaitReapsNothing \/ Spins \/ Buffer \/ (\E i \in DOMAIN worker : Writes(i)) \/ UNCHANGED vars
    PROVE  StoresOK' /\ ResultsOK' /\ OutcomesOK'
<1>1. UNCHANGED <<store, worker, scenarioVars, phase, batch, result, success, completed>> /\ (exit' = "0" => exit = "0")
  <2>1. CASE ForkFails
    BY <2>1 DEF ForkFails, copyVars, iteratorVars, modelVars
  <2>2. CASE WaitReapsNothing
    BY <2>2 DEF WaitReapsNothing, WaitForNothing, copyVars, modelVars
  <2>3. CASE Spins \/ UNCHANGED vars
    BY <2>3 DEF Spins, vars, copyVars, iteratorVars, modelVars
  <2>4. CASE Buffer
    BY <2>4 DEF Buffer, BufferAgain, AppendOutput, copyVars, iteratorVars, modelVars
  <2>5. CASE \E i \in DOMAIN worker : Writes(i)
    BY <2>5 DEF Writes, Write, copyVars, iteratorVars, modelVars
  <2> QED BY <2>1, <2>2, <2>3, <2>4, <2>5
<1> QED BY <1>1, StoresKept, ResultsKept, OutcomesKept DEF Inv, IterationInv

LEMMA ExitData ==
    ASSUME Inv, Exits
    PROVE  StoresOK' /\ ResultsOK' /\ OutcomesOK'
<1>1. UNCHANGED <<store, worker, scenarioVars, phase, batch, result, success, completed>>
  BY DEF Exits, copyVars, iteratorVars, modelVars
<1>2. StoresOK' /\ ResultsOK'
  BY <1>1, StoresKept, ResultsKept DEF Inv, IterationInv
<1>3. ASSUME exit' = "0" PROVE phase + 1 = Len(Phases[program]) /\ \A i \in Batch : worker[i].at = "ok"
  <2>1. success /\ ~HasNext /\ running = 0
    BY <1>3 DEF Exits, IterationOver, PidIterationOver, FutureIterationOver
  <2>2. phase + 1 >= Len(Phases[program]) /\ phase \in 0 .. 2 /\ phase < Len(Phases[program])
        /\ Len(Phases[program]) \in {1, 2, 3}
    <3>1. ~(phase + 1 < Len(Phases[program]))
      BY <2>1 DEF Exits, Continues
    <3>2. Types
      BY DEF Inv, IterationInv
    <3>3. PICK m : m = Len(Phases[program])
      OBVIOUS
    <3>4. m \in {1, 2, 3} /\ phase \in 0 .. 2 /\ phase < m
      BY <3>2, <3>3, KindFacts DEF Types
    <3> QED BY <3>1, <3>3, <3>4
  <2>3. \A i \in Batch : completed[i] = 1
    BY <2>1, AllCompleted DEF Inv
  <2>4. \A i \in Batch : worker[i].at = "ok"
    BY <2>1, <2>3 DEF Inv, OutcomesOK
  <2>5. phase + 1 = Len(Phases[program])
    BY <2>2
  <2> QED BY <2>4, <2>5
<1>4. OutcomesOK'
  <2>1. success' => \A i \in Batch' : completed'[i] = 1 => worker'[i].at = "ok"
    BY <1>1, SameIteration DEF Inv, OutcomesOK
  <2>2. exit' = "0" => phase' + 1 = Len(Phases[program'])
    BY <1>1, <1>3 DEF scenarioVars
  <2>3. exit' = "0" => \A i \in Batch' : worker'[i].at = "ok"
    BY <1>1, <1>3, SameIteration
  <2> QED BY <2>1, <2>2, <2>3 DEF OutcomesOK
<1> QED BY <1>2, <1>4

LEMMA WaitData ==
    ASSUME Inv, NEW i \in DOMAIN worker, WaitReaps(i)
    PROVE  StoresOK' /\ ResultsOK' /\ OutcomesOK'
<1>1. Types /\ Counting /\ i \in Batch
  BY DEF Inv, IterationInv, Types
<1>2. /\ Zombie(i) /\ Complete(i, worker[i].at = "ok")
      /\ UNCHANGED <<store, worker, scenarioVars, phase, batch, exit, result>> /\ Ordered
  BY DEF WaitReaps, WaitForProcess, copyVars
<1>3. Kind # "realise" /\ exit = "none"
  BY <1>1, <1>2, IterationFacts
<1>4. StoresOK' /\ ResultsOK'
  BY <1>1, <1>2, <1>3, StoresKept, ResultsKept DEF Inv
<1>5. /\ \A j \in Batch : completed'[j] = IF j = i THEN 1 ELSE completed[j]
      /\ success' = (success /\ worker[i].at = "ok")
  BY <1>1, <1>2, ChildCompleted
<1>6. OutcomesOK'
  BY <1>2, <1>3, <1>5, SameIteration DEF Inv, OutcomesOK
<1> QED BY <1>4, <1>6

LEMMA FinishData ==
    ASSUME Inv, NEW i \in DOMAIN worker, FutureFinished(i)
    PROVE  StoresOK' /\ ResultsOK' /\ OutcomesOK'
<1>1. Types /\ Counting /\ i \in Batch /\ ResultsOK
  BY DEF Inv, IterationInv, Types
<1>2. /\ Zombie(i) /\ Complete(i, worker[i].at = "ok")
      /\ UNCHANGED <<store, worker, scenarioVars, phase, batch, exit>> /\ Gathers
      /\ result' = IF worker[i].at = "ok" THEN [result EXCEPT ![batch[i]] = Answer(i)] ELSE result
  BY DEF FutureFinished, Finalize, copyVars
<1>3. Kind \in {"realise", "resolve", "query"} /\ exit = "none"
  BY <1>1, <1>2, IterationFacts
<1>4. StoresOK'
  BY <1>1, <1>2, <1>3, StoresKept DEF Inv
<1>5. /\ \A j \in Batch : completed'[j] = IF j = i THEN 1 ELSE completed[j]
      /\ success' = (success /\ worker[i].at = "ok")
  BY <1>1, <1>2, ChildCompleted
<1>6. OutcomesOK'
  BY <1>2, <1>3, <1>5, SameIteration DEF Inv, OutcomesOK
<1>7. Kind' = Kind /\ Batch' = Batch /\ program' = program /\ items' = items /\ \A j : Returned(j)' = Returned(j)
  BY <1>2, SameIteration, SameRoots DEF scenarioVars
<1>8. /\ \A j \in 1 .. Len(items) : result'[j] = result[j] \/ (j = batch[i] /\ result'[j] = Answer(i))
      /\ worker[i].at = "ok" => result'[batch[i]] = Answer(i)
  <2>1. result \in [1 .. Len(items) -> SUBSET (Path \cup Missing)] /\ batch[i] \in 1 .. Len(items)
    BY <1>1, ItemFacts DEF Types
  <2> QED BY <1>2, <2>1
<1>9. Answer(i) = Returned(batch[i]) /\ Answer(i) # Missing
  BY <1>1, <1>2, AnswerFacts
<1>10. ResultsOK'
  <2>1. \A j \in 1 .. Len(items) : result'[j] \in {Missing, Returned(j)}
    BY <1>1, <1>8, <1>9 DEF ResultsOK
  <2>2. (\A j \in 1 .. Len(items) : result[j] \in {Missing, Returned(j)})'
    BY <1>7, <2>1
  <2>3. \A j \in Batch : batch[j] \in 1 .. Len(items)
    BY <1>1, ItemFacts
  <2>4. Kind = "realise" /\ success' => \A j \in Batch : completed'[j] = 1 => result'[batch[j]] # Missing
    BY <1>1, <1>5, <1>8, <1>9, <2>3 DEF ResultsOK
  <2>5. ~(program = "capture_manifest" /\ phase = 1)
    BY <1>1, <1>3, KindFacts
  <2> QED BY <1>1, <1>2, <1>3, <1>7, <2>2, <2>4, <2>5 DEF ResultsOK
<1> QED BY <1>4, <1>6, <1>10

LEMMA SpawnData ==
    ASSUME Inv, SpawnPid \/ SpawnFuture
    PROVE  StoresOK' /\ ResultsOK' /\ OutcomesOK'
<1>1. /\ exit = "none" /\ HasNext /\ worker' = [worker EXCEPT ![index + 1] = FirstStep(index + 1)]
      /\ UNCHANGED <<store, success, completed, scenarioVars, phase, batch, result, exit>>
  BY IterationFacts DEF SpawnPid, SpawnFuture, SpawnNextPid, SpawnNextFuture, MaySpawn, Inv, IterationInv
<1>2. Types /\ Counting
  BY DEF Inv, IterationInv
<1>3. PICK n : n = index + 1
  OBVIOUS
<1>4. PICK w : w = FirstStep(n)
  OBVIOUS
<1>5. n \in Batch
  BY <1>1, <1>2, <1>3, NextItem
<1>6. /\ w # NoWorker
      /\ Kind \in {"send", "fetch"} => w.at = "query" /\ w.to = Destination(n) /\ w.paths = Root(n)
      /\ Kind \notin {"send", "fetch"} => w.at = "work"
  BY <1>1, <1>2, <1>4, <1>5, FirstStepFacts
<1>7. /\ worker'[n] = w /\ \A j \in Batch \ {n} : worker'[j] = worker[j]
      /\ worker[n] = NoWorker
  BY <1>1, <1>2, <1>3, <1>4, <1>6, ChildStarted
<1>8. ResultsOK'
  BY <1>1, ResultsKept DEF Inv
<1>9. OutcomesOK'
  <2>1. \A i \in Batch : worker[i].at = "ok" => worker'[i].at = "ok"
    BY <1>7 DEF NoWorker
  <2> QED BY <1>1, <2>1, OutcomesKept DEF Inv
<1>10. StoresOK'
  <2>1. Kind' = Kind /\ Batch' = Batch /\ StoresClean'
    BY <1>1, SameIteration DEF Inv, StoresOK, StoresClean
  <2>2. ASSUME Kind \in {"send", "fetch"}, NEW i \in Batch, worker'[i] # NoWorker
        PROVE  CopyOK(i, worker[i])'
    <3>1. Destination(i)' = Destination(i) /\ Root(i)' = Root(i)
      BY <1>1, SameRoots
    <3>2. CASE i = n
      <4>1. w.at = "query" /\ w.to = Destination(i) /\ w.paths = Root(i)
        BY <1>6, <2>2, <3>2
      <4> QED BY <1>7, <3>1, <3>2, <4>1 DEF CopyOK, Closing, Bringing
    <3>3. CASE i # n
      <4>1. worker'[i] = worker[i]
        BY <1>7, <3>3
      <4>2. CopyOK(i, worker[i])
        BY <2>2, <4>1 DEF Inv, StoresOK
      <4> QED BY <1>1, <3>1, <4>1, <4>2 DEF CopyOK
    <3> QED BY <3>2, <3>3
  <2> QED BY <2>1, <2>2 DEF StoresOK
<1> QED BY <1>8, <1>9, <1>10

\* Realising a derivation adds the closure of what it builds.
LEMMA WorkData ==
    ASSUME Inv, NEW i \in DOMAIN worker, Work(i)
    PROVE  StoresOK' /\ ResultsOK' /\ OutcomesOK'
<1>1. Types /\ i \in Batch /\ Counting
  BY DEF Inv, IterationInv, Types
<1>2. /\ worker[i].at = "work"
      /\ UNCHANGED <<success, completed, scenarioVars, phase, batch, result, exit>>
      /\ (Effect(i) /\ Goes(i, "ok", {})) \/ (Goes(i, "failed", {}) /\ UNCHANGED store)
  BY DEF Work, iteratorVars, modelVars
<1>3. Kind \notin {"send", "fetch"} /\ worker[i] \in Working
  BY <1>1, <1>2, WorkerFacts
<1>4. \A j \in Batch \ {i} : worker'[j] = worker[j]
  <2>1. {} \in SUBSET (Path \cup Missing)
    OBVIOUS
  <2> QED BY <1>1, <1>2, <1>3, <2>1, GoesFacts
<1>5. ResultsOK' /\ OutcomesOK'
  <2>1. \A j \in Batch : worker[j].at = "ok" => worker'[j].at = "ok"
    BY <1>2, <1>4
  <2> QED BY <1>2, <2>1, ResultsKept, OutcomesKept DEF Inv
<1>6. StoresClean'
  <2>1. StoresClean
    BY DEF Inv, StoresOK
  <2>2. CASE UNCHANGED store
    BY <2>1, <2>2 DEF StoresClean
  <2>3. CASE Effect(i) /\ Kind = "realise"
    <3>1. PICK p : p = Outputs[Item(i).path]
      OBVIOUS
    <3>2. p \in Path
      <4>1. program = "build"
        BY <1>1, <2>3, KindFacts
      <4> QED BY <1>1, <3>1, <4>1, ItemFacts, ProgramFacts DEF Item
    <3>3. PICK C : C = Closure[{p}]
      OBVIOUS
    <3>4. C \subseteq Path /\ Closed(C)
      BY <3>2, <3>3, ClosureIsLeast
    <3>5. store' = [store EXCEPT ![Item(i).target] = @ \cup C]
      BY <2>3, <3>1, <3>3 DEF Effect
    <3>6. \A q \in DOMAIN store : store'[q] = store[q] \/ store'[q] = store[q] \cup C
      BY <3>5
    <3>7. DOMAIN store' = DOMAIN store
      BY <3>5
    <3>8. \A P : Closed(P) => Closed(P \cup C)
      BY <3>4 DEF Closed
    <3> QED BY <2>1, <3>4, <3>6, <3>7, <3>8 DEF StoresClean
  <2> QED BY <1>2, <2>2, <2>3 DEF Effect
<1> QED BY <1>2, <1>3, <1>5, <1>6, SameIteration DEF StoresOK

\* What a step of a copying process does to its own copy and to the stores.
LEMMA CopyStepFacts ==
    ASSUME Types, StoresClean, NEW i \in Batch, CopyOK(i, worker[i]), CopyStep(i)
    PROVE  LET to == Destination(i)
           IN  /\ Closing(worker'[i], store'[to]) /\ Bringing(worker'[i], Root(i), store'[to])
               /\ DOMAIN store' = DOMAIN store
               /\ \A p \in DOMAIN store : /\ store[p] \subseteq store'[p] /\ store'[p] \subseteq Path
                                          /\ Closed(store'[p])
<1>1. PICK to : to = Destination(i)
  OBVIOUS
<1>2. PICK root : root = Root(i)
  OBVIOUS
<1>3. PICK w : w = worker[i]
  OBVIOUS
<1>4. /\ w \in Copying /\ w.to = to /\ Closing(w, store[to]) /\ Bringing(w, root, store[to])
      /\ to \in DOMAIN store /\ w.from \in DOMAIN store
  <2>1. w \in Copying
    BY <1>3, CopyFacts
  <2> QED BY <1>1, <1>2, <1>3, <2>1 DEF CopyOK, Copying
<1>5. \A p \in DOMAIN store : store[p] \subseteq Path /\ Closed(store[p])
  BY DEF StoresClean
<1>6. \A at : \A paths : Goes(i, at, paths) => worker'[i].at = at /\ worker'[i].paths = paths
  <2>1. DOMAIN worker = Batch
    BY DEF Types
  <2> SUFFICES ASSUME NEW at, NEW paths, Goes(i, at, paths)
               PROVE  worker'[i].at = at /\ worker'[i].paths = paths
    OBVIOUS
  <2>2. PICK v : v = [w EXCEPT !.at = at]
    OBVIOUS
  <2>3. worker'[i] = [v EXCEPT !.paths = paths]
    BY <1>3, <2>1, <2>2 DEF Goes
  <2>4. "at" \in DOMAIN v /\ "paths" \in DOMAIN v /\ v.at = at
    BY <1>4, <2>2 DEF Copying
  <2> QED BY <2>3, <2>4
<1>7. CASE UNCHANGED store
  <2>1. Closing(worker'[i], store[to]) /\ Bringing(worker'[i], root, store[to])
    <3>1. CASE QueryRequisites(i)
      <4>1. w.at = "query" /\ w.paths = root /\ root \in SUBSET Path
        BY <1>3, <1>4, <1>5, <3>1 DEF QueryRequisites, Bringing
      <4>2. PICK C : C = Closure[root]
        OBVIOUS
      <4>3. C \subseteq Path /\ Closed(C) /\ (root = {} => C = {})
        BY <4>1, <4>2, ClosureIsLeast, ClosureOfNothing
      <4>4. worker'[i].at = (IF root = {} THEN "ok" ELSE "print invalid") /\ worker'[i].paths = C
        BY <1>3, <1>6, <3>1, <4>1, <4>2 DEF QueryRequisites
      <4> QED BY <4>2, <4>3, <4>4 DEF Closing, Bringing
    <3>2. CASE PrintInvalid(i)
      <4>1. PICK C : C = Closure[root]
        OBVIOUS
      <4>2. w.at = "print invalid" /\ w.paths = C /\ C \subseteq Path /\ Closed(C)
        BY <1>3, <1>4, <3>2, <4>1 DEF PrintInvalid, Bringing, Closing
      <4>3. PICK invalid : invalid = C \ store[to]
        OBVIOUS
      <4>4. worker'[i].at = (IF invalid = {} THEN "ok" ELSE "export") /\ worker'[i].paths = invalid
        BY <1>3, <1>4, <1>6, <3>2, <4>2, <4>3 DEF PrintInvalid
      <4>5. C \subseteq store[to] \cup invalid /\ invalid \subseteq Path /\ (invalid = {} => C \subseteq store[to])
        BY <4>2, <4>3
      <4>6. Closed(store[to] \cup invalid)
        BY <1>4, <1>5, <4>2, <4>3 DEF Closed
      <4> QED BY <4>1, <4>4, <4>5, <4>6 DEF Closing, Bringing
    <3>3. CASE Export(i)
      <4>1. w.at = "export" /\ worker'[i].at = "import" /\ worker'[i].paths = w.paths
        BY <1>3, <1>6, <3>3 DEF Export
      <4> QED BY <1>4, <4>1 DEF Closing, Bringing
    <3>4. CASE Import(i)
      <4>1. w.at = "import" /\ worker'[i].at = "ok" /\ store' = [store EXCEPT ![to] = @ \cup w.paths]
        BY <1>3, <1>4, <1>6, <3>4 DEF Import
      <4>2. store[to] = store[to] \cup w.paths
        BY <1>4, <1>7, <4>1
      <4> QED BY <1>4, <4>1, <4>2 DEF Closing, Bringing
    <3>5. CASE CopyFails(i)
      <4>1. worker'[i].at = "failed"
        BY <1>6, <3>5 DEF CopyFails
      <4> QED BY <4>1 DEF Closing, Bringing
    <3> QED BY <3>1, <3>2, <3>3, <3>4, <3>5 DEF CopyStep
  <2> QED BY <1>1, <1>2, <1>5, <1>7, <2>1
<1>8. CASE ~UNCHANGED store
  <2>1. PICK some : /\ some \subseteq w.paths /\ w.at = "import" /\ Closed(store[to] \cup some)
                    /\ store' = [store EXCEPT ![to] = @ \cup some]
                    /\ worker'[i].at \in {"ok", "failed"} /\ (worker'[i].at = "ok" => some = w.paths)
    <3>1. CASE Import(i)
      BY <1>3, <1>4, <1>6, <3>1 DEF Import, Closing
    <3>2. CASE CopyFails(i)
      BY <1>3, <1>4, <1>6, <1>8, <3>2 DEF CopyFails
    <3> QED BY <1>8, <3>1, <3>2 DEF CopyStep, QueryRequisites, PrintInvalid, Export
  <2>2. /\ DOMAIN store' = DOMAIN store /\ store'[to] = store[to] \cup some
        /\ \A p \in DOMAIN store \ {to} : store'[p] = store[p]
    BY <1>4, <2>1
  <2>3. some \subseteq Path
    BY <1>4, <2>1 DEF Closing
  <2>4. worker'[i].at = "ok" => Closure[root] \subseteq store'[to]
    BY <1>4, <2>1, <2>2 DEF Bringing
  <2>5. Closing(worker'[i], store'[to]) /\ Bringing(worker'[i], root, store'[to])
    BY <2>1, <2>4 DEF Closing, Bringing
  <2> QED BY <1>1, <1>2, <1>4, <1>5, <2>1, <2>2, <2>3, <2>5
<1> QED BY <1>7, <1>8

LEMMA CopyData ==
    ASSUME Inv, NEW i \in DOMAIN worker, Copies(i)
    PROVE  StoresOK' /\ ResultsOK' /\ OutcomesOK'
<1>1. Types /\ i \in Batch /\ StoresClean
  BY DEF Inv, IterationInv, Types, StoresOK
<1>2. CopyStep(i) /\ UNCHANGED <<success, completed, scenarioVars, phase, batch, result, exit>>
  BY DEF Copies, iteratorVars, modelVars
<1>3. /\ worker[i] \in Copying /\ Kind \in {"send", "fetch"} /\ ~Ended(worker[i])
      /\ worker'[i].to = worker[i].to
      /\ \A j \in Batch \ {i} : worker'[j] = worker[j]
  BY <1>1, <1>2, CopyFacts
<1>4. ResultsOK' /\ OutcomesOK'
  <2>1. \A j \in Batch : worker[j].at = "ok" => worker'[j].at = "ok"
    BY <1>3 DEF Ended
  <2> QED BY <1>2, <2>1, ResultsKept, OutcomesKept DEF Inv
<1>5. CopyOK(i, worker[i])
  BY <1>1, <1>3, WorkerFacts DEF Inv, StoresOK
<1>6. /\ Closing(worker'[i], store'[Destination(i)]) /\ Bringing(worker'[i], Root(i), store'[Destination(i)])
      /\ DOMAIN store' = DOMAIN store
      /\ \A p \in DOMAIN store : store[p] \subseteq store'[p] /\ store'[p] \subseteq Path /\ Closed(store'[p])
  BY <1>1, <1>2, <1>5, CopyStepFacts
<1>7. StoresClean'
  BY <1>6 DEF StoresClean
<1>8. ASSUME NEW j \in Batch, worker'[j] # NoWorker
      PROVE  CopyOK(j, worker[j])'
  <2>1. Destination(j)' = Destination(j) /\ Root(j)' = Root(j) /\ Destination(j) \in DOMAIN store
    BY <1>1, <1>2, SameRoots, ItemFacts
  <2>2. CASE j = i
    <3>1. worker'[j].to = Destination(j)
      BY <1>3, <1>5, <2>2 DEF CopyOK
    <3> QED BY <1>6, <2>1, <2>2, <3>1 DEF CopyOK
  <2>3. CASE j # i
    <3>1. PICK w : w = worker[j]
      OBVIOUS
    <3>2. worker'[j] = w
      BY <1>3, <2>3, <3>1
    <3>3. CopyOK(j, w)
      BY <1>3, <1>8, <3>1, <3>2 DEF Inv, StoresOK
    <3>4. PICK A : A = store[Destination(j)]
      OBVIOUS
    <3>5. PICK B : B = store'[Destination(j)]
      OBVIOUS
    <3>6. A \subseteq B /\ Closed(B)
      BY <1>6, <2>1, <3>4, <3>5
    <3>7. Closing(w, B) /\ Bringing(w, Root(j), B)
      BY <3>3, <3>4, <3>6, CopyKept DEF CopyOK
    <3> QED BY <2>1, <3>2, <3>3, <3>5, <3>7 DEF CopyOK
  <2> QED BY <2>2, <2>3
<1>9. Kind' = Kind /\ Batch' = Batch
  BY <1>2, SameIteration
<1> QED BY <1>4, <1>7, <1>8, <1>9 DEF StoresOK

\* Build results are fetched when all were built, profiles from those that
\* returned one.
LEMMA PhaseData ==
    ASSUME Inv, PhaseEnds
    PROVE  StoresOK' /\ ResultsOK' /\ OutcomesOK'
<1>1. Types /\ IterationInv /\ ResultsOK
  BY DEF Inv, IterationInv
<1>2. /\ exit = "none" /\ phase + 1 < Len(Phases[program]) /\ phase' = phase + 1 /\ ~HasNext /\ running = 0
      /\ success \/ At("resolve")
      /\ Begin(NextBatch) /\ UNCHANGED <<store, program, items, limit, result, exit>>
  BY <1>1, IterationFacts
     DEF PhaseEnds, IterationOver, PidIterationOver, FutureIterationOver, Continues, scenarioVars
<1>3. PICK b : b = NextBatch
  OBVIOUS
<1>4. /\ Len(b) \in Nat /\ batch' = b
      /\ completed' = [i \in 1 .. Len(b) |-> 0] /\ worker' = [i \in 1 .. Len(b) |-> NoWorker]
  BY <1>1, <1>2, <1>3, NextBatchFacts DEF Begin, InitModel
<1>5. Types'
  BY <1>1, PhaseIteration DEF Inv, IterationInv
<1>6. Batch' = 1 .. Len(b)
  BY <1>4 DEF Batch
<1>7. \A i \in Batch' : worker'[i] = NoWorker /\ completed'[i] = 0
  BY <1>4, <1>6
<1>8. StoresOK'
  BY <1>2, <1>7 DEF Inv, StoresOK, StoresClean
<1>9. OutcomesOK'
  <2>1. \A i \in Batch' : completed'[i] # 1
    BY <1>7
  <2> QED BY <1>2, <2>1 DEF OutcomesOK
<1>10. \/ program = "build" /\ phase = 0 /\ phase' = 1 /\ ~At("resolve")
       \/ program = "build" /\ phase = 1 /\ phase' = 2 /\ ~At("resolve") /\ Kind = "realise"
       \/ program = "capture_manifest" /\ phase = 0 /\ phase' = 1 /\ At("resolve")
  BY <1>1, <1>2, KindFacts, ProgramFacts DEF At, Types
<1>11. \A i \in 1 .. Len(items) : result'[i] \in {Missing, Returned(i)}
  BY <1>1, <1>2 DEF ResultsOK
<1>12. (\A i \in 1 .. Len(items) : result[i] \in {Missing, Returned(i)})'
  <2>1. \A i : Returned(i)' = Returned(i)
    BY <1>2 DEF Returned
  <2> QED BY <1>2, <1>11, <2>1
<1>13. ResultsOK'
  <2>1. CASE program = "build"
    <3>1. batch' = [i \in 1 .. Len(items) |-> i] /\ program' = "build" /\ phase # 0 => Kind = "realise"
      BY <1>1, <1>2, <1>3, <1>4, <1>10, <2>1, NextBatchFacts
    <3>2. batch' = [i \in 1 .. Len(items') |-> i] /\ program' # "capture_manifest"
      BY <1>1, <1>2, <1>3, <1>4, <1>10, <2>1, NextBatchFacts
    <3>3. \A i \in Batch' : completed'[i] # 1
      BY <1>7
    <3>4. phase' = 2 => \A i \in Batch' : result'[batch'[i]] # Missing
      <4> SUFFICES ASSUME phase' = 2, NEW i \in Batch' PROVE result'[batch'[i]] # Missing
        OBVIOUS
      <4>1. Kind = "realise" /\ success
        BY <1>2, <1>10, <2>1
      <4>2. batch = [j \in 1 .. Len(items) |-> j]
        BY <1>1, <2>1 DEF ResultsOK
      <4>3. batch' = batch /\ Batch' = Batch
        BY <1>2, <3>2, <4>2 DEF Batch
      <4>4. completed[i] = 1
        BY <1>1, <1>2, <4>3, AllCompleted
      <4> QED BY <1>1, <1>2, <4>1, <4>3, <4>4 DEF ResultsOK
    <3>5. Kind' = "fetch" => phase' = 2
      <4>1. program' = "build" /\ phase' \in {1, 2}
        BY <1>2, <1>10, <2>1
      <4>2. Phases["build"][2] = "realise"
        BY DEF Phases
      <4>3. phase' = 1 => Kind' = Phases["build"][2]
        BY <4>1 DEF Kind
      <4> QED BY <4>1, <4>2, <4>3
    <3> QED BY <1>12, <3>2, <3>3, <3>4, <3>5 DEF ResultsOK
  <2>2. CASE program # "build"
    <3>1. program' = "capture_manifest" /\ phase' = 1 /\ At("resolve")
      BY <1>2, <1>10, <2>2
    <3>2. \A i \in 1 .. Len(items) : result[i] # Missing <=> \E k \in 1 .. Len(b) : b[k] = i
      BY <1>1, <1>3, <3>1, NextBatchFacts
    <3>3. \A i \in 1 .. Len(items') : result'[i] # Missing <=> \E k \in Batch' : batch'[k] = i
      BY <1>2, <1>4, <1>6, <3>2
    <3>4. \A i \in Batch' : result'[batch'[i]] # Missing
      <4>1. \A i \in Batch' : batch'[i] \in 1 .. Len(items')
        BY <1>5, <1>6, <1>4 DEF Types
      <4> QED BY <3>3, <4>1
    <3>5. \A i \in Batch' : completed'[i] # 1
      BY <1>7
    <3> QED BY <1>12, <3>1, <3>3, <3>4, <3>5 DEF ResultsOK
  <2> QED BY <2>1, <2>2
<1> QED BY <1>8, <1>9, <1>13

-----------------------------------------------------------------------------
(* The invariant, and what follows from it. *)

LEMMA NextInv == Inv /\ [Next]_vars => Inv'
<1> SUFFICES ASSUME Inv, [Next]_vars PROVE Inv'
  OBVIOUS
<1>1. IterationInv'
  BY NextIteration DEF Inv, StoresOK
<1>2. CASE SpawnPid \/ SpawnFuture
  BY <1>1, <1>2, SpawnData DEF Inv
<1>3. CASE ForkFails \/ WaitReapsNothing \/ Spins \/ Buffer \/ (\E i \in DOMAIN worker : Writes(i)) \/ UNCHANGED vars
  BY <1>1, <1>3, IdleData DEF Inv
<1>4. CASE \E i \in DOMAIN worker : WaitReaps(i) \/ FutureFinished(i)
  BY <1>1, <1>4, WaitData, FinishData DEF Inv
<1>5. CASE PhaseEnds \/ Exits
  BY <1>1, <1>5, PhaseData, ExitData DEF Inv
<1>6. CASE \E i \in DOMAIN worker : Work(i) \/ Copies(i)
  BY <1>1, <1>6, WorkData, CopyData DEF Inv
<1> QED BY <1>2, <1>3, <1>4, <1>5, <1>6 DEF Next, Program, Process

\* Whatever a program does to its items, its processes are those the iterator
\* counts and its stores hold what the processes that copy are at.
THEOREM Invariance == Spec => []Inv
<1>1. Init => Inv
  BY InitIteration, InitData DEF Inv
<1>2. Inv /\ [Next]_vars => Inv'
  BY NextInv
<1> QED BY <1>1, <1>2, PTL DEF Spec

\* The state has its type: the iterators' indices, the futures and the pipes
\* stay within the items of the iteration.
THEOREM TypeCorrect == Spec => []TypeOK
<1>1. Inv => TypeOK
  <2> SUFFICES ASSUME Inv PROVE TypeOK
    OBVIOUS
  <2>1. Types /\ StoresClean
    BY DEF Inv, IterationInv, StoresOK
  <2>2. program \in DOMAIN Phases /\ limit \in Nat
    BY <2>1, ProgramFacts DEF Phases
  <2>3. {DOMAIN worker, DOMAIN completed, DOMAIN pipe, DOMAIN got} = {1 .. Len(batch)}
    BY <2>1 DEF Types, Batch
  <2>4. \A i \in DOMAIN pipe : pipe[i] \in 0 .. Capacity
    BY <2>1 DEF Types
  <2> QED BY <2>1, <2>2, <2>3, <2>4 DEF TypeOK, Types, StoresClean, Batch
<1> QED BY <1>1, Invariance, PTL

\* running_processes is the number of child processes nobody waited for, and
\* where transfers are limited it never exceeds the limit.
THEOREM LimitIsKept == Spec => [](running = Cardinality(Children) /\ (Ordered => running <= Limit))
<1>1. Inv => running = Cardinality(Children) /\ (Ordered => running <= Limit)
  BY DEF Inv, IterationInv, Counting
<1> QED BY <1>1, Invariance, PTL

\* procreact_future_iterator: swapping futures while their output is read loses
\* none of them, completes none twice and loses no output.
THEOREM NoFutureIsLost == Spec => []EachCompletedOnce
<1>1. Inv => EachCompletedOnce
  <2> SUFFICES ASSUME Inv PROVE EachCompletedOnce
    OBVIOUS
  <2>1. Types /\ Counting /\ Buffering /\ IterationInv
    BY DEF Inv, IterationInv
  <2>2. completed \in [Batch -> {0, 1}] /\ DOMAIN worker = Batch
    BY <2>1 DEF Types
  <2>3. \A i \in DOMAIN completed : completed[i] <= 1
    <3>1. \A i \in Batch : completed[i] \in {0, 1}
      BY <2>2
    <3> QED BY <2>2, <3>1
  <2>4. IterationOver => \A i \in DOMAIN completed : completed[i] = 1
    BY <2>1, <2>2, AllCompleted DEF IterationOver, PidIterationOver, FutureIterationOver
  <2>5. Gathers => \A i \in DOMAIN worker : completed[i] = 1 /\ worker[i].at = "ok" => got[i] = Output
    <3> SUFFICES ASSUME Gathers, NEW i \in Batch, completed[i] = 1, worker[i].at = "ok" PROVE got[i] = Output
      BY <2>2
    <3>1. pipe[i] = 0 /\ got[i] + pipe[i] = Output /\ got[i] \in Nat
      BY <2>1 DEF Buffering, Types
    <3> QED BY <3>1
  <2>6. Gathers => {futures[k] : k \in DOMAIN futures} = Children
    <3> SUFFICES ASSUME Gathers PROVE {futures[k] : k \in DOMAIN futures} = Children
      OBVIOUS
    <3>1. DOMAIN futures = 1 .. running
      BY <2>1 DEF Buffering, Types
    <3> QED BY <2>1, <3>1 DEF Buffering
  <2>7. running = Cardinality(Children)
    BY <2>1 DEF Counting
  <2> QED BY <2>3, <2>4, <2>5, <2>6, <2>7 DEF EachCompletedOnce
<1> QED BY <1>1, Invariance, PTL

\* copy-closure.c: however many processes copy to a store at the same time, and
\* wherever they fail, no path is ever there without its references.
THEOREM NoReferenceMissing == Spec => []StoresClosed
<1>1. Inv => StoresClosed
  BY DEF Inv, StoresOK, StoresClean, StoresClosed
<1> QED BY <1>1, Invariance, PTL

\* A program that exits with 0 has built, copied or run everything it should.
THEOREM ExitStatusIsTrue == Spec => []SuccessIsComplete
<1>1. Inv => SuccessIsComplete
  <2> SUFFICES ASSUME Inv PROVE SuccessIsComplete
    OBVIOUS
  <2>1. Types /\ StoresOK /\ ResultsOK /\ OutcomesOK
    BY DEF Inv, IterationInv
  <2>2. DOMAIN batch = Batch /\ DOMAIN items = 1 .. Len(items) /\ Len(items) \in Nat
    <3>1. PICK Items : items \in Seq(Items)
      BY <2>1, ProgramFacts
    <3> QED BY <2>1, <3>1 DEF Types, Batch
  <2>3. At("fetch") => \A i \in DOMAIN batch : result[batch[i]] # Missing
    BY <2>1, <2>2 DEF ResultsOK, At
  <2>4. ASSUME exit = "0"
        PROVE  /\ \A i \in Batch : worker[i].at = "ok"
               /\ phase + 1 = Len(Phases[program])
               /\ program # "capture_manifest" =>
                    batch = [i \in 1 .. Len(items) |-> i] /\ Batch = 1 .. Len(items)
               /\ program = "capture_manifest" => phase = 1
               /\ program = "build" => phase = 2
    <3>1. (\A i \in Batch : worker[i].at = "ok") /\ phase + 1 = Len(Phases[program])
      BY <2>1, <2>4 DEF OutcomesOK
    <3>2. (program = "capture_manifest" => phase = 1) /\ (program = "build" => phase = 2)
      <4>1. PICK m : m = Len(Phases[program])
        OBVIOUS
      <4>2. (program = "capture_manifest" => m = 2) /\ (program = "build" => m = 3)
        BY <2>1, <4>1, KindFacts
      <4>3. phase + 1 = m /\ phase \in 0 .. 2
        BY <2>1, <3>1, <4>1 DEF Types
      <4> QED BY <4>2, <4>3
    <3>3. ASSUME program # "capture_manifest"
          PROVE  batch = [i \in 1 .. Len(items) |-> i] /\ Batch = 1 .. Len(items)
      <4>1. batch = [i \in 1 .. Len(items) |-> i]
        BY <2>1, <3>3 DEF ResultsOK
      <4>2. Len(batch) = Len(items)
        BY <2>2, <4>1
      <4> QED BY <4>1, <4>2 DEF Batch
    <3> QED BY <3>1, <3>2, <3>3
  <2>5. ASSUME exit = "0", Kind \in {"send", "fetch"}, NEW k \in Batch
        PROVE  Closure[Root(k)] \subseteq store[Destination(k)]
    <3>1. worker[k].at = "ok"
      BY <2>4, <2>5
    <3>2. worker[k] # NoWorker
      BY <3>1 DEF NoWorker
    <3> QED BY <2>1, <2>5, <3>1, <3>2 DEF StoresOK, CopyOK, Bringing
  <2>6. ASSUME exit = "0", program = "build", NEW i \in DOMAIN items
        PROVE  Has(Coordinator, Outputs[items[i].path])
    <3>1. Kind = "fetch"
      BY <2>1, <2>4, <2>6, KindFacts
    <3>2. i \in Batch /\ batch[i] = i
      BY <2>2, <2>4, <2>6
    <3>3. Destination(i) = Coordinator /\ Root(i) = result[i]
      BY <3>1, <3>2 DEF Destination, Root
    <3>4. result[i] = {Outputs[items[i].path]}
      BY <2>1, <2>2, <2>6, <3>1, <3>2 DEF ResultsOK, Returned
    <3> QED BY <2>5, <2>6, <3>1, <3>2, <3>3, <3>4 DEF Has
  <2>7. ASSUME exit = "0", program = "distribute", NEW i \in DOMAIN items
        PROVE  Has(items[i].target, items[i].path)
    <3>1. Kind = "send"
      BY <2>1, <2>4, <2>7, KindFacts DEF Types
    <3>2. i \in Batch /\ batch[i] = i
      BY <2>2, <2>4, <2>7
    <3>3. Destination(i) = items[i].target /\ Root(i) = {items[i].path}
      BY <3>1, <3>2 DEF Destination, Root, Item
    <3> QED BY <2>5, <2>7, <3>1, <3>2, <3>3 DEF Has
  <2>8. ASSUME exit = "0", program = "capture_manifest", NEW i \in DOMAIN items, result[i] # Missing
        PROVE  Has(Coordinator, items[i].path)
    <3>1. phase = 1
      BY <2>4, <2>8
    <3>2. Kind = "fetch"
      BY <2>1, <2>8, <3>1, KindFacts
    <3>3. PICK k \in Batch : batch[k] = i
      BY <2>1, <2>2, <2>8, <3>1 DEF ResultsOK
    <3>4. Destination(k) = Coordinator /\ Root(k) = result[i]
      BY <3>2, <3>3 DEF Destination, Root
    <3>5. result[i] = {items[i].path}
      BY <2>1, <2>2, <2>8 DEF ResultsOK, Returned
    <3> QED BY <2>5, <2>8, <3>2, <3>3, <3>4, <3>5 DEF Has
  <2>9. exit = "0" /\ program # "capture_manifest" => Len(batch) = Len(items)
    <3>1. batch \in Seq(1 .. Len(items))
      BY <2>1 DEF Types
    <3> QED BY <2>2, <2>4, <3>1
  <2> QED BY <2>2, <2>3, <2>4, <2>6, <2>7, <2>8, <2>9 DEF SuccessIsComplete
<1> QED BY <1>1, Invariance, PTL

-----------------------------------------------------------------------------
(* What the programs see of their iterations. *)

Waiting == {i \in DOMAIN completed : i > index}
Good == {i \in DOMAIN completed : completed[i] > 0 /\ worker[i].at = "ok"}
Bad == {i \in DOMAIN completed : completed[i] > 0 /\ worker[i].at # "ok"}

\* The iterator knows whether a process failed, and the table of profiles has
\* those of the targets that answered.
Accounted ==
    /\ success <=> Bad = {}
    /\ Kind = "resolve" => \A i \in Batch : result[batch[i]] # Missing <=> i \in Good

\* The abstract specification counts as this one does.
LEMMA SameCount ==
    ASSUME NEW S
    PROVE  Abstract!Cardinality(S) = Cardinality(S)
BY DEF Cardinality, Abstract!Cardinality

LEMMA ItemSets ==
    ASSUME Types
    PROVE  /\ Waiting = {i \in Batch : i > index}
           /\ Good = {i \in Batch : completed[i] = 1 /\ worker[i].at = "ok"}
           /\ Bad = {i \in Batch : completed[i] = 1 /\ worker[i].at # "ok"}
           /\ DOMAIN completed = Batch
<1>1. completed \in [Batch -> {0, 1}]
  BY DEF Types
<1>2. \A i \in Batch : completed[i] > 0 <=> completed[i] = 1
  BY <1>1
<1> QED BY <1>1, <1>2 DEF Waiting, Good, Bad

\* Processes that were waited for do not change.
LEMMA ItemsKept ==
    ASSUME Types, UNCHANGED <<scenarioVars, phase, batch, completed>>,
           \A i \in Batch : completed[i] = 1 => worker'[i] = worker[i]
    PROVE  /\ Good' = Good /\ Bad' = Bad
           /\ Accounted /\ UNCHANGED <<success, result>> => Accounted'
<1>1. Kind' = Kind /\ Batch' = Batch
  BY SameIteration
<1>2. completed \in [Batch -> {0, 1}]
  BY DEF Types
<1>3. \A i \in Batch : completed[i] > 0 <=> completed[i] = 1
  BY <1>2
<1>4. Good' = Good /\ Bad' = Bad
  BY <1>2, <1>3 DEF Good, Bad
<1> QED BY <1>1, <1>4 DEF Accounted

LEMMA InitAccounted == Init => Accounted
<1> SUFFICES ASSUME Init PROVE Accounted
  OBVIOUS
<1>1. Types
  BY InitIteration DEF IterationInv
<1>2. success = TRUE /\ \E s \in Scenarios : /\ completed = [i \in 1 .. Len(s.items) |-> 0]
                                            /\ result = [i \in 1 .. Len(s.items) |-> Missing]
                                            /\ batch = [i \in 1 .. Len(s.items) |-> i]
  BY DEF Init
<1>3. PICK n : /\ completed = [i \in 1 .. n |-> 0] /\ result = [i \in 1 .. n |-> Missing]
               /\ batch = [i \in 1 .. n |-> i]
  BY <1>2
<1>4. Good = {} /\ Bad = {} /\ Batch = 1 .. n
  <2>1. Batch = DOMAIN completed
    BY <1>1, ItemSets
  <2>2. Batch = 1 .. n
    BY <1>3, <2>1
  <2>3. \A i \in Batch : completed[i] = 0
    BY <1>3, <2>2
  <2> QED BY <1>1, <2>2, <2>3, ItemSets
<1>5. \A i \in Batch : result[batch[i]] = Missing
  BY <1>3, <1>4
<1> QED BY <1>2, <1>4, <1>5 DEF Accounted

\* A process is started for the next item.
LEMMA StartRefines ==
    ASSUME Inv, Accounted, SpawnPid \/ SpawnFuture
    PROVE  Accounted' /\ \E i \in Waiting : Abstract!Start(i)
<1>1. /\ exit = "none" /\ HasNext /\ worker' = [worker EXCEPT ![index + 1] = FirstStep(index + 1)]
      /\ index' = index + 1
      /\ UNCHANGED <<store, success, completed, scenarioVars, phase, batch, result, exit>>
      /\ Ordered => running < Limit
  BY IterationFacts
     DEF SpawnPid, SpawnFuture, SpawnNextPid, SpawnNextFuture, MaySpawn, Inv, IterationInv, Ordered, Gathers, At
<1>2. Types /\ Counting
  BY DEF Inv, IterationInv
<1>3. PICK n : n = index + 1
  OBVIOUS
<1>4. n \in Batch
  BY <1>1, <1>2, <1>3, NextItem
<1>5. FirstStep(index + 1) # NoWorker
  BY <1>1, <1>2, <1>3, <1>4, FirstStepFacts
<1>6. /\ Children' = Children \cup {n}
      /\ \A j \in Batch \ {n} : worker'[j] = worker[j]
      /\ completed[n] = 0 /\ Cardinality(Children) + 1 <= Len(batch)
  BY <1>1, <1>2, <1>3, <1>5, ChildStarted
<1>7. Good' = Good /\ Bad' = Bad /\ Accounted'
  <2>1. \A i \in Batch : completed[i] = 1 => worker'[i] = worker[i]
    BY <1>6
  <2> QED BY <1>1, <1>2, <2>1, ItemsKept
<1>8. n \in Waiting /\ (\A j \in Waiting : n <= j) /\ Waiting' = Waiting \ {n}
  <2>1. index \in Nat /\ DOMAIN completed = Batch /\ \A i \in Batch : i \in Nat
    BY <1>2, ItemSets DEF Types, Batch
  <2>2. Waiting = {i \in Batch : i > index} /\ Waiting' = {i \in Batch : i > n}
    BY <1>1, <1>3, <2>1 DEF Waiting
  <2>3. \A i \in Batch : i > index <=> i = n \/ i > n
    BY <1>3, <2>1
  <2>4. n > index /\ n <= n /\ ~(n > n) /\ \A i \in Batch : i > n => n <= i /\ i # n
    BY <1>3, <1>4, <2>1
  <2> HIDE DEF Waiting
  <2> QED BY <1>4, <2>2, <2>3, <2>4
<1>9. Cardinality(Children) < IF Ordered THEN Limit ELSE Len(batch)
  <2>1. Cardinality(Children) \in Nat /\ Len(batch) \in Nat /\ running = Cardinality(Children)
    BY <1>2, ChildrenFinite DEF Types, Counting
  <2> QED BY <1>1, <1>6, <2>1
<1>10. UNCHANGED <<program, phase, exit>>
  BY <1>1 DEF scenarioVars
<1>11. Abstract!Start(n)
  BY <1>1, <1>6, <1>7, <1>8, <1>9, <1>10, SameCount DEF Abstract!Start, Abstract!MayStart, Waiting, Good, Bad
<1> QED BY <1>7, <1>8, <1>11

LEMMA CrashRefines ==
    ASSUME Inv, Accounted, ForkFails
    PROVE  Accounted' /\ Abstract!Crash
<1>1. /\ exit = "none" /\ HasNext /\ exit' = "crashed"
      /\ UNCHANGED <<store, worker, index, success, completed, scenarioVars, phase, batch, result>>
      /\ Ordered => running < Limit
  BY IterationFacts
     DEF ForkFails, MaySpawn, Inv, IterationInv, copyVars, iteratorVars, modelVars, Ordered, Gathers, At
<1>2. Types /\ Counting
  BY DEF Inv, IterationInv
<1>3. PICK n : n = index + 1
  OBVIOUS
<1>4. n \in Waiting
  <2>1. n \in Batch /\ index \in Nat /\ DOMAIN completed = Batch
    BY <1>1, <1>2, <1>3, NextItem, ItemSets DEF Types
  <2> QED BY <1>3, <2>1 DEF Waiting
<1>5. Cardinality(Children) < IF Ordered THEN Limit ELSE Len(batch)
  <2>1. Children \subseteq Batch \ {n} /\ IsFiniteSet(Children) /\ Cardinality(Children) \in Nat
    <3>1. worker[n] = NoWorker
      BY <1>2, <1>3, <1>4, ItemSets DEF Counting, Types
    <3> QED BY <1>2, <3>1, ChildrenFinite DEF Children
  <2>2. IsFiniteSet(Batch) /\ Cardinality(Batch) = Len(batch) /\ Len(batch) \in Nat /\ n \in Batch
    BY <1>2, <1>4, ItemsCounted, ItemSets DEF Types
  <2>3. Cardinality(Batch \ {n}) = Len(batch) - 1 /\ IsFiniteSet(Batch \ {n})
    BY <2>2, FS_RemoveElement, FS_Subset
  <2>4. Cardinality(Children) <= Cardinality(Batch \ {n})
    BY <2>1, <2>3, FS_Subset
  <2> QED BY <1>1, <1>2, <2>1, <2>2, <2>3, <2>4 DEF Counting
<1>6. Good' = Good /\ Bad' = Bad /\ Accounted'
  BY <1>1, <1>2, ItemsKept
<1>7. Waiting' = Waiting /\ Children' = Children /\ UNCHANGED program
  BY <1>1 DEF Waiting, Children, scenarioVars
<1>8. Abstract!Crash
  BY <1>1, <1>4, <1>5, <1>6, <1>7, SameCount
     DEF Abstract!Crash, Abstract!MayStart, Abstract!items, Waiting, Good, Bad
<1> QED BY <1>6, <1>8

\* A process is waited for.
LEMMA FinishRefines ==
    ASSUME Inv, Accounted, NEW i \in DOMAIN worker, WaitReaps(i) \/ FutureFinished(i)
    PROVE  Accounted' /\ \E j \in Children : Abstract!Finish(j)
<1>1. Types /\ Counting /\ i \in Batch /\ ResultsOK
  BY DEF Inv, IterationInv, Types
<1>2. /\ Zombie(i) /\ Complete(i, worker[i].at = "ok") /\ exit = "none"
      /\ UNCHANGED <<worker, index, scenarioVars, phase, batch, exit>>
      /\ \/ Ordered /\ UNCHANGED result
         \/ /\ Gathers
            /\ result' = IF worker[i].at = "ok" THEN [result EXCEPT ![batch[i]] = Answer(i)] ELSE result
  BY <1>1, IterationFacts DEF WaitReaps, WaitForProcess, FutureFinished, Finalize, copyVars
<1>3. /\ i \in Children /\ Children' = Children \ {i}
      /\ completed' \in [Batch -> {0, 1}]
      /\ \A j \in Batch : completed'[j] = IF j = i THEN 1 ELSE completed[j]
      /\ success' = (success /\ worker[i].at = "ok")
  BY <1>1, <1>2, ChildCompleted
<1>4. Kind' = Kind /\ Batch' = Batch
  BY <1>2, SameIteration
<1>5. /\ Good' = IF worker[i].at = "ok" THEN Good \cup {i} ELSE Good
      /\ Bad' = IF worker[i].at = "ok" THEN Bad ELSE Bad \cup {i}
      /\ Waiting' = Waiting
  <2>1. completed \in [Batch -> {0, 1}] /\ completed[i] = 0
    BY <1>1, <1>3 DEF Types, Children
  <2>2. \A j \in Batch : (completed[j] > 0 <=> completed[j] = 1) /\ (completed'[j] > 0 <=> completed'[j] = 1)
    BY <1>3, <2>1
  <2> QED BY <1>1, <1>2, <1>3, <2>1, <2>2 DEF Good, Bad, Waiting
<1>6. Accounted'
  <2>1. success' <=> Bad' = {}
    BY <1>3, <1>5 DEF Accounted
  <2>2. ASSUME Kind = "resolve" PROVE \A j \in Batch : result'[batch'[j]] # Missing <=> j \in Good'
    <3>1. Gathers
      BY <1>1, <1>2, <2>2, IterationFacts
    <3>2. batch = [j \in 1 .. Len(items) |-> j]
      BY <1>1, <2>2, KindFacts DEF ResultsOK
    <3>3. \A j \in Batch : batch[j] = j /\ j \in 1 .. Len(items)
      <4>1. \A j \in Batch : batch[j] \in 1 .. Len(items)
        BY <1>1, ItemFacts
      <4> QED BY <3>2, <4>1 DEF Batch
    <3>4. Answer(i) # Missing
      BY <1>1, <3>1, AnswerFacts
    <3>5. \A j \in Batch : result'[j] = IF j = i /\ worker[i].at = "ok" THEN Answer(i) ELSE result[j]
      <4>1. result \in [1 .. Len(items) -> SUBSET (Path \cup Missing)]
        BY <1>1 DEF Types
      <4>2. ~Ordered
        BY <1>1, <3>1, IterationFacts
      <4> QED BY <1>1, <1>2, <3>3, <4>1, <4>2
    <3>6. \A j \in Batch : result[j] # Missing <=> j \in Good
      BY <2>2, <3>3 DEF Accounted
    <3>7. i \notin Good
      BY <1>1, <1>3 DEF Good, Children
    <3> QED BY <1>1, <1>2, <1>5, <3>3, <3>4, <3>5, <3>6, <3>7
  <2> QED BY <1>4, <2>1, <2>2 DEF Accounted
<1>7. UNCHANGED <<program, phase, exit>>
  BY <1>2 DEF scenarioVars
<1>8. Abstract!Finish(i)
  BY <1>2, <1>3, <1>5, <1>7 DEF Abstract!Finish, Waiting, Good, Bad
<1> QED BY <1>3, <1>6, <1>8

\* Once an iteration is over, its items succeeded or failed.
LEMMA OverFacts ==
    ASSUME Inv, Accounted, IterationOver
    PROVE  /\ exit = "none" /\ Waiting = {} /\ Children = {}
           /\ \A i \in Batch : i \in Good <=> worker[i].at = "ok"
           /\ \A i \in Batch : i \in Bad <=> worker[i].at # "ok"
           /\ Good \subseteq Batch
<1>1. Types /\ Counting /\ IterationInv
  BY DEF Inv, IterationInv
<1>2. exit = "none" /\ ~HasNext /\ running = 0
  BY <1>1, IterationFacts DEF IterationOver, PidIterationOver, FutureIterationOver
<1>3. Waiting = {}
  <2>1. Waiting = {i \in Batch : i > index}
    BY <1>1, ItemSets
  <2>2. \A i \in Batch : ~(i > index)
    BY <1>1, <1>2, NextItem DEF Batch, Types
  <2> QED BY <2>1, <2>2
<1>4. Children = {}
  BY <1>1, <1>2, ChildrenFinite, FS_EmptySet DEF Counting
<1>5. \A i \in Batch : completed[i] = 1
  BY <1>1, <1>2, AllCompleted
<1>6. /\ Good = {i \in Batch : completed[i] = 1 /\ worker[i].at = "ok"}
      /\ Bad = {i \in Batch : completed[i] = 1 /\ worker[i].at # "ok"}
  BY <1>1, ItemSets
<1> QED BY <1>2, <1>3, <1>4, <1>5, <1>6

\* The next iteration has as many items as this one has items that succeeded.
LEMMA AgainRefines ==
    ASSUME Inv, Accounted, PhaseEnds
    PROVE  Accounted' /\ Abstract!Again
<1>1. Types /\ ResultsOK /\ IterationOver
  BY DEF Inv, IterationInv, PhaseEnds
<1>2. /\ exit = "none" /\ Waiting = {} /\ Children = {} /\ Good \subseteq Batch
      /\ \A i \in Batch : (i \in Good <=> worker[i].at = "ok") /\ (i \in Bad <=> worker[i].at # "ok")
  BY <1>1, OverFacts
<1>3. /\ phase + 1 < Len(Phases[program]) /\ phase' = phase + 1
      /\ success \/ At("resolve")
      /\ Begin(NextBatch) /\ UNCHANGED <<program, items, result, exit>>
  BY DEF PhaseEnds, Continues, scenarioVars
<1>4. PICK b : b = NextBatch
  OBVIOUS
<1>5. PICK n \in Nat : n = Len(b)
  BY <1>1, <1>4, NextBatchFacts
<1>6. /\ batch' = b /\ index' = 0 /\ success' = TRUE
      /\ completed' = [i \in 1 .. n |-> 0] /\ worker' = [i \in 1 .. n |-> NoWorker]
  BY <1>3, <1>4, <1>5 DEF Begin, InitModel
<1>7. Waiting' = 1 .. n /\ Children' = {} /\ Good' = {} /\ Bad' = {}
  BY <1>5, <1>6 DEF Waiting, Children, Good, Bad
<1>8. PICK m : m = Len(Phases[program])
  OBVIOUS
<1>9. /\ phase \in Nat /\ m \in Nat /\ m - (phase + 1) > 0 /\ m - (phase + 2) = m - (phase + 1) - 1
      /\ phase' # 0
  BY <1>1, <1>3, <1>8, KindFacts DEF Types
<1>10. Kind' # "resolve"
  <2>1. program \in {"build", "distribute", "capture_manifest", "query", "command"} /\ phase \in {0, 1, 2}
    BY <1>1, ProgramFacts DEF Types
  <2>2. CASE program = "build"
    BY <1>3, <2>1, <2>2 DEF Kind, Phases
  <2>3. CASE program = "capture_manifest"
    BY <1>3, <2>1, <2>3 DEF Kind, Phases
  <2>4. CASE program \in {"distribute", "query", "command"}
    BY <1>1, <1>3, <2>1, <2>4, KindFacts
  <2> QED BY <2>1, <2>2, <2>3, <2>4
<1>11. Accounted'
  BY <1>6, <1>7, <1>10 DEF Accounted
<1>12. Cardinality(1 .. n) = n /\ Cardinality(Waiting') = n
  <2>1. Cardinality(1 .. n) = n
    BY FS_Interval
  <2> QED BY <1>7, <2>1
<1>13. n = Cardinality(Good)
  <2>1. batch = [i \in 1 .. Len(items) |-> i]
    <3>1. program # "capture_manifest" \/ phase = 0
      BY <1>1, <1>3, KindFacts DEF Types
    <3> QED BY <1>1, <3>1 DEF ResultsOK
  <2>2. Batch = 1 .. Len(items) /\ Len(items) \in Nat /\ \A i \in Batch : batch[i] = i
    <3>1. PICK Items : items \in Seq(Items)
      BY <1>1, ProgramFacts
    <3>2. Len(batch) = Len(items)
      BY <2>1, <3>1
    <3> QED BY <2>1, <3>1, <3>2 DEF Batch
  <2>3. CASE At("resolve")
    <3>1. \A i \in Batch : result[i] # Missing <=> i \in Good
      BY <2>2, <2>3 DEF Accounted, At
    <3>2. {i \in 1 .. Len(items) : result[i] # Missing} = Good
      BY <1>2, <2>2, <3>1
    <3> QED BY <1>1, <1>4, <1>5, <2>3, <3>2, NextBatchFacts
  <2>4. CASE ~At("resolve")
    <3>1. Good = Batch
      BY <1>2, <1>3, <2>4 DEF Accounted
    <3>2. b = [i \in 1 .. Len(items) |-> i]
      BY <1>1, <1>4, <2>4, NextBatchFacts
    <3>3. n = Len(items)
      BY <1>5, <2>2, <3>2
    <3> QED BY <1>12, <2>2, <3>1, <3>3
  <2> QED BY <2>3, <2>4
<1>14. Bad = {} \/ Kind = "resolve"
  BY <1>3 DEF Accounted, At
<1>15. Waiting' \subseteq Nat
  BY <1>5, <1>7
<1>16. Len(Phases[program]) - (phase + 1) > 0
       /\ Len(Phases[program'])- (phase' + 1) = Len(Phases[program]) - (phase + 1) - 1
  BY <1>3, <1>8, <1>9
<1>17. Abstract!Again
  BY <1>2, <1>3, <1>7, <1>12, <1>13, <1>14, <1>15, <1>16, SameCount
     DEF Abstract!Again, Abstract!Over, Abstract!GoesOn, Waiting, Good, Bad
<1> QED BY <1>11, <1>17

LEMMA StopRefines ==
    ASSUME Inv, Accounted, Exits
    PROVE  Accounted' /\ Abstract!Stop
<1>1. Types /\ IterationOver
  BY DEF Inv, IterationInv, Exits
<1>2. exit = "none" /\ Waiting = {} /\ Children = {}
  BY <1>1, OverFacts
<1>3. /\ ~(Continues /\ phase + 1 < Len(Phases[program]))
      /\ exit' = IF success THEN "0" ELSE "1"
      /\ UNCHANGED <<worker, index, success, completed, scenarioVars, phase, batch, result>>
  BY DEF Exits, copyVars, iteratorVars, modelVars
<1>4. Good' = Good /\ Bad' = Bad /\ Accounted'
  BY <1>1, <1>3, ItemsKept
<1>5. Waiting' = Waiting /\ Children' = Children /\ UNCHANGED program
  BY <1>3 DEF Waiting, Children, scenarioVars
<1>6. Continues <=> Bad = {} \/ Kind = "resolve"
  BY <1>2 DEF Continues, Accounted, At
<1>7. Len(Phases[program]) - (phase + 1) > 0 => phase + 1 < Len(Phases[program])
  <2>1. PICK m : m = Len(Phases[program])
    OBVIOUS
  <2>2. m \in {1, 2, 3}
    BY <1>1, <2>1, KindFacts
  <2>3. phase \in Nat
    BY <1>1 DEF Types
  <2> QED BY <2>1, <2>2, <2>3
<1>8. success <=> Bad = {}
  BY DEF Accounted
<1>9. Abstract!Stop
  BY <1>2, <1>3, <1>4, <1>5, <1>6, <1>7, <1>8
     DEF Abstract!Stop, Abstract!Over, Abstract!GoesOn, Abstract!items, Waiting, Good, Bad
<1> QED BY <1>4, <1>9

LEMMA WorkFacts ==
    ASSUME Types, NEW i \in DOMAIN worker, Work(i)
    PROVE  ~Ended(worker[i]) /\ \A j \in Batch \ {i} : worker'[j] = worker[j]
<1>1. Types /\ i \in Batch
  BY DEF Types
<1>2. worker[i].at = "work" /\ \E at \in {"ok", "failed"} : Goes(i, at, {})
  BY DEF Work
<1>3. worker[i] \in Working /\ ~Ended(worker[i])
  BY <1>1, <1>2, WorkerFacts DEF Ended
<1>4. PICK at \in {"ok", "failed"} : Goes(i, at, {})
  BY <1>2
<1>5. \A j \in Batch \ {i} : worker'[j] = worker[j]
  <2>1. {} \in SUBSET (Path \cup Missing)
    OBVIOUS
  <2> QED BY <1>1, <1>3, <1>4, <2>1, GoesFacts
<1> QED BY <1>3, <1>5

\* The other steps are between the items and their processes.
LEMMA StuttersRefine ==
    ASSUME Inv, Accounted, [Next]_vars,
           \/ WaitReapsNothing \/ Spins \/ Buffer \/ UNCHANGED vars
           \/ \E i \in DOMAIN worker : Process(i)
    PROVE  Accounted' /\ UNCHANGED Abstract!promised
<1>1. Types /\ Counting /\ StoresClean /\ DOMAIN worker = Batch
  BY DEF Inv, IterationInv, Types, StoresOK
<1>2. Types' /\ Counting'
  BY NextIteration DEF Inv, IterationInv, StoresOK
<1>3. UNCHANGED <<index, success, completed, scenarioVars, phase, batch, result, exit>>
  <2>1. CASE WaitReapsNothing
    BY <2>1 DEF WaitReapsNothing, WaitForNothing, modelVars
  <2>2. CASE Spins \/ UNCHANGED vars
    BY <2>2 DEF Spins, vars, iteratorVars, modelVars
  <2>3. CASE Buffer
    BY <2>3 DEF Buffer, BufferAgain, AppendOutput, iteratorVars, modelVars
  <2>4. CASE \E i \in DOMAIN worker : Process(i)
    BY <2>4 DEF Process, Work, Writes, Write, Copies, iteratorVars, modelVars
  <2> QED BY <2>1, <2>2, <2>3, <2>4
<1>4. \A i \in Batch : completed[i] = 1 => worker'[i] = worker[i]
  <2>1. CASE UNCHANGED worker
    BY <2>1
  <2>2. CASE \E i \in Batch : Work(i) \/ Copies(i)
    <3>1. PICK i \in Batch : Work(i) \/ Copies(i)
      BY <2>2
    <3>2. ~Ended(worker[i]) /\ \A j \in Batch \ {i} : worker'[j] = worker[j]
      <4>1. CASE Work(i)
        BY <1>1, <4>1, WorkFacts
      <4>2. CASE Copies(i)
        BY <1>1, <4>2, CopyFacts DEF Copies
      <4> QED BY <3>1, <4>1, <4>2
    <3>3. completed[i] # 1
      BY <1>1, <3>2 DEF Counting
    <3> QED BY <3>2, <3>3
  <2>3. CASE WaitReapsNothing \/ Spins \/ Buffer \/ UNCHANGED vars \/ \E i \in DOMAIN worker : Writes(i)
    BY <2>1, <2>3 DEF WaitReapsNothing, Spins, Buffer, Writes, vars, copyVars
  <2> QED BY <1>1, <2>2, <2>3 DEF Process
<1>5. Good' = Good /\ Bad' = Bad /\ Accounted'
  BY <1>1, <1>3, <1>4, ItemsKept
<1>6. Waiting' = Waiting
  BY <1>3 DEF Waiting
<1>7. Children' = Children
  <2>1. Batch' = Batch /\ DOMAIN worker' = Batch
    BY <1>2, <1>3 DEF Types, Batch
  <2>2. \A i \in Batch : worker'[i] # NoWorker <=> worker[i] # NoWorker
    BY <1>1, <1>2, <1>3, <2>1 DEF Counting
  <2> QED BY <1>1, <1>3, <2>1, <2>2 DEF Children
<1>8. UNCHANGED <<program, phase, exit>>
  BY <1>3 DEF scenarioVars
<1> QED BY <1>5, <1>6, <1>7, <1>8 DEF Abstract!promised, Abstract!items, Waiting, Good, Bad

\* The iterators keep their promise, for any program, number of items and limit:
\* every item has its one process, waited for once, in turn and within the
\* limit; an iteration is over the items that succeeded in the one before it;
\* and the exit status tells whether a process of the last iteration failed.
THEOREM IteratorsKeepTheirPromise == Spec => Iterates
<1>1. Init => Accounted /\ Abstract!Init
  <2> SUFFICES ASSUME Init PROVE Abstract!Init
    BY InitAccounted
  <2>1. Types
    BY InitIteration DEF IterationInv
  <2>2. exit = "none" /\ \E n : /\ completed = [i \in 1 .. n |-> 0] /\ worker = [i \in 1 .. n |-> NoWorker]
                                /\ index = 0
    BY DEF Init
  <2>3. Good = {} /\ Bad = {} /\ Children = {}
    BY <2>2 DEF Good, Bad, Children, NoWorker
  <2>4. Waiting \subseteq Nat
    BY <2>1, ItemSets DEF Batch, Types
  <2>5. Len(Phases[program]) - (phase + 1) \in Nat
    <3>1. PICK m : m = Len(Phases[program])
      OBVIOUS
    <3>2. m \in {1, 2, 3}
      BY <2>1, <3>1, KindFacts
    <3>3. phase \in Nat /\ phase < m
      BY <2>1, <3>1 DEF Types
    <3> QED BY <3>1, <3>2, <3>3
  <2> QED BY <2>2, <2>3, <2>4, <2>5 DEF Abstract!Init, Waiting, Good, Bad
<1>2. Inv /\ Accounted /\ [Next]_vars => Accounted' /\ [Abstract!Next]_(Abstract!promised)
  <2> SUFFICES ASSUME Inv, Accounted, [Next]_vars
               PROVE  Accounted' /\ [Abstract!Next]_(Abstract!promised)
    OBVIOUS
  <2>1. CASE SpawnPid \/ SpawnFuture
    BY <2>1, StartRefines DEF Abstract!Next, Waiting
  <2>2. CASE ForkFails
    BY <2>2, CrashRefines DEF Abstract!Next
  <2>3. CASE \E i \in DOMAIN worker : WaitReaps(i) \/ FutureFinished(i)
    BY <2>3, FinishRefines DEF Abstract!Next
  <2>4. CASE PhaseEnds
    BY <2>4, AgainRefines DEF Abstract!Next
  <2>5. CASE Exits
    BY <2>5, StopRefines DEF Abstract!Next
  <2>6. CASE \/ WaitReapsNothing \/ Spins \/ Buffer \/ UNCHANGED vars
             \/ \E i \in DOMAIN worker : Process(i)
    BY <2>6, StuttersRefine
  <2> QED BY <2>1, <2>2, <2>3, <2>4, <2>5, <2>6 DEF Next, Program
<1> QED BY <1>1, <1>2, Invariance, PTL DEF Spec, Iterates, Abstract!Spec
=============================================================================
