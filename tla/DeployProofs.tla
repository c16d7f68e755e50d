---------------------------- MODULE DeployProofs ----------------------------
(***************************************************************************)
(* Proofs about Deploy: a deployment leaves no lock behind, one that holds *)
(* its locks is not disturbed, one that reports success has put its        *)
(* configuration in place, generations are well-formed, the options that   *)
(* users give reach the commands, and following the advice of a deployment *)
(* that could not roll back restores the old configuration.                *)
(***************************************************************************)
EXTENDS ManifestProofs, SequenceTheorems

-----------------------------------------------------------------------------
(* What a command is, when it runs and when it has ended. *)

JobFields ==
    {"command", "args", "env", "asked", "calls", "parsed", "file", "new", "oldFile", "old", "status",
     "phases", "todo", "acquired", "ok", "profiles", "astray", "exit"}

EndedFields ==
    {"command", "calls", "phases", "exit", "env", "asked", "parsed", "astray"}

Formed(j) ==
    \/ DOMAIN j = JobFields
    \/ DOMAIN j = EndedFields /\ j.phases = <<>> /\ j.calls = <<>>

Runs(j) == j.exit = "none" /\ j.phases # <<>>

\* Nothing that a script calls after its first command is a deployment.
NoDeployment(calls) == \E S : calls \in Seq(S) /\ \A call \in S : call.command # "deploy"

\* The phases of a deployment, and of what is left of one.
DeployPhase == {"distribute", "lock", "deactivate", "activate", "migrate", "targets", "coordinator", "unlock"}

Ordered(phases) ==
    /\ phases \in Seq(DeployPhase)
    /\ \A n \in 2 .. Len(phases) : phases[n] # "distribute"
    /\ \A n \in 2 .. Len(phases) : phases[n] = "lock" => phases[n - 1] = "distribute"
    /\ \A n \in 1 .. Len(phases) - 1 : phases[n] # "unlock"
    /\ \A n \in 1 .. Len(phases) : phases[n] = "lock" => phases[Len(phases)] = "unlock"

\* The phases of a deployment are in order, and so are those that are left after
\* the first.
LEMMA DeployPhases ==
  ASSUME NEW options
  PROVE  Ordered(Phases("deploy", options)) /\ Phases("deploy", options) # <<>>
<1> DEFINE L == Unless(options, "no-lock", "lock")
           M == Unless(options, "no-migration", "migrate")
           U == Unless(options, "no-lock", "unlock")
           p == <<"distribute">> \o L \o <<"deactivate", "activate">> \o M
                  \o <<"targets", "coordinator">> \o U
<1>1. Phases("deploy", options) = p
  BY DEF Phases
<1>2. p \in Seq(DeployPhase)
  <2>1. /\ L \in Seq(DeployPhase) /\ M \in Seq(DeployPhase) /\ U \in Seq(DeployPhase)
        /\ <<"distribute">> \in Seq(DeployPhase) /\ <<"deactivate", "activate">> \in Seq(DeployPhase)
        /\ <<"targets", "coordinator">> \in Seq(DeployPhase)
    <3>1. ASSUME NEW option, NEW phase \in DeployPhase
          PROVE  Unless(options, option, phase) \in Seq(DeployPhase)
      BY DEF Unless
    <3> QED BY <3>1 DEF DeployPhase
  <2> HIDE DEF L, M, U
  <2>2. <<"distribute">> \o L \o <<"deactivate", "activate">> \in Seq(DeployPhase)
    BY <2>1
  <2> QED BY <2>1, <2>2
<1>3. ASSUME Given(options, "no-lock") = None /\ Given(options, "no-migration") = None
      PROVE  Ordered(p)
  <2>1. /\ Len(p) = 8 /\ p[1] = "distribute" /\ p[2] = "lock" /\ p[3] = "deactivate" /\ p[4] = "activate"
        /\ p[5] = "migrate" /\ p[6] = "targets" /\ p[7] = "coordinator" /\ p[8] = "unlock"
    BY <1>3 DEF Unless
  <2> HIDE DEF p
  <2> QED BY <1>2, <2>1 DEF Ordered
<1>4. ASSUME Given(options, "no-lock") = None /\ Given(options, "no-migration") # None
      PROVE  Ordered(p)
  <2>1. /\ Len(p) = 7 /\ p[1] = "distribute" /\ p[2] = "lock" /\ p[3] = "deactivate" /\ p[4] = "activate"
        /\ p[5] = "targets" /\ p[6] = "coordinator" /\ p[7] = "unlock"
    BY <1>4 DEF Unless
  <2> HIDE DEF p
  <2> QED BY <1>2, <2>1 DEF Ordered
<1>5. ASSUME Given(options, "no-lock") # None /\ Given(options, "no-migration") = None
      PROVE  Ordered(p)
  <2>1. /\ Len(p) = 6 /\ p[1] = "distribute" /\ p[2] = "deactivate" /\ p[3] = "activate" /\ p[4] = "migrate"
        /\ p[5] = "targets" /\ p[6] = "coordinator"
    BY <1>5 DEF Unless
  <2> HIDE DEF p
  <2> QED BY <1>2, <2>1 DEF Ordered
<1>6. ASSUME Given(options, "no-lock") # None /\ Given(options, "no-migration") # None
      PROVE  Ordered(p)
  <2>1. /\ Len(p) = 5 /\ p[1] = "distribute" /\ p[2] = "deactivate" /\ p[3] = "activate" /\ p[4] = "targets"
        /\ p[5] = "coordinator"
    BY <1>6 DEF Unless
  <2> HIDE DEF p
  <2> QED BY <1>2, <2>1 DEF Ordered
<1>7. Ordered(p) /\ p # <<>>
  <2>1. p[1] = "distribute" /\ Len(p) # 0
    BY DEF Unless
  <2> HIDE DEF p
  <2> QED BY <1>3, <1>4, <1>5, <1>6, <2>1
<1> QED BY <1>1, <1>7

LEMMA TailOrdered ==
  ASSUME NEW phases, Ordered(phases), phases # <<>>
  PROVE  \E rest :
           /\ rest = Tail(phases) /\ Ordered(rest)
           /\ Len(phases) > 1 => /\ rest # <<>> /\ Head(rest) = phases[2] /\ Last(rest) = Last(phases)
                                 /\ phases[1] # "unlock" /\ phases[2] # "distribute"
                                 /\ phases[2] = "lock" => phases[1] = "distribute"
           /\ Last(phases) = phases[Len(phases)] /\ Head(phases) = phases[1] /\ Len(phases) \in Nat \ {0}
<1>1. phases \in Seq(DeployPhase) /\ Len(phases) \in Nat \ {0}
  BY DEF Ordered
<1>2. PICK rest : rest = Tail(phases)
  OBVIOUS
<1>3. /\ rest \in Seq(DeployPhase) /\ Len(rest) = Len(phases) - 1
      /\ \A n \in 1 .. Len(rest) : rest[n] = phases[n + 1]
  BY <1>1, <1>2
<1>4. Ordered(rest)
  <2>1. \A n \in 1 .. Len(rest) : rest[n] = phases[n + 1] /\ n + 1 \in 2 .. Len(phases)
    BY <1>1, <1>3
  <2>2. Len(rest) \in Nat /\ Len(phases) = Len(rest) + 1
    BY <1>1, <1>3
  <2>3. \A n \in 1 .. Len(rest) : rest[n] # "distribute"
    BY <2>1 DEF Ordered
  <2>4. \A n \in 2 .. Len(rest) : rest[n] = "lock" => rest[n - 1] = "distribute"
    BY <2>1, <2>2 DEF Ordered
  <2>5. \A n \in 1 .. Len(rest) - 1 : rest[n] # "unlock"
    BY <2>1, <2>2 DEF Ordered
  <2>6. \A n \in 1 .. Len(rest) : rest[n] = "lock" => rest[Len(rest)] = "unlock"
    BY <2>1, <2>2 DEF Ordered
  <2> QED BY <1>3, <2>3, <2>4, <2>5, <2>6 DEF Ordered
<1>5. Last(phases) = phases[Len(phases)] /\ Head(phases) = phases[1]
  BY <1>1 DEF Last
<1>6. ASSUME Len(phases) > 1
      PROVE  /\ rest # <<>> /\ Head(rest) = phases[2] /\ Last(rest) = Last(phases)
             /\ phases[1] # "unlock" /\ phases[2] # "distribute"
             /\ phases[2] = "lock" => phases[1] = "distribute"
  <2>1. /\ 1 \in 1 .. Len(rest) /\ Len(rest) \in 1 .. Len(rest) /\ Len(rest) + 1 = Len(phases)
        /\ 1 \in 1 .. Len(phases) - 1 /\ 2 \in 2 .. Len(phases) /\ 2 - 1 = 1 /\ 1 + 1 = 2
    BY <1>1, <1>3, <1>6
  <2>2. rest[1] = phases[2] /\ rest[Len(rest)] = phases[Len(phases)]
    BY <1>3, <2>1
  <2>3. rest # <<>> /\ Head(rest) = rest[1] /\ Last(rest) = rest[Len(rest)]
    BY <1>3, <2>1 DEF Last
  <2>4. /\ phases[1] # "unlock" /\ phases[2] # "distribute"
        /\ phases[2] = "lock" => phases[1] = "distribute"
    BY <2>1 DEF Ordered
  <2> QED BY <1>5, <2>2, <2>3, <2>4
<1> QED BY <1>1, <1>2, <1>4, <1>5, <1>6

\* What main opens: nothing is acquired yet, and what runs is well.
LEMMA OpenJob ==
  ASSUME NEW command, NEW args, NEW file, NEW env, NEW asked, NEW calls
  PROVE  LET j == Open(command, args, file, env, asked, calls)
         IN  /\ DOMAIN j = JobFields
             /\ j.command = command /\ j.calls = calls
             /\ j.acquired = {} /\ j.astray = {} /\ j.ok
             /\ j.exit # "crashed"
             /\ Runs(j) => /\ j.phases = Phases(command, args) /\ Well(j.new)
                           /\ j.todo = Visits(Head(j.phases), j.new)
  BY DEF Open, Exit, Enter, Runs, JobFields

-----------------------------------------------------------------------------
(* What the end of a phase makes of a deployment.  mine are the targets    *)
(* that its user has locked, before those that were, or that a request was *)
(* still under way to, when it began.                                      *)

\* A deployment that runs: what it has locked depends on the phase it is in.
Proceeds(j) ==
    /\ Ordered(j.phases)
    /\ j.acquired \subseteq Owned(j)
    /\ j.acquired # {} => Last(j.phases) = "unlock" /\ Head(j.phases) # "distribute"
    /\ Head(j.phases) = "lock" =>
         /\ j.todo \subseteq Owned(j)
         /\ j.todo = {} => j.acquired = {}
         /\ j.ok => j.acquired \cup j.todo = Owned(j)
    /\ Head(j.phases) \notin {"lock", "unlock"} => j.acquired \in {{}, Owned(j)}
    /\ Head(j.phases) = "targets" => j.todo \subseteq Owned(j)

Accounts(j, mine, before) ==
    IF Runs(j)
    THEN IF Head(j.phases) = "unlock" THEN mine \subseteq before \cup j.astray \cup j.todo
         ELSE mine \subseteq before \cup j.acquired \cup j.astray
    ELSE j.exit # "crashed" => mine \subseteq j.astray \cup before

\* What holds of a deployment when a phase of it ends.
PhaseEnds(j, mine, before) ==
    /\ DOMAIN j = JobFields /\ Runs(j)
    /\ Ordered(j.phases)
    /\ j.acquired \subseteq Owned(j)
    /\ j.acquired # {} => Last(j.phases) = "unlock" /\ Head(j.phases) # "distribute"
    /\ Head(j.phases) # "unlock" => j.acquired \in {{}, Owned(j)}
    /\ IF Head(j.phases) = "unlock" THEN mine \subseteq before \cup j.astray
       ELSE mine \subseteq before \cup j.acquired \cup j.astray

\* A command keeps what it works on, and what it did not release.
Same(k, j) ==
    /\ DOMAIN k = JobFields /\ k.command = j.command /\ k.new = j.new /\ k.calls = j.calls
    /\ k.acquired = j.acquired /\ k.astray = j.astray /\ k.exit # "crashed"

LEMMA HeadUnlock == Head(<<"unlock">>) = "unlock"
  OBVIOUS

LEMMA EnterJob ==
  ASSUME NEW j, NEW phases, DOMAIN j = JobFields, j.exit = "none", phases # <<>>
  PROVE  LET k == Enter(j, phases)
         IN  /\ Same(k, j) /\ Runs(k) /\ k.phases = phases /\ k.todo = Visits(Head(phases), j.new)
             /\ k.ok = j.ok
  BY DEF Enter, JobFields, Same, Runs

LEMMA ExitJob ==
  ASSUME NEW j, NEW status, DOMAIN j = JobFields
  PROVE  LET k == Exit(j, status)
         IN  /\ DOMAIN k = JobFields /\ k.command = j.command /\ k.new = j.new /\ k.calls = j.calls
             /\ k.acquired = j.acquired /\ k.astray = j.astray
             /\ k.exit = status /\ k.phases = <<>>
  BY DEF Exit, JobFields

LEMMA SucceedJob ==
  ASSUME NEW j, NEW mine, NEW before, PhaseEnds(j, mine, before)
  PROVE  LET k == Succeed(j)
         IN  Same(k, j) /\ Accounts(k, mine, before) /\ (Runs(k) => Proceeds(k))
<1> DEFINE p == j.phases
<1>1. Ordered(p) /\ p # <<>> /\ DOMAIN j = JobFields /\ j.exit = "none"
  BY DEF PhaseEnds, Runs
<1>2. PICK rest :
        /\ rest = Tail(p) /\ Ordered(rest)
        /\ Len(p) > 1 => /\ rest # <<>> /\ Head(rest) = p[2] /\ Last(rest) = Last(p)
                         /\ p[1] # "unlock" /\ p[2] # "distribute"
                         /\ p[2] = "lock" => p[1] = "distribute"
        /\ Last(p) = p[Len(p)] /\ Head(p) = p[1] /\ Len(p) \in Nat \ {0}
  BY <1>1, TailOrdered
<1>3. CASE Len(p) = 1
  <2>1. Succeed(j) = Exit(j, "0")
    BY <1>3 DEF Succeed
  <2>2. mine \subseteq before \cup j.astray
    BY <1>2, <1>3 DEF PhaseEnds
  <2> QED BY <1>1, <2>1, <2>2, ExitJob DEF Same, Accounts, Runs
<1>4. CASE Len(p) > 1
  <2>1. Succeed(j) = Enter(j, rest)
    BY <1>2, <1>4 DEF Succeed
  <2> DEFINE k == Enter(j, rest)
  <2>2. /\ Same(k, j) /\ Runs(k) /\ k.phases = rest /\ k.todo = Visits(p[2], j.new)
        /\ Owned(k) = Owned(j) /\ Head(k.phases) = p[2] /\ Last(k.phases) = Last(p)
    <3> HIDE DEF p
    <3>1. DOMAIN j = JobFields /\ j.exit = "none" /\ rest # <<>>
      BY <1>1, <1>2, <1>4
    <3>2. /\ Same(k, j) /\ Runs(k) /\ k.phases = rest /\ k.todo = Visits(Head(rest), j.new)
      BY <3>1, EnterJob
    <3>3. Head(rest) = p[2] /\ Last(rest) = Last(p)
      BY <1>2, <1>4
    <3> HIDE DEF k
    <3> QED BY <3>2, <3>3 DEF Same, Owned
  <2>3. p[1] # "unlock" /\ p[2] # "distribute" /\ (p[2] = "lock" => p[1] = "distribute")
    BY <1>2, <1>4
  <2>4. j.acquired \in {{}, Owned(j)} /\ mine \subseteq before \cup j.acquired \cup j.astray
    BY <1>2, <2>3 DEF PhaseEnds
  <2>5. p[2] \in {"lock", "unlock", "targets"} => k.todo = Owned(j)
    BY <2>2 DEF Visits, Owned
  <2>6. p[2] = "lock" => k.acquired = {}
    BY <1>2, <2>2, <2>3 DEF PhaseEnds, Same
  <2> HIDE DEF k
  <2>7. Proceeds(k)
    BY <1>2, <2>2, <2>3, <2>4, <2>5, <2>6 DEF Proceeds, PhaseEnds, Same
  <2>8. Accounts(k, mine, before)
    BY <2>2, <2>4, <2>5 DEF Accounts, Same
  <2> QED BY <2>1, <2>2, <2>7, <2>8 DEF k
<1>5. Len(p) = 1 \/ Len(p) > 1
  <2>1. Len(p) \in Nat \ {0}
    BY <1>2
  <2>2. \A n \in Nat \ {0} : n = 1 \/ n > 1
    OBVIOUS
  <2> QED BY <2>1, <2>2, Zenon
<1> QED BY <1>3, <1>4, <1>5

\* A deployment that fails releases the locks that it has.
LEMMA FailJob ==
  ASSUME NEW j, NEW mine, NEW before, PhaseEnds(j, mine, before),
         Head(j.phases) = "lock" => j.acquired = {}
  PROVE  LET k == Fail(j)
         IN  Same(k, j) /\ Accounts(k, mine, before) /\ (Runs(k) => Proceeds(k))
<1> DEFINE p == j.phases
<1>1. Ordered(p) /\ p # <<>> /\ DOMAIN j = JobFields /\ j.exit = "none"
  BY DEF PhaseEnds, Runs
<1>2. Head(p) = p[1] /\ Last(p) = p[Len(p)] /\ Len(p) \in Nat \ {0}
  BY <1>1, TailOrdered
<1>3. CASE Last(p) = "unlock" /\ Len(p) > 1 /\ Head(p) \notin {"distribute", "lock"}
  <2> DEFINE e == Enter(j, <<"unlock">>)
             k == [e EXCEPT !.ok = FALSE]
  <2>1. Fail(j) = k
    BY <1>3 DEF Fail
  <2>2. <<"unlock">> # <<>> /\ Head(<<"unlock">>) = "unlock" /\ Last(<<"unlock">>) = "unlock"
    BY DEF Last
  <2>3. Ordered(<<"unlock">>)
    BY DEF Ordered, DeployPhase
  <2>4. Same(e, j) /\ Runs(e) /\ e.phases = <<"unlock">> /\ e.todo = Owned(j)
    BY <1>1, <2>2, EnterJob DEF Visits, Owned
  <2> HIDE DEF e
  <2>5. /\ Same(k, j) /\ Runs(k) /\ k.phases = <<"unlock">> /\ k.todo = Owned(j) /\ Owned(k) = Owned(j)
    BY <2>4 DEF Same, Runs, JobFields, Owned
  <2>6. p[1] # "unlock"
    BY <1>1, <1>2, <1>3 DEF Ordered
  <2> HIDE DEF k
  <2>7. Proceeds(k)
    BY <2>2, <2>3, <2>5 DEF Proceeds, PhaseEnds, Same
  <2>8. Accounts(k, mine, before)
    BY <1>2, <2>2, <2>5, <2>6 DEF Accounts, PhaseEnds, Same
  <2> QED BY <2>1, <2>5, <2>7, <2>8 DEF k
<1>4. CASE ~(Last(p) = "unlock" /\ Len(p) > 1 /\ Head(p) \notin {"distribute", "lock"})
  <2>1. Fail(j) = Exit(j, "1")
    BY <1>4 DEF Fail
  <2>2. mine \subseteq before \cup j.astray
    BY <1>2, <1>4 DEF PhaseEnds
  <2> QED BY <1>1, <2>1, <2>2, ExitJob DEF Same, Accounts, Runs
<1> QED BY <1>3, <1>4

-----------------------------------------------------------------------------
(* The invariant: what holds of every user's command. *)

Mine(u, l) == {t \in Target : l[t] = u}

\* The mappings of a manifest are on machines of its infrastructure.
Refers(j) == \A mapping \in j.new.service_mappings : mapping.target \in Targets(j)

\* A command that is not a deployment and has locks does nothing else.
Other(j) ==
    \/ j.acquired = {} /\ \E S : j.phases \in Seq(S) /\ "lock" \notin S
    \/ j.phases \in {<<"lock">>, <<"unlock">>}

Holding(u, j, forced, l) ==
    Head(j.phases) # "unlock" /\ ~forced => \A t \in j.acquired : l[t] = u

UserOK(u, j, g, l) ==
    /\ Formed(j) /\ NoDeployment(j.calls)
    /\ Runs(j) => /\ DOMAIN j = JobFields /\ Refers(j) /\ j.acquired \subseteq Target
                  /\ Holding(u, j, g.forced, l)
                  /\ j.command = "deploy" => Proceeds(j)
                  /\ j.command # "deploy" => Other(j)
    /\ j.command = "deploy" => Accounts(j, Mine(u, l), g.before)

\* What a command tells to run is never a deployment.
AdviceOK(told) == NoDeployment(told)

GhostFields == {"sound", "alone", "forced", "before"}

DeployInv ==
    /\ DOMAIN job = User /\ DOMAIN ghost = User /\ DOMAIN advice = User /\ DOMAIN lock = Target
    /\ \A u \in User :
         /\ UserOK(u, job[u], ghost[u], lock)
         /\ DOMAIN ghost[u] = GhostFields
         /\ AdviceOK(advice[u])

-----------------------------------------------------------------------------
(* The end of a phase, of any command. *)

Pending(u, j, g, l) ==
    /\ DOMAIN j = JobFields /\ Runs(j) /\ NoDeployment(j.calls) /\ Refers(j)
    /\ j.acquired \subseteq Target /\ Holding(u, j, g.forced, l)
    /\ j.command = "deploy" => PhaseEnds(j, Mine(u, l), g.before)
    /\ j.command # "deploy" => Other(j)

\* The phases of the other commands.
LEMMA OtherPhases ==
  ASSUME NEW command, NEW options, command # "deploy"
  PROVE  \/ \E S : Phases(command, options) \in Seq(S) /\ "lock" \notin S
         \/ Phases(command, options) = <<"lock">>
<1> DEFINE S == Phase \ {"lock"}
<1>1. ASSUME NEW option, NEW phase \in S
      PROVE  Unless(options, option, phase) \in Seq(S)
  <2> HIDE DEF S
  <2>1. <<phase>> \in Seq(S) /\ <<>> \in Seq(S)
    BY <1>1
  <2> QED BY <2>1 DEF Unless
<1>2. CASE command = "set"
  <2>1. /\ Unless(options, "no-target-profiles", "targets") \in Seq(S)
        /\ Unless(options, "no-coordinator-profile", "coordinator") \in Seq(S)
    BY <1>1 DEF Phase
  <2> HIDE DEF S
  <2>2. Phases(command, options) \in Seq(S)
    BY <1>2, <2>1 DEF Phases
  <2> QED BY <2>2 DEF S
<1>3. CASE command # "set"
  <2>1. \/ Phases(command, options) = <<"deactivate", "activate">>
        \/ \E phase \in Phase : Phases(command, options) = <<phase>>
    BY <1>3 DEF Phases, Phase
  <2>2. CASE Phases(command, options) = <<"deactivate", "activate">>
    <3>1. PICK T : T = {"deactivate", "activate"}
      OBVIOUS
    <3>2. <<"deactivate", "activate">> \in Seq(T) /\ "lock" \notin T
      BY <3>1
    <3> QED BY <2>2, <3>2
  <2>3. ASSUME NEW phase \in Phase, Phases(command, options) = <<phase>>
        PROVE  \/ \E T : Phases(command, options) \in Seq(T) /\ "lock" \notin T
               \/ Phases(command, options) = <<"lock">>
    <3>1. PICK T : T = {phase}
      OBVIOUS
    <3>2. <<phase>> \in Seq(T) /\ (phase # "lock" => "lock" \notin T)
      BY <3>1
    <3> QED BY <2>3, <3>2
  <2> QED BY <2>1, <2>2, <2>3
<1> QED BY <1>2, <1>3

LEMMA TailCalls ==
  ASSUME NEW calls, NoDeployment(calls), calls # <<>>
  PROVE  Head(calls).command # "deploy" /\ NoDeployment(Tail(calls))
<1>1. PICK S : calls \in Seq(S) /\ \A call \in S : call.command # "deploy"
  BY DEF NoDeployment
<1>2. Head(calls) \in S /\ Tail(calls) \in Seq(S)
  BY <1>1
<1> QED BY <1>1, <1>2 DEF NoDeployment

LEMMA FinishOther ==
  ASSUME NEW u, NEW j, NEW g, NEW l, Pending(u, j, g, l), j.command # "deploy"
  PROVE  UserOK(u, Succeed(j), g, l) /\ UserOK(u, Fail(j), g, l)
<1> DEFINE p == j.phases
<1>1. /\ DOMAIN j = JobFields /\ j.exit = "none" /\ p # <<>> /\ NoDeployment(j.calls) /\ Refers(j)
      /\ j.acquired \subseteq Target /\ Other(j)
  BY DEF Pending, Runs
<1>2. ASSUME NEW status
      PROVE  UserOK(u, Exit(j, status), g, l)
  BY <1>1, ExitJob DEF UserOK, Formed, Runs
<1>3. ASSUME NEW q, q # <<>>, j.acquired # {} => q = <<"unlock">>,
             q = <<"unlock">> \/ \E S : q \in Seq(S) /\ "lock" \notin S
      PROVE  /\ UserOK(u, Enter(j, q), g, l)
             /\ UserOK(u, [Enter(j, q) EXCEPT !.ok = FALSE], g, l)
  <2>1. PICK k : k = Enter(j, q)
    OBVIOUS
  <2>2. /\ Same(k, j) /\ Runs(k) /\ k.phases = q
    BY <1>1, <1>3, <2>1, EnterJob
  <2>3. PICK m : m = [k EXCEPT !.ok = FALSE]
    OBVIOUS
  <2>4. Same(m, j) /\ Runs(m) /\ m.phases = q
    BY <2>2, <2>3 DEF Same, Runs, JobFields
  <2>5. ASSUME NEW i, Same(i, j), i.phases = q, Runs(i)
        PROVE  UserOK(u, i, g, l)
    <3>1. Other(i) /\ i.command # "deploy" /\ NoDeployment(i.calls)
      BY <1>1, <1>3, <2>5 DEF Other, Same
    <3>2. Refers(i) /\ Formed(i) /\ i.acquired \subseteq Target
      BY <1>1, <2>5 DEF Refers, Targets, Same, Formed
    <3>3. Holding(u, i, g.forced, l)
      <4>1. CASE q = <<"unlock">>
        BY <4>1, <2>5 DEF Holding
      <4>2. CASE q # <<"unlock">>
        BY <4>2, <1>3, <2>5 DEF Holding, Same
      <4> QED BY <4>1, <4>2
    <3> QED BY <2>5, <3>1, <3>2, <3>3 DEF UserOK, Same
  <2> QED BY <2>1, <2>2, <2>3, <2>4, <2>5
<1>4. UserOK(u, Fail(j), g, l)
  <2>1. CASE Last(p) = "unlock" /\ Len(p) > 1 /\ Head(p) \notin {"distribute", "lock"}
    <3>1. Fail(j) = [Enter(j, <<"unlock">>) EXCEPT !.ok = FALSE]
      BY <2>1 DEF Fail
    <3> QED BY <1>3, <3>1
  <2>2. CASE ~(Last(p) = "unlock" /\ Len(p) > 1 /\ Head(p) \notin {"distribute", "lock"})
    <3>1. Fail(j) = Exit(j, "1")
      BY <2>2 DEF Fail
    <3> QED BY <1>2, <3>1
  <2> QED BY <2>1, <2>2
<1>5. UserOK(u, Succeed(j), g, l)
  <2>1. CASE Len(p) = 1
    <3>1. Succeed(j) = Exit(j, "0")
      BY <2>1 DEF Succeed
    <3> QED BY <1>2, <3>1
  <2>2. CASE Len(p) # 1
    <3>1. Succeed(j) = Enter(j, Tail(p))
      BY <2>2 DEF Succeed
    <3>2. p \notin {<<"lock">>, <<"unlock">>}
      BY <2>2
    <3>3. PICK S : j.acquired = {} /\ p \in Seq(S) /\ "lock" \notin S
      BY <1>1, <3>2 DEF Other
    <3>4. PICK q : q = Tail(p)
      OBVIOUS
    <3>5. q \in Seq(S) /\ q # <<>>
      <4>1. Len(p) \in Nat /\ Len(p) # 0 /\ Len(p) # 1
        BY <1>1, <2>2, <3>3
      <4>2. q \in Seq(S) /\ Len(q) = Len(p) - 1
        BY <1>1, <3>3, <3>4
      <4>3. \A n \in Nat : n # 0 /\ n # 1 => n - 1 # 0
        OBVIOUS
      <4>4. Len(q) # 0
        BY <4>1, <4>2, <4>3, Zenon
      <4>5. q # <<>>
        BY <4>4
      <4> QED BY <4>2, <4>5
    <3> QED BY <1>3, <3>1, <3>3, <3>4, <3>5
  <2> QED BY <2>1, <2>2
<1> QED BY <1>4, <1>5

LEMMA FinishDeployment ==
  ASSUME NEW u, NEW j, NEW g, NEW l, Pending(u, j, g, l), j.command = "deploy"
  PROVE  /\ UserOK(u, Succeed(j), g, l)
         /\ (Head(j.phases) = "lock" => j.acquired = {}) => UserOK(u, Fail(j), g, l)
<1>1. /\ NoDeployment(j.calls) /\ Refers(j) /\ j.acquired \subseteq Target
      /\ PhaseEnds(j, Mine(u, l), g.before) /\ Holding(u, j, g.forced, l)
  BY DEF Pending
<1>2. ASSUME NEW k, Same(k, j), Accounts(k, Mine(u, l), g.before), Runs(k) => Proceeds(k),
             Runs(k) => Holding(u, k, g.forced, l)
      PROVE  UserOK(u, k, g, l)
  BY <1>1, <1>2 DEF Same, UserOK, Formed, Refers, Targets
<1>3. ASSUME NEW k, Same(k, j), Runs(k), Proceeds(k), Head(j.phases) # "unlock"
      PROVE  Holding(u, k, g.forced, l)
  BY <1>1, <1>3 DEF Same, Holding
<1>4. UserOK(u, Succeed(j), g, l)
  <2>1. PICK k : k = Succeed(j)
    OBVIOUS
  <2>2. Same(k, j) /\ Accounts(k, Mine(u, l), g.before) /\ (Runs(k) => Proceeds(k))
    BY <1>1, <2>1, SucceedJob
  <2>3. Head(j.phases) = "unlock" => ~Runs(k)
    <3>1. ASSUME Head(j.phases) = "unlock"
          PROVE  Len(j.phases) = 1
      <4>1. Ordered(j.phases) /\ j.phases # <<>> /\ j.phases \in Seq(DeployPhase)
        BY <1>1 DEF PhaseEnds, Runs, Ordered
      <4>2. j.phases[1] = "unlock" /\ Len(j.phases) \in Nat \ {0}
        BY <3>1, <4>1
      <4>3. \A n \in Nat \ {0} : n # 1 => 1 \in 1 .. n - 1
        OBVIOUS
      <4>4. Len(j.phases) # 1 => 1 \in 1 .. Len(j.phases) - 1
        BY <4>2, <4>3, Zenon
      <4> QED BY <4>1, <4>2, <4>4 DEF Ordered
    <3>2. Len(j.phases) = 1 => k = Exit(j, "0")
      BY <2>1 DEF Succeed
    <3> QED BY <1>1, <3>1, <3>2, ExitJob DEF PhaseEnds, Runs
  <2> QED BY <1>2, <1>3, <2>1, <2>2, <2>3
<1>5. ASSUME Head(j.phases) = "lock" => j.acquired = {}
      PROVE  UserOK(u, Fail(j), g, l)
  <2>1. PICK k : k = Fail(j)
    OBVIOUS
  <2>2. Same(k, j) /\ Accounts(k, Mine(u, l), g.before) /\ (Runs(k) => Proceeds(k))
    BY <1>1, <1>5, <2>1, FailJob
  <2>3. Runs(k) => Head(k.phases) = "unlock"
    <3>1. CASE Last(j.phases) = "unlock" /\ Len(j.phases) > 1 /\ Head(j.phases) \notin {"distribute", "lock"}
      <4>1. PICK e : e = Enter(j, <<"unlock">>)
        OBVIOUS
      <4>2. k = [e EXCEPT !.ok = FALSE]
        BY <2>1, <3>1, <4>1 DEF Fail
      <4>3. DOMAIN j = JobFields /\ j.exit = "none"
        BY <1>1 DEF PhaseEnds, Runs
      <4>4. DOMAIN e = JobFields /\ e.phases = <<"unlock">>
        BY <4>1, <4>3, EnterJob DEF Same
      <4>5. DOMAIN k = JobFields /\ k.phases = e.phases
        BY <4>2, <4>4 DEF JobFields
      <4> QED BY <4>4, <4>5, HeadUnlock
    <3>2. CASE ~(Last(j.phases) = "unlock" /\ Len(j.phases) > 1 /\ Head(j.phases) \notin {"distribute", "lock"})
      <4>1. k = Exit(j, "1")
        BY <2>1, <3>2 DEF Fail
      <4> QED BY <1>1, <4>1, ExitJob DEF PhaseEnds, Runs
    <3> QED BY <3>1, <3>2
  <2>4. Runs(k) => Holding(u, k, g.forced, l)
    BY <2>3 DEF Holding
  <2> QED BY <1>2, <2>1, <2>2, <2>4
<1> QED BY <1>4, <1>5

-----------------------------------------------------------------------------
(* What a step of one user leaves of the others' commands. *)

LEMMA NoCalls == NoDeployment(<<>>)
<1>1. PICK S : S = {}
  OBVIOUS
<1>2. <<>> \in Seq(S) /\ \A call \in S : call.command # "deploy"
  BY <1>1
<1> QED BY <1>2 DEF NoDeployment

LEMMA EndedOK ==
  ASSUME NEW u, NEW j, NEW g, NEW l, UserOK(u, j, g, l)
  PROVE  UserOK(u, Ended(j), g, l)
<1>1. CASE j.exit = "none" \/ j.calls # <<>>
  BY <1>1 DEF Ended
<1>2. CASE ~(j.exit = "none" \/ j.calls # <<>>)
  <2>1. PICK k : k = Ended(j)
    OBVIOUS
  <2>2. /\ k.command = j.command /\ k.calls = <<>> /\ k.phases = <<>> /\ k.exit = j.exit
        /\ k.astray = j.astray /\ DOMAIN k = EndedFields
    BY <1>2, <2>1 DEF Ended, NoJob, EndedFields
  <2>3. NoDeployment(k.calls)
    BY <2>2, NoCalls
  <2> QED BY <1>2, <2>1, <2>2, <2>3 DEF UserOK, Accounts, Runs, Formed
<1> QED BY <1>1, <1>2

LEMMA AdviceNoDeployment ==
  ASSUME NEW j
  PROVE  AdviceOK(Advice(j))
<1>1. NoDeployment(<<>>)
  BY NoCalls
<1>2. ASSUME NEW a, a.command # "deploy"
      PROVE  NoDeployment(<<a>>)
  <2>1. PICK S : S = {a}
    OBVIOUS
  <2>2. <<a>> \in Seq(S) /\ \A call \in S : call.command # "deploy"
    BY <1>2, <2>1
  <2> QED BY <2>2 DEF NoDeployment
<1>3. ASSUME NEW a, NEW b, a.command # "deploy", b.command # "deploy"
      PROVE  NoDeployment(<<a, b>>)
  <2>1. PICK S : S = {a, b}
    OBVIOUS
  <2>2. <<a, b>> \in Seq(S) /\ \A call \in S : call.command # "deploy"
    BY <1>3, <2>1
  <2> QED BY <2>2 DEF NoDeployment
<1>4. ASSUME NEW command, NEW args, NEW file, command # "deploy"
      PROVE  Told(command, args, file).command # "deploy"
  BY <1>4 DEF Told
<1> QED BY <1>1, <1>2, <1>3, <1>4 DEF Advice, AdviceOK

\* A step leaves the locks and the past of another's command, or spoils it.
Spared(v) ==
    /\ DOMAIN ghost'[v] = GhostFields /\ ghost'[v].before = ghost[v].before
    /\ \A t \in Target : lock'[t] = v => lock[t] = v
    /\ ~ghost'[v].forced => ~ghost[v].forced /\ \A t \in Target : lock[t] = v => lock'[t] = v

LEMMA SparedOK ==
  ASSUME DeployInv, NEW v \in User, Spared(v), job'[v] = job[v]
  PROVE  UserOK(v, job[v], ghost'[v], lock')
<1> DEFINE j == job[v]
<1>1. UserOK(v, j, ghost[v], lock)
  BY DEF DeployInv
<1>2. Mine(v, lock') \subseteq Mine(v, lock)
  BY DEF Spared, Mine
<1>3. j.command = "deploy" => Accounts(j, Mine(v, lock'), ghost'[v].before)
  <2>1. PICK mine : mine = Mine(v, lock')
    OBVIOUS
  <2>2. PICK before : before = Mine(v, lock)
    OBVIOUS
  <2>3. j.command = "deploy" => Accounts(j, before, ghost[v].before)
    BY <1>1, <2>2 DEF UserOK
  <2>4. mine \subseteq before /\ ghost'[v].before = ghost[v].before
    BY <1>2, <2>1, <2>2 DEF Spared
  <2>5. j.command = "deploy" => Accounts(j, mine, ghost[v].before)
    BY <2>3, <2>4 DEF Accounts
  <2> QED BY <2>1, <2>4, <2>5
<1>4. Runs(j) => Holding(v, j, ghost'[v].forced, lock')
  BY <1>1 DEF UserOK, Holding, Spared
<1> QED BY <1>1, <1>3, <1>4 DEF UserOK

\* A step of one user keeps the invariant when it does so of that user's command.
LEMMA StepKeeps ==
  ASSUME DeployInv, NEW u \in User, NEW j, job' = [job EXCEPT ![u] = Ended(j)],
         UserOK(u, j, ghost'[u], lock'), DOMAIN ghost' = User, DOMAIN lock' = Target,
         DOMAIN advice' = User, \A v \in User \ {u} : advice'[v] = advice[v], AdviceOK(advice'[u]),
         \A v \in User \ {u} : Spared(v), DOMAIN ghost'[u] = GhostFields
  PROVE  DeployInv'
<1>1. DOMAIN job' = User /\ job'[u] = Ended(j) /\ \A v \in User \ {u} : job'[v] = job[v]
  BY DEF DeployInv
<1>2. UserOK(u, job'[u], ghost'[u], lock')
  BY <1>1, EndedOK
<1>3. ASSUME NEW v \in User \ {u}
      PROVE  UserOK(v, job'[v], ghost'[v], lock') /\ DOMAIN ghost'[v] = GhostFields /\ AdviceOK(advice'[v])
  BY <1>1, SparedOK DEF DeployInv, Spared
<1> QED BY <1>1, <1>2, <1>3 DEF DeployInv

LEMMA SetKeeps ==
  ASSUME DeployInv, NEW u \in User, NEW j, Set(u, j),
         UserOK(u, j, ghost'[u], lock'), DOMAIN ghost' = User, DOMAIN lock' = Target,
         \A v \in User \ {u} : Spared(v), DOMAIN ghost'[u] = GhostFields
  PROVE  DeployInv'
<1>1. /\ DOMAIN advice' = User /\ \A v \in User \ {u} : advice'[v] = advice[v]
      /\ AdviceOK(advice'[u])
  BY AdviceNoDeployment DEF Set, DeployInv
<1> QED BY <1>1, StepKeeps DEF Set

\* What is known of what others did, but not of locks removed by force.
LEMMA GhostKept ==
  ASSUME DeployInv, NEW u \in User, Untouched \/ \E spared : Spoils(u, spared)
  PROVE  /\ DOMAIN ghost' = User
         /\ \A v \in User : /\ DOMAIN ghost'[v] = GhostFields
                            /\ ghost'[v].before = ghost[v].before /\ ghost'[v].forced = ghost[v].forced
<1>1. CASE Untouched
  BY <1>1 DEF Untouched, DeployInv
<1>2. ASSUME NEW spared, Spoils(u, spared)
      PROVE  /\ DOMAIN ghost' = User
             /\ \A v \in User : /\ DOMAIN ghost'[v] = GhostFields
                                /\ ghost'[v].before = ghost[v].before /\ ghost'[v].forced = ghost[v].forced
  BY <1>2 DEF Spoils, DeployInv, GhostFields
<1> QED BY <1>1, <1>2

LEMMA GhostSame ==
  ASSUME DeployInv, NEW u \in User, NEW j, Set(u, j),
         Untouched \/ (\E spared : Spoils(u, spared)), lock' = lock,
         UserOK(u, j, ghost[u], lock)
  PROVE  DeployInv'
<1>1. /\ DOMAIN ghost' = User
      /\ \A v \in User : /\ DOMAIN ghost'[v] = GhostFields
                         /\ ghost'[v].before = ghost[v].before /\ ghost'[v].forced = ghost[v].forced
  BY GhostKept
<1>2. \A v \in User \ {u} : Spared(v)
  BY <1>1 DEF Spared
<1>3. UserOK(u, j, ghost'[u], lock')
  BY <1>1 DEF UserOK
<1>4. DOMAIN lock' = Target
  BY DEF DeployInv
<1> QED BY <1>1, <1>2, <1>3, <1>4, SetKeeps

-----------------------------------------------------------------------------
(* The actions. *)

\* The running command of a user, at the end of a phase that has no locks to take
\* or release.
LEMMA PendingNow ==
  ASSUME DeployInv, NEW u \in User, Running(u), Head(job[u].phases) \notin {"lock", "unlock"},
         NEW j, DOMAIN j = JobFields,
         \A field \in {"command", "calls", "new", "phases", "acquired", "astray", "exit"} :
            j[field] = job[u][field]
  PROVE  Pending(u, j, ghost[u], lock)
<1> DEFINE i == job[u]
<1>1. /\ UserOK(u, i, ghost[u], lock) /\ Runs(i)
  BY DEF DeployInv, Running, Runs
<1>2. /\ j.command = i.command /\ j.calls = i.calls /\ j.new = i.new /\ j.phases = i.phases
      /\ j.acquired = i.acquired /\ j.astray = i.astray /\ j.exit = i.exit
  OBVIOUS
<1>3. /\ Runs(j) /\ NoDeployment(j.calls) /\ Refers(j) /\ j.acquired \subseteq Target
      /\ Holding(u, j, ghost[u].forced, lock)
  BY <1>1, <1>2 DEF UserOK, Runs, Refers, Targets, Holding
<1>4. j.command = "deploy" => PhaseEnds(j, Mine(u, lock), ghost[u].before)
  BY <1>1, <1>2, <1>3 DEF UserOK, Proceeds, Accounts, PhaseEnds, Owned
<1>5. j.command # "deploy" => Other(j)
  BY <1>1, <1>2 DEF UserOK, Other
<1> QED BY <1>3, <1>4, <1>5 DEF Pending

LEMMA FinishOK ==
  ASSUME NEW u, NEW j, NEW g, NEW l, Pending(u, j, g, l)
  PROVE  /\ UserOK(u, Succeed(j), g, l)
         /\ (Head(j.phases) = "lock" => j.acquired = {}) => UserOK(u, Fail(j), g, l)
  BY FinishOther, FinishDeployment

\* The phases that are left at once.
LEMMA PhaseKeeps ==
  ASSUME DeployInv, NEW u \in User, Running(u), Head(job[u].phases) \notin {"lock", "unlock"},
         Succeeds(u) \/ (\E status : Fails(u, status)),
         Untouched \/ (\E spared : Spoils(u, spared)), lock' = lock
  PROVE  DeployInv'
<1>1. DOMAIN job[u] = JobFields
  BY DEF DeployInv, UserOK, Running, Runs
<1>2. CASE Succeeds(u)
  <2>1. Pending(u, job[u], ghost[u], lock)
    BY <1>1, PendingNow
  <2> QED BY <1>2, <2>1, FinishOK, GhostSame DEF Succeeds
<1>3. ASSUME NEW status, Fails(u, status)
      PROVE  DeployInv'
  <2>1. PICK j : j = [job[u] EXCEPT !.status = status]
    OBVIOUS
  <2>2. Pending(u, j, ghost[u], lock)
    BY <1>1, <2>1, PendingNow DEF JobFields
  <2>3. j.phases = job[u].phases
    BY <1>1, <2>1 DEF JobFields
  <2> QED BY <1>3, <2>1, <2>2, <2>3, FinishOK, GhostSame DEF Fails
<1> QED BY <1>2, <1>3

LEMMA WorkKeeps ==
  ASSUME DeployInv, NEW u \in User,
         Distribute(u) \/ Deactivate(u) \/ Activate(u) \/ MigrateData(u) \/ SetCoordinator(u)
  PROVE  DeployInv'
<1>1. Running(u) /\ Head(job[u].phases) \notin {"lock", "unlock"}
  BY DEF Distribute, Deactivate, Activate, MigrateData, SetCoordinator, At
<1>2. Succeeds(u) \/ (\E status : Fails(u, status))
  BY DEF Distribute, Deactivate, Activate, MigrateData, SetCoordinator
<1>3. lock' = lock
  BY DEF Distribute, Deactivate, Activate, MigrateData, SetCoordinator, world
<1>4. Untouched \/ (\E spared : Spoils(u, spared))
  BY DEF Distribute, Deactivate, Activate, MigrateData, SetCoordinator, Touches
<1> QED BY <1>1, <1>2, <1>3, <1>4, PhaseKeeps

\* A target that is visited without its lock being taken or released.
LEMMA VisitedOK ==
  ASSUME DeployInv, NEW u \in User, Running(u), Head(job[u].phases) \notin {"lock", "unlock"},
         NEW j, DOMAIN j = JobFields,
         \A field \in JobFields \ {"profiles"} : j[field] = job[u][field],
         NEW t, NEW ok
  PROVE  UserOK(u, Visited(j, t, ok), ghost[u], lock)
<1>1. PICK k : k = [j EXCEPT !.todo = @ \ {t}, !.ok = @ /\ ok]
  OBVIOUS
<1>2. /\ DOMAIN k = JobFields /\ k.todo \subseteq job[u].todo
      /\ \A field \in JobFields \ {"profiles", "todo", "ok"} : k[field] = job[u][field]
  BY <1>1 DEF JobFields
<1>3. Pending(u, k, ghost[u], lock)
  BY <1>2, PendingNow DEF JobFields
<1>4. k.phases = job[u].phases
  BY <1>2 DEF JobFields
<1>5. CASE k.todo = {}
  <2>1. Visited(j, t, ok) = EndVisits(k)
    BY <1>1, <1>5 DEF Visited
  <2> QED BY <1>3, <1>4, <2>1, FinishOK DEF EndVisits
<1>6. CASE k.todo # {}
  <2>1. Visited(j, t, ok) = k
    BY <1>1, <1>6 DEF Visited
  <2>2. UserOK(u, job[u], ghost[u], lock) /\ Runs(job[u])
    BY DEF DeployInv, Running, Runs
  <2>3. /\ k.command = job[u].command /\ k.new = job[u].new /\ k.acquired = job[u].acquired
        /\ k.astray = job[u].astray
    BY <1>2 DEF JobFields
  <2>4. k.command = "deploy" => Proceeds(k)
    BY <1>2, <1>4, <2>2, <2>3 DEF UserOK, Proceeds, Owned
  <2>5. k.command = "deploy" => Accounts(k, Mine(u, lock), ghost[u].before)
    BY <1>3, <1>4, <2>2, <2>3 DEF Pending, Accounts, UserOK
  <2> QED BY <1>3, <2>1, <2>4, <2>5 DEF UserOK, Pending, Formed
<1> QED BY <1>5, <1>6

LEMMA VisitKeeps ==
  ASSUME DeployInv, NEW u \in User, NEW t \in Target,
         SetTarget(u, t) \/ CollectGarbage(u, t) \/ CaptureTarget(u, t)
  PROVE  DeployInv'
<1>1. Running(u) /\ Head(job[u].phases) \notin {"lock", "unlock"}
  BY DEF SetTarget, CollectGarbage, CaptureTarget, At
<1>2. DOMAIN job[u] = JobFields
  BY <1>1 DEF DeployInv, UserOK, Running, Runs
<1>3. \E j, ok : /\ DOMAIN j = JobFields /\ \A field \in JobFields \ {"profiles"} : j[field] = job[u][field]
                 /\ Set(u, Visited(j, t, ok))
  <2>1. CASE \E ok : Set(u, Visited(job[u], t, ok))
    BY <1>2, <2>1
  <2>2. ASSUME NEW profiles, NEW ok, Set(u, Visited([job[u] EXCEPT !.profiles = profiles], t, ok))
        PROVE  \E j : /\ DOMAIN j = JobFields /\ \A field \in JobFields \ {"profiles"} : j[field] = job[u][field]
                      /\ Set(u, Visited(j, t, ok))
    <3>1. PICK j : j = [job[u] EXCEPT !.profiles = profiles]
      OBVIOUS
    <3> QED BY <1>2, <2>2, <3>1
  <2> QED BY <2>1, <2>2 DEF SetTarget, CollectGarbage, CaptureTarget
<1>4. PICK j, ok : /\ DOMAIN j = JobFields /\ \A field \in JobFields \ {"profiles"} : j[field] = job[u][field]
                   /\ Set(u, Visited(j, t, ok))
  BY <1>3
<1>5. UserOK(u, Visited(j, t, ok), ghost[u], lock)
  BY <1>1, <1>4, VisitedOK
<1>6. lock' = lock
  BY DEF SetTarget, CollectGarbage, CaptureTarget
<1>7. Untouched \/ (\E spared : Spoils(u, spared))
  BY DEF SetTarget, CollectGarbage, CaptureTarget, Touches
<1> QED BY <1>4, <1>5, <1>6, <1>7, GhostSame

\* Commands that end at once, and commands that are killed.
LEMMA EndKeeps ==
  ASSUME DeployInv, NEW u \in User,
         ConvertManifest(u) \/ CompareManifest(u) \/ Elsewhere(u) \/ Crash(u)
  PROVE  DeployInv'
<1>1. Running(u) /\ Untouched /\ lock' = lock
  BY DEF ConvertManifest, CompareManifest, Elsewhere, Crash, At, world
<1>2. /\ DOMAIN job[u] = JobFields /\ NoDeployment(job[u].calls)
      /\ UserOK(u, job[u], ghost[u], lock) /\ Runs(job[u])
  BY <1>1 DEF DeployInv, UserOK, Running, Runs
<1>3. ASSUME Head(job[u].phases) \in {"convert", "compare", "elsewhere"}, NEW status, Set(u, Exit(job[u], status))
      PROVE  DeployInv'
  <2>1. job[u].command # "deploy"
    <3>1. Ordered(job[u].phases) => Head(job[u].phases) \in DeployPhase
      BY <1>2 DEF Ordered, Runs
    <3> QED BY <1>2, <1>3, <3>1 DEF UserOK, Proceeds, DeployPhase
  <2>2. UserOK(u, Exit(job[u], status), ghost[u], lock)
    BY <1>2, <2>1, ExitJob DEF UserOK, Formed, Runs
  <2> QED BY <1>1, <1>3, <2>2, GhostSame
<1>4. CASE Crash(u)
  <2>1. PICK e, k : e = Exit(job[u], "crashed") /\ k = [e EXCEPT !.calls = <<>>]
    OBVIOUS
  <2>2. DOMAIN k = JobFields /\ k.exit = "crashed" /\ k.calls = <<>> /\ k.phases = <<>>
    <3>1. DOMAIN e = JobFields /\ e.exit = "crashed" /\ e.phases = <<>>
      BY <1>2, <2>1, ExitJob
    <3> QED BY <2>1, <3>1 DEF JobFields
  <2>3. UserOK(u, k, ghost[u], lock)
    BY <2>2, NoCalls DEF UserOK, Formed, Runs, Accounts
  <2> QED BY <1>1, <1>4, <2>1, <2>3, GhostSame DEF Crash
<1>5. CASE ConvertManifest(u) \/ CompareManifest(u) \/ Elsewhere(u)
  <2>1. Head(job[u].phases) \in {"convert", "compare", "elsewhere"}
    BY <1>5 DEF ConvertManifest, CompareManifest, Elsewhere, At
  <2>2. \E status : Set(u, Exit(job[u], status))
    <3>1. CASE ConvertManifest(u)
      BY <3>1 DEF ConvertManifest
    <3>2. CASE CompareManifest(u)
      BY <3>2 DEF CompareManifest
    <3>3. CASE Elsewhere(u)
      BY <3>3 DEF Elsewhere
    <3> QED BY <1>5, <3>1, <3>2, <3>3
  <2> QED BY <1>3, <2>1, <2>2
<1> QED BY <1>4, <1>5

\* A command begins with nothing acquired.
LEMMA OpenOK ==
  ASSUME NEW command, NEW args, NEW file, NEW env, NEW asked, NEW calls, NoDeployment(calls),
         NEW u, NEW g, NEW l, command = "deploy" => Mine(u, l) \subseteq g.before
  PROVE  UserOK(u, Open(command, args, file, env, asked, calls), g, l)
<1>1. PICK j : j = Open(command, args, file, env, asked, calls)
  OBVIOUS
<1>2. /\ DOMAIN j = JobFields /\ j.command = command /\ j.calls = calls
      /\ j.acquired = {} /\ j.astray = {} /\ j.ok /\ j.exit # "crashed"
      /\ Runs(j) => /\ j.phases = Phases(command, args) /\ Well(j.new)
                    /\ j.todo = Visits(Head(j.phases), j.new)
  BY <1>1, OpenJob
<1>3. Runs(j) => Refers(j)
  BY <1>2 DEF Well, check_manifest, check_mapping_references, Refers, Targets
<1>4. Holding(u, j, g.forced, l)
  BY <1>2 DEF Holding
<1>5. ASSUME command = "deploy", Runs(j)
      PROVE  Proceeds(j)
  <2>1. Ordered(j.phases)
    BY <1>2, <1>5, DeployPhases
  <2>2. Head(j.phases) \in {"lock", "targets"} => j.todo = Owned(j)
    BY <1>2, <1>5 DEF Visits, Owned
  <2> QED BY <1>2, <2>1, <2>2 DEF Proceeds
<1>6. ASSUME command # "deploy", Runs(j)
      PROVE  Other(j)
  BY <1>2, <1>6, OtherPhases DEF Other
<1>7. command = "deploy" => Accounts(j, Mine(u, l), g.before)
  BY <1>2 DEF Accounts
<1> QED BY <1>1, <1>2, <1>3, <1>4, <1>5, <1>6, <1>7 DEF UserOK, Formed

\* The scripts call disnix-deploy first, if they do.
LEMMA CallsOK ==
  ASSUME NEW r, Calls(r) # <<>>
  PROVE  NoDeployment(Tail(Calls(r)))
<1>1. ASSUME NEW a
      PROVE  NoDeployment(Tail(<<a>>))
  <2>1. Tail(<<a>>) = <<>>
    OBVIOUS
  <2> QED BY <2>1, NoCalls
<1>2. ASSUME NEW a, NEW b, b.command # "deploy"
      PROVE  NoDeployment(Tail(<<a, b>>))
  <2>1. PICK S : S = {b}
    OBVIOUS
  <2>2. Tail(<<a, b>>) \in Seq(S) /\ \A call \in S : call.command # "deploy"
    BY <1>2, <2>1
  <2> QED BY <2>2 DEF NoDeployment
<1>3. ASSUME NEW a, NEW b, NEW c, b.command # "deploy", c.command # "deploy"
      PROVE  NoDeployment(Tail(<<a, b, c>>))
  <2>1. PICK S : S = {b, c}
    OBVIOUS
  <2>2. Tail(<<a, b, c>>) \in Seq(S) /\ \A call \in S : call.command # "deploy"
    BY <1>3, <2>1
  <2> QED BY <2>2 DEF NoDeployment
<1>4. ASSUME NEW command, NEW args
      PROVE  Call(command, args).command = command
  BY DEF Call
<1>5. CASE r.script = "disnix-env"
  BY <1>1, <1>5 DEF Calls, disnix_env, Script
<1>6. CASE r.script = "disnix-reconstruct"
  BY <1>3, <1>4, <1>6 DEF Calls, disnix_reconstruct, Script
<1>7. CASE r.script = "disnix-convert"
  BY <1>2, <1>4, <1>7 DEF Calls, disnix_convert, Script
<1>8. CASE r.script = "disnix-delegate"
  BY <1>1, <1>8 DEF Calls, disnix_delegate, Script
<1>9. CASE r.script \notin {"disnix-env", "disnix-reconstruct", "disnix-convert", "disnix-delegate"}
  BY <1>1, <1>9 DEF Calls
<1> QED BY <1>5, <1>6, <1>7, <1>8, <1>9

LEMMA RequestKeeps ==
  ASSUME DeployInv, NEW u \in User, Request(u)
  PROVE  DeployInv'
<1>1. PICK r, file : Calls(r) # <<>> /\
        Begins(u, Open(Head(Calls(r)).command, Head(Calls(r)).args, file, r.env, r.asked, Tail(Calls(r))))
  BY DEF Request
<1>2. PICK j : j = Open(Head(Calls(r)).command, Head(Calls(r)).args, file, r.env, r.asked, Tail(Calls(r)))
  OBVIOUS
<1>3. Begins(u, j)
  BY <1>1, <1>2
<1>4. /\ DOMAIN ghost' = User /\ Mine(u, lock) \subseteq ghost'[u].before /\ DOMAIN ghost'[u] = GhostFields
      /\ \A v \in User \ {u} : ghost'[v] = ghost[v]
  BY <1>3 DEF Begins, DeployInv, Mine, Locks, GhostFields
<1>5. lock' = lock /\ DOMAIN lock' = Target
  BY <1>3 DEF Begins, DeployInv
<1>6. DOMAIN advice' = User /\ (\A v \in User \ {u} : advice'[v] = advice[v]) /\ AdviceOK(advice'[u])
  BY <1>3, NoCalls DEF Begins, DeployInv, AdviceOK
<1>7. UserOK(u, j, ghost'[u], lock')
  BY <1>1, <1>2, <1>4, <1>5, CallsOK, OpenOK
<1>8. \A v \in User \ {u} : Spared(v)
  BY <1>4, <1>5 DEF Spared, DeployInv
<1>9. job' = [job EXCEPT ![u] = Ended(j)]
  BY <1>3 DEF Begins
<1> QED BY <1>4, <1>5, <1>6, <1>7, <1>8, <1>9, StepKeeps

LEMMA FollowAdviceKeeps ==
  ASSUME DeployInv, NEW u \in User, FollowAdvice(u)
  PROVE  DeployInv'
<1>1. PICK a : a = Head(advice[u])
  OBVIOUS
<1>2. a.command # "deploy" /\ NoDeployment(Tail(advice[u]))
  BY <1>1, TailCalls DEF DeployInv, AdviceOK, FollowAdvice
<1>3. PICK j : j = Open(a.command, a.args, a.file, job[u].env, a.args, <<>>)
  OBVIOUS
<1>4. job' = [job EXCEPT ![u] = Ended(j)]
  BY <1>1, <1>3 DEF FollowAdvice
<1>5. UserOK(u, j, ghost'[u], lock')
  BY <1>2, <1>3, NoCalls, OpenOK
<1>6. /\ DOMAIN ghost' = User /\ DOMAIN ghost'[u] = GhostFields
      /\ \A v \in User \ {u} : ghost'[v] = ghost[v]
  BY DEF FollowAdvice, DeployInv, GhostFields
<1>7. /\ DOMAIN advice' = User /\ (\A v \in User \ {u} : advice'[v] = advice[v]) /\ AdviceOK(advice'[u])
  BY <1>2 DEF FollowAdvice, DeployInv, AdviceOK
<1>8. lock' = lock /\ DOMAIN lock' = Target
  BY DEF FollowAdvice, DeployInv, world
<1>9. \A v \in User \ {u} : Spared(v)
  BY <1>6, <1>8 DEF Spared, DeployInv
<1> QED BY <1>4, <1>5, <1>6, <1>7, <1>8, <1>9, StepKeeps

LEMMA NextCallKeeps ==
  ASSUME DeployInv, NEW u \in User, NextCall(u)
  PROVE  DeployInv'
<1> DEFINE i == job[u]
<1>1. /\ UserOK(u, i, ghost[u], lock) /\ i.calls # <<>> /\ ~Runs(i) /\ Untouched /\ lock' = lock
  BY DEF NextCall, DeployInv, Running, Runs, world
<1>2. Head(i.calls).command # "deploy" /\ NoDeployment(Tail(i.calls))
  BY <1>1, TailCalls DEF UserOK
<1>3. CASE GoesOn(i)
  <2>1. PICK j : j = Open(Head(i.calls).command, Head(i.calls).args, Printed(i), i.env, i.asked, Tail(i.calls))
    OBVIOUS
  <2>2. UserOK(u, j, ghost[u], lock)
    BY <1>2, <2>1, OpenOK
  <2>3. Set(u, j)
    BY <1>3, <2>1 DEF NextCall
  <2> QED BY <1>1, <2>2, <2>3, GhostSame
<1>4. CASE ~GoesOn(i)
  <2>1. PICK j : j = [i EXCEPT !.calls = <<>>]
    OBVIOUS
  <2>2. DOMAIN i = JobFields
    BY <1>1 DEF UserOK, Formed
  <2>3. /\ DOMAIN j = JobFields /\ j.calls = <<>> /\ j.command = i.command /\ j.exit = i.exit
        /\ j.phases = i.phases /\ j.astray = i.astray
    BY <2>1, <2>2 DEF JobFields
  <2>4. UserOK(u, j, ghost[u], lock)
    BY <1>1, <2>3, NoCalls DEF UserOK, Formed, Runs, Accounts
  <2>5. Set(u, j)
    BY <1>4, <2>1 DEF NextCall
  <2> QED BY <1>1, <2>4, <2>5, GhostSame
<1> QED BY <1>3, <1>4

-----------------------------------------------------------------------------
(* Locks are taken and released. *)

\* A target was locked, or not.
LEMMA AfterLockingOK ==
  ASSUME NEW u, NEW k, NEW g, NEW l,
         DOMAIN k = JobFields, Runs(k), NoDeployment(k.calls), Refers(k), Head(k.phases) = "lock",
         k.acquired \subseteq Target, Holding(u, k, g.forced, l),
         k.command = "deploy" =>
           /\ Ordered(k.phases) /\ k.acquired \cup k.todo \subseteq Owned(k)
           /\ k.acquired # {} => Last(k.phases) = "unlock"
           /\ k.ok => k.acquired \cup k.todo = Owned(k)
           /\ Mine(u, l) \subseteq g.before \cup k.acquired \cup k.astray,
         k.command # "deploy" => k.phases = <<"lock">>
  PROVE  UserOK(u, AfterLocking(k), g, l)
<1>1. CASE k.todo # {}
  <2>1. AfterLocking(k) = k
    BY <1>1 DEF AfterLocking
  <2> QED BY <1>1, <2>1 DEF UserOK, Proceeds, Accounts, Other, Formed
<1>2. CASE k.todo = {} /\ k.ok
  <2>1. AfterLocking(k) = Succeed(k)
    BY <1>2 DEF AfterLocking
  <2>2. k.command = "deploy" => PhaseEnds(k, Mine(u, l), g.before)
    BY <1>2 DEF PhaseEnds
  <2>3. Pending(u, k, g, l)
    BY <2>2 DEF Pending, Other
  <2> QED BY <2>1, <2>3, FinishOK
<1>3. CASE k.todo = {} /\ ~k.ok /\ k.acquired = {}
  <2>1. AfterLocking(k) = Exit(k, "1")
    BY <1>3 DEF AfterLocking
  <2>2. PICK e : e = Exit(k, "1")
    OBVIOUS
  <2>3. /\ DOMAIN e = JobFields /\ e.command = k.command /\ e.calls = k.calls /\ e.exit = "1" /\ e.phases = <<>>
        /\ e.astray = k.astray
    BY <2>2, ExitJob
  <2>4. e.command = "deploy" => Accounts(e, Mine(u, l), g.before)
    BY <1>3, <2>3 DEF Accounts, Runs
  <2> QED BY <2>1, <2>2, <2>3, <2>4 DEF UserOK, Formed, Runs
<1>4. CASE k.todo = {} /\ ~k.ok /\ k.acquired # {}
  <2>1. PICK i : i = [k EXCEPT !.phases = <<"unlock">>, !.todo = k.acquired]
    OBVIOUS
  <2>2. AfterLocking(k) = i
    BY <1>4, <2>1 DEF AfterLocking
  <2>3. /\ DOMAIN i = JobFields /\ i.phases = <<"unlock">> /\ i.todo = k.acquired /\ i.acquired = k.acquired
        /\ i.command = k.command /\ i.calls = k.calls /\ i.new = k.new /\ i.exit = k.exit
        /\ i.astray = k.astray
    BY <2>1 DEF JobFields
  <2>4. <<"unlock">> # <<>> /\ Head(<<"unlock">>) = "unlock" /\ Last(<<"unlock">>) = "unlock"
    BY DEF Last
  <2>5. Ordered(<<"unlock">>)
    BY DEF Ordered, DeployPhase
  <2>6. Runs(i) /\ Refers(i) /\ Owned(i) = Owned(k) /\ Holding(u, i, g.forced, l)
    BY <2>3, <2>4 DEF Runs, Refers, Targets, Owned, Holding
  <2>7. k.command = "deploy" => Proceeds(i) /\ Accounts(i, Mine(u, l), g.before)
    BY <2>3, <2>4, <2>5, <2>6 DEF Proceeds, Accounts
  <2> QED BY <2>2, <2>3, <2>6, <2>7 DEF UserOK, Formed, Other
<1> QED BY <1>1, <1>2, <1>3, <1>4

\* How a request to lock a target ends, for the command that made it.
Asks(u, t, k) ==
    LET i == job[u] IN
    /\ DOMAIN k = JobFields /\ k.todo = i.todo \ {t}
    /\ \A field \in JobFields \ {"todo", "acquired", "astray", "ok"} : k[field] = i[field]
    /\ k.phases = i.phases /\ k.calls = i.calls /\ k.new = i.new /\ k.command = i.command /\ k.exit = i.exit
    /\ k.ok = i.ok \/ k.ok = FALSE
    /\ \/ /\ lock[t] = None /\ lock' = [lock EXCEPT ![t] = u] /\ late' = late
          /\ k.acquired = i.acquired \cup {t} /\ k.astray = i.astray
       \/ /\ lock' = lock /\ late' = late
          /\ k.acquired = i.acquired /\ k.astray = i.astray /\ k.ok = FALSE
       \/ /\ lock' = lock /\ late' = late \cup {<<"lock", u, t>>}
          /\ k.acquired = i.acquired /\ k.astray = i.astray \cup {t} /\ k.ok = FALSE

LEMMA LockOutcomes ==
  ASSUME NEW u, NEW t, DOMAIN job[u] = JobFields, LockTarget(u, t)
  PROVE  \E k : Asks(u, t, k) /\ Set(u, AfterLocking(k))
<1> DEFINE i == job[u]
<1>1. PICK j, refused : j = [i EXCEPT !.todo = @ \ {t}] /\ refused = [j EXCEPT !.ok = FALSE]
  OBVIOUS
<1>2. /\ DOMAIN j = JobFields /\ j.todo = i.todo \ {t}
      /\ \A field \in JobFields \ {"todo"} : j[field] = i[field]
      /\ DOMAIN refused = JobFields /\ refused.todo = i.todo \ {t} /\ refused.ok = FALSE
      /\ \A field \in JobFields \ {"todo", "ok"} : refused[field] = i[field]
  BY <1>1 DEF JobFields
<1>3. PICK k1, k2, k3 :
        /\ k1 = [j EXCEPT !.acquired = @ \cup {t}] /\ k2 = [refused EXCEPT !.acquired = @ \cup {t}]
        /\ k3 = [refused EXCEPT !.astray = @ \cup {t}]
  OBVIOUS
<1>4. \/ /\ lock[t] = None /\ lock' = [lock EXCEPT ![t] = u] /\ late' = late
         /\ Set(u, AfterLocking(k1)) \/ Set(u, AfterLocking(k2))
      \/ lock' = lock /\ late' = late /\ Set(u, AfterLocking(refused))
      \/ lock' = lock /\ late' = late \cup {<<"lock", u, t>>} /\ Set(u, AfterLocking(k3))
  BY <1>1, <1>3 DEF LockTarget, Free
<1>5. ASSUME NEW k \in {k1, k2}, lock[t] = None, lock' = [lock EXCEPT ![t] = u], late' = late
      PROVE  Asks(u, t, k)
  <2>1. CASE k = k1
    BY <1>2, <1>3, <1>5, <2>1 DEF Asks, JobFields
  <2>2. CASE k = k2
    BY <1>2, <1>3, <1>5, <2>2 DEF Asks, JobFields
  <2> QED BY <2>1, <2>2
<1>6. ASSUME lock' = lock, late' = late
      PROVE  Asks(u, t, refused)
  BY <1>2, <1>6 DEF Asks, JobFields
<1>7. ASSUME lock' = lock, late' = late \cup {<<"lock", u, t>>}
      PROVE  Asks(u, t, k3)
  BY <1>2, <1>3, <1>7 DEF Asks, JobFields
<1> QED BY <1>4, <1>5, <1>6, <1>7

LEMMA LockKeeps ==
  ASSUME DeployInv, NEW u \in User, NEW t \in Target, LockTarget(u, t)
  PROVE  DeployInv'
<1> DEFINE i == job[u]
<1>1. /\ Running(u) /\ Head(i.phases) = "lock" /\ t \in i.todo /\ Untouched
  BY DEF LockTarget, At
<1>2. /\ DOMAIN i = JobFields /\ NoDeployment(i.calls) /\ Runs(i)
      /\ UserOK(u, i, ghost[u], lock)
  BY <1>1 DEF DeployInv, UserOK, Running, Runs
<1>3. PICK k : Asks(u, t, k) /\ Set(u, AfterLocking(k))
  BY <1>2, LockOutcomes
<1>4. DOMAIN lock = Target /\ DOMAIN lock' = Target
  BY <1>3 DEF DeployInv, Asks
<1>5. /\ \A s \in Target : lock'[s] = lock[s] \/ (s = t /\ lock[t] = None /\ lock'[t] = u)
  BY <1>3, <1>4 DEF Asks
<1>6. /\ DOMAIN ghost' = User
      /\ \A v \in User : /\ DOMAIN ghost'[v] = GhostFields
                         /\ ghost'[v].before = ghost[v].before /\ ghost'[v].forced = ghost[v].forced
  BY <1>1, GhostKept
<1>7. \A v \in User \ {u} : Spared(v)
  BY <1>5, <1>6, NoneIsNoUser DEF Spared
<1>8. /\ DOMAIN k = JobFields /\ Runs(k) /\ k.phases = i.phases /\ k.calls = i.calls /\ k.new = i.new
      /\ k.command = i.command /\ k.todo = i.todo \ {t} /\ i.astray \subseteq k.astray
      /\ \/ k.acquired = i.acquired \cup {t} /\ (k.ok => i.ok) /\ lock'[t] = u
         \/ k.acquired = i.acquired /\ ~k.ok /\ lock' = lock
  BY <1>2, <1>3, <1>4 DEF Asks, Runs
<1>9. /\ Refers(k) /\ k.acquired \subseteq Target /\ Holding(u, k, ghost'[u].forced, lock')
  <2>1. Refers(k) /\ k.acquired \subseteq Target
    BY <1>2, <1>8 DEF UserOK, Refers, Targets
  <2>2. ASSUME ~ghost'[u].forced, NEW s \in k.acquired
        PROVE  lock'[s] = u
    BY <1>1, <1>2, <1>5, <1>6, <1>8, <2>1, <2>2, NoneIsNoUser DEF UserOK, Holding
  <2> QED BY <2>1, <2>2 DEF Holding
<1>10. Mine(u, lock') \subseteq Mine(u, lock) \cup k.acquired
  BY <1>5, <1>8 DEF Mine
<1>11. ASSUME k.command = "deploy"
       PROVE  /\ Ordered(k.phases) /\ k.acquired \cup k.todo \subseteq Owned(k)
              /\ k.acquired # {} => Last(k.phases) = "unlock"
              /\ k.ok => k.acquired \cup k.todo = Owned(k)
              /\ Mine(u, lock') \subseteq ghost'[u].before \cup k.acquired \cup k.astray
  <2>1. Proceeds(i) /\ Accounts(i, Mine(u, lock), ghost[u].before)
    BY <1>2, <1>8, <1>11 DEF UserOK
  <2>2. Ordered(k.phases) /\ Last(k.phases) = "unlock"
    <3>1. Ordered(i.phases) /\ i.phases # <<>>
      BY <1>2, <2>1 DEF Proceeds, Runs
    <3>2. PICK n : n = Len(i.phases)
      OBVIOUS
    <3>3. n \in Nat \ {0} /\ i.phases[1] = "lock" /\ Last(i.phases) = i.phases[n] /\ 1 \in 1 .. n
      BY <1>1, <3>1, <3>2 DEF Ordered, Last
    <3> QED BY <1>8, <3>1, <3>2, <3>3 DEF Ordered
  <2>3. /\ i.acquired \cup i.todo \subseteq Owned(i) /\ (i.ok => i.acquired \cup i.todo = Owned(i))
        /\ Mine(u, lock) \subseteq ghost[u].before \cup i.acquired \cup i.astray /\ Owned(k) = Owned(i)
    BY <1>1, <1>2, <1>8, <2>1 DEF Proceeds, Accounts, Owned
  <2> QED BY <1>1, <1>6, <1>8, <1>10, <2>2, <2>3
<1>12. k.command # "deploy" => k.phases = <<"lock">>
  <2>1. ASSUME i.command # "deploy"
        PROVE  i.phases = <<"lock">>
    <3>1. Other(i)
      BY <1>2, <2>1 DEF UserOK
    <3>2. ASSUME NEW S, i.phases \in Seq(S), "lock" \notin S
          PROVE  FALSE
      BY <1>1, <1>2, <3>2 DEF Runs
    <3>3. Head(<<"unlock">>) = "unlock"
      OBVIOUS
    <3> QED BY <1>1, <3>1, <3>2, <3>3 DEF Other
  <2> QED BY <1>8, <2>1
<1>13. UserOK(u, AfterLocking(k), ghost'[u], lock')
  BY <1>1, <1>2, <1>8, <1>9, <1>11, <1>12, AfterLockingOK
<1> QED BY <1>3, <1>4, <1>6, <1>7, <1>13, SetKeeps

\* Visits end, whatever they were for.
LEMMA EndVisitsOK ==
  ASSUME NEW u, NEW k, NEW g, NEW l, Pending(u, k, g, l), Head(k.phases) = "lock" => k.acquired = {}
  PROVE  UserOK(u, EndVisits(k), g, l)
  BY FinishOK DEF EndVisits

LEMMA UnlockKeeps ==
  ASSUME DeployInv, NEW u \in User, NEW t \in Target, UnlockTarget(u, t)
  PROVE  DeployInv'
<1> DEFINE i == job[u]
<1>1. /\ Running(u) /\ Head(i.phases) = "unlock"
  BY DEF UnlockTarget, At
<1>2. /\ DOMAIN i = JobFields /\ NoDeployment(i.calls) /\ Runs(i)
      /\ UserOK(u, i, ghost[u], lock)
  BY <1>1 DEF DeployInv, UserOK, Running, Runs
<1>3. PICK j, ok :
        /\ Set(u, Visited(j, t, ok)) /\ DOMAIN j = JobFields
        /\ \A field \in JobFields \ {"astray"} : j[field] = i[field]
        /\ i.astray \subseteq j.astray
        /\ t \in j.astray \/ lock'[t] = None
        /\ (lock' = lock /\ ghost' = ghost) \/ Release(t, {u})
  <2>1. PICK j : j = [i EXCEPT !.astray = @ \cup {t}]
    OBVIOUS
  <2>2. /\ DOMAIN j = JobFields /\ t \in j.astray /\ i.astray \subseteq j.astray
        /\ \A field \in JobFields \ {"astray"} : j[field] = i[field]
    BY <1>2, <2>1 DEF JobFields
  <2>3. \/ Release(t, {u}) /\ \E ok : Set(u, Visited(i, t, ok))
        \/ lock[t] = None /\ lock' = lock /\ ghost' = ghost /\ Set(u, Visited(i, t, FALSE))
        \/ lock' = lock /\ ghost' = ghost /\ Set(u, Visited(j, t, FALSE))
    BY <2>1 DEF UnlockTarget
  <2>4. CASE Release(t, {u}) /\ \E ok : Set(u, Visited(i, t, ok))
    <3>1. lock'[t] = None
      BY <2>4 DEF DeployInv, Release
    <3> QED BY <1>2, <2>4, <3>1
  <2>5. CASE lock[t] = None /\ lock' = lock /\ ghost' = ghost /\ Set(u, Visited(i, t, FALSE))
    BY <1>2, <2>5
  <2>6. CASE lock' = lock /\ ghost' = ghost /\ Set(u, Visited(j, t, FALSE))
    BY <2>2, <2>6
  <2> QED BY <2>3, <2>4, <2>5, <2>6
<1>4. DOMAIN lock' = Target /\ \A s \in Target : lock'[s] = lock[s] \/ (s = t /\ lock'[s] = None)
  BY <1>3 DEF DeployInv, Release
<1>5. /\ DOMAIN ghost' = User /\ ghost'[u] = ghost[u] /\ DOMAIN ghost'[u] = GhostFields
      /\ \A v \in User \ {u} :
           /\ DOMAIN ghost'[v] = GhostFields /\ ghost'[v].before = ghost[v].before
           /\ ghost'[v].forced \/ (ghost'[v].forced = ghost[v].forced /\ (lock[t] = v => lock' = lock))
  <2>1. CASE lock' = lock /\ ghost' = ghost
    BY <2>1 DEF DeployInv
  <2>2. CASE Release(t, {u})
    BY <2>2 DEF DeployInv, GhostFields, Release
  <2> QED BY <1>3, <2>1, <2>2
<1>6. \A v \in User \ {u} : Spared(v)
  BY <1>4, <1>5, NoneIsNoUser DEF Spared
<1>7. PICK k : k = [j EXCEPT !.todo = @ \ {t}, !.ok = @ /\ ok]
  OBVIOUS
<1>8. /\ DOMAIN k = JobFields /\ k.phases = i.phases /\ k.calls = i.calls /\ k.new = i.new
      /\ k.command = i.command /\ k.acquired = i.acquired /\ k.exit = i.exit
      /\ k.todo = i.todo \ {t} /\ k.astray = j.astray
  BY <1>3, <1>7 DEF JobFields
<1>9. /\ Runs(k) /\ NoDeployment(k.calls) /\ Refers(k) /\ k.acquired \subseteq Target
      /\ Holding(u, k, ghost'[u].forced, lock')
      /\ k.command # "deploy" => Other(k)
  BY <1>1, <1>2, <1>8 DEF UserOK, Runs, Refers, Targets, Holding, Other
<1>10. ASSUME k.command = "deploy"
       PROVE  /\ Ordered(k.phases) /\ k.acquired \subseteq Owned(k)
              /\ k.acquired # {} => Last(k.phases) = "unlock"
              /\ Mine(u, lock') \subseteq ghost'[u].before \cup k.astray \cup k.todo
  <2>1. Proceeds(i) /\ Accounts(i, Mine(u, lock), ghost[u].before)
    BY <1>2, <1>8, <1>10 DEF UserOK
  <2>2. Mine(u, lock) \subseteq ghost[u].before \cup i.astray \cup i.todo
    BY <1>1, <1>2, <2>1 DEF Accounts
  <2>3. Mine(u, lock') \subseteq Mine(u, lock) /\ (t \in j.astray \/ t \notin Mine(u, lock'))
    BY <1>3, <1>4, NoneIsNoUser DEF Mine
  <2> QED BY <1>3, <1>5, <1>8, <2>1, <2>2, <2>3 DEF Proceeds, Owned
<1>11. CASE k.todo # {}
  <2>1. Visited(j, t, ok) = k
    BY <1>7, <1>11 DEF Visited
  <2>2. k.command = "deploy" => Proceeds(k) /\ Accounts(k, Mine(u, lock'), ghost'[u].before)
    BY <1>1, <1>2, <1>8, <1>9, <1>10 DEF Proceeds, Accounts
  <2>3. UserOK(u, k, ghost'[u], lock')
    BY <1>8, <1>9, <2>2 DEF UserOK, Formed
  <2> QED BY <1>3, <1>4, <1>5, <1>6, <2>1, <2>3, SetKeeps
<1>12. CASE k.todo = {}
  <2>1. Visited(j, t, ok) = EndVisits(k)
    BY <1>7, <1>12 DEF Visited
  <2>2. k.command = "deploy" => PhaseEnds(k, Mine(u, lock'), ghost'[u].before)
    BY <1>1, <1>8, <1>9, <1>10, <1>12 DEF PhaseEnds
  <2>3. Pending(u, k, ghost'[u], lock')
    BY <1>8, <1>9, <2>2 DEF Pending
  <2>4. UserOK(u, EndVisits(k), ghost'[u], lock')
    BY <1>1, <1>8, <2>3, EndVisitsOK
  <2> QED BY <1>3, <1>4, <1>5, <1>6, <2>1, <2>4, SetKeeps
<1> QED BY <1>11, <1>12

LEMMA NobodyKeeps ==
  ASSUME DeployInv, NEW u \in User, VisitNobody(u)
  PROVE  DeployInv'
<1> DEFINE i == job[u]
<1>1. Running(u) /\ i.todo = {} /\ Set(u, EndVisits(i)) /\ Untouched /\ lock' = lock
  BY DEF VisitNobody, world
<1>2. /\ DOMAIN i = JobFields /\ NoDeployment(i.calls) /\ Runs(i)
      /\ UserOK(u, i, ghost[u], lock)
  BY <1>1 DEF DeployInv, UserOK, Running, Runs
<1>3. i.command = "deploy" =>
        /\ PhaseEnds(i, Mine(u, lock), ghost[u].before)
        /\ Head(i.phases) = "lock" => i.acquired = {}
  BY <1>1, <1>2 DEF UserOK, Proceeds, Accounts, PhaseEnds
<1>4. Pending(u, i, ghost[u], lock)
  BY <1>2, <1>3 DEF Pending, UserOK
<1>5. UserOK(u, EndVisits(i), ghost[u], lock)
  <2>1. CASE i.command = "deploy"
    BY <1>3, <1>4, <2>1, EndVisitsOK
  <2>2. CASE i.command # "deploy"
    BY <1>4, <2>2, FinishOther DEF EndVisits
  <2> QED BY <2>1, <2>2
<1> QED BY <1>1, <1>5, GhostSame

-----------------------------------------------------------------------------
(* Requests that nobody waits for.                                         *)

\* A phase keeps the command line, and what got lost; a command that is killed
\* calls nothing more.
KeepsLine(k, j) ==
    /\ DOMAIN k = JobFields /\ k.command = j.command /\ k.args = j.args /\ k.asked = j.asked
    /\ k.calls \in {j.calls, <<>>} /\ j.astray \subseteq k.astray

LEMMA LineKept ==
  ASSUME NEW j, DOMAIN j = JobFields
  PROVE  /\ KeepsLine(Succeed(j), j) /\ KeepsLine(Fail(j), j) /\ KeepsLine(EndVisits(j), j)
         /\ KeepsLine(AfterLocking(j), j)
         /\ \A status : KeepsLine(Exit(j, status), j)
         /\ \A t, ok : KeepsLine(Visited(j, t, ok), j)
<1>1. ASSUME NEW k, DOMAIN k = JobFields
      PROVE  /\ KeepsLine(Succeed(k), k) /\ KeepsLine(Fail(k), k)
             /\ \A status : KeepsLine(Exit(k, status), k)
  <2>1. \A status : KeepsLine(Exit(k, status), k)
    BY <1>1 DEF Exit, KeepsLine, JobFields
  <2>2. ASSUME NEW phases
        PROVE  KeepsLine(Enter(k, phases), k) /\ KeepsLine([Enter(k, phases) EXCEPT !.ok = FALSE], k)
    <3>1. PICK e : e = Enter(k, phases)
      OBVIOUS
    <3>2. KeepsLine(e, k)
      BY <1>1, <3>1 DEF Enter, KeepsLine, JobFields
    <3>3. KeepsLine([e EXCEPT !.ok = FALSE], k)
      BY <3>2 DEF KeepsLine, JobFields
    <3> QED BY <3>1, <3>2, <3>3
  <2> QED BY <2>1, <2>2 DEF Succeed, Fail
<1>2. KeepsLine(AfterLocking(j), j)
  <2>1. KeepsLine([j EXCEPT !.phases = <<"unlock">>, !.todo = j.acquired], j) /\ KeepsLine(j, j)
    BY DEF KeepsLine, JobFields
  <2> QED BY <1>1, <2>1 DEF AfterLocking
<1>3. ASSUME NEW t, NEW ok
      PROVE  KeepsLine(Visited(j, t, ok), j)
  <2>1. PICK k : k = [j EXCEPT !.todo = @ \ {t}, !.ok = @ /\ ok]
    OBVIOUS
  <2>2. KeepsLine(k, j)
    BY <2>1 DEF KeepsLine, JobFields
  <2>3. Visited(j, t, ok) \in {k, Succeed(k), Fail(k)}
    BY <2>1 DEF Visited, EndVisits
  <2>4. KeepsLine(Succeed(k), k) /\ KeepsLine(Fail(k), k)
    BY <1>1, <2>2 DEF KeepsLine
  <2> QED BY <2>2, <2>3, <2>4 DEF KeepsLine
<1> QED BY <1>1, <1>2, <1>3 DEF EndVisits

\* What a command does that runs.
LEMMA StepKeepsLine ==
  ASSUME DeployInv, NEW u \in User, Running(u), Step(u)
  PROVE  \E k : Set(u, k) /\ KeepsLine(k, job[u])
<1> DEFINE j == job[u]
<1>1. DOMAIN j = JobFields
  BY DEF DeployInv, UserOK, Running, Runs
<1>2. ASSUME NEW i, KeepsLine(i, j),
             \/ Set(u, Succeed(i)) \/ Set(u, Fail(i)) \/ Set(u, EndVisits(i)) \/ Set(u, AfterLocking(i))
             \/ (\E status : Set(u, Exit(i, status))) \/ \E t, ok : Set(u, Visited(i, t, ok))
      PROVE  \E k : Set(u, k) /\ KeepsLine(k, j)
  <2>1. PICK k : Set(u, k) /\ KeepsLine(k, i)
    BY <1>2, LineKept DEF KeepsLine
  <2>2. KeepsLine(k, j)
    BY <1>2, <2>1 DEF KeepsLine
  <2> QED BY <2>1, <2>2
<1>3. ~(Request(u) \/ FollowAdvice(u) \/ NextCall(u) \/ ForgetGenerations(u))
  BY DEF Request, FollowAdvice, NextCall, ForgetGenerations, Idle
<1>4. KeepsLine(j, j)
  BY <1>1 DEF KeepsLine
<1>5. CASE Distribute(u) \/ Deactivate(u) \/ Activate(u) \/ MigrateData(u) \/ SetCoordinator(u)
  <2>1. Succeeds(u) \/ (\E status : Fails(u, status))
    BY <1>5 DEF Distribute, Deactivate, Activate, MigrateData, SetCoordinator
  <2>2. ASSUME NEW status, Fails(u, status)
        PROVE  \E k : Set(u, k) /\ KeepsLine(k, j)
    <3>1. PICK i : i = [j EXCEPT !.status = status]
      OBVIOUS
    <3>2. KeepsLine(i, j)
      BY <1>1, <3>1 DEF JobFields, KeepsLine
    <3> QED BY <1>2, <2>2, <3>1, <3>2 DEF Fails
  <2> QED BY <1>2, <1>4, <2>1, <2>2 DEF Succeeds
<1>6. CASE ConvertManifest(u) \/ CompareManifest(u) \/ Elsewhere(u)
  <2>1. \E status : Set(u, Exit(j, status))
    <3>1. CASE ConvertManifest(u)
      BY <3>1 DEF ConvertManifest
    <3>2. CASE CompareManifest(u)
      BY <3>2 DEF CompareManifest
    <3>3. CASE Elsewhere(u)
      BY <3>3 DEF Elsewhere
    <3> QED BY <1>6, <3>1, <3>2, <3>3
  <2> QED BY <1>2, <1>4, <2>1
<1>7. CASE Crash(u)
  <2>1. PICK e, k : e = Exit(j, "crashed") /\ k = [e EXCEPT !.calls = <<>>]
    OBVIOUS
  <2>2. KeepsLine(e, j)
    BY <1>1, <2>1, LineKept
  <2>3. KeepsLine(k, j)
    BY <2>1, <2>2 DEF JobFields, KeepsLine
  <2> QED BY <1>7, <2>1, <2>3 DEF Crash
<1>8. CASE VisitNobody(u)
  BY <1>2, <1>4, <1>8 DEF VisitNobody
<1>9. ASSUME NEW t \in Target, LockTarget(u, t)
      PROVE  \E k : Set(u, k) /\ KeepsLine(k, j)
  <2>1. PICK k : Asks(u, t, k) /\ Set(u, AfterLocking(k))
    BY <1>1, <1>9, LockOutcomes
  <2>2. KeepsLine(k, j)
    BY <1>1, <2>1 DEF Asks, JobFields, KeepsLine
  <2> QED BY <1>2, <2>1, <2>2
<1>10. ASSUME NEW t \in Target, SetTarget(u, t) \/ CollectGarbage(u, t) \/ CaptureTarget(u, t) \/ UnlockTarget(u, t)
       PROVE  \E k : Set(u, k) /\ KeepsLine(k, j)
  <2>1. ASSUME NEW profiles
        PROVE  KeepsLine([j EXCEPT !.profiles = profiles], j)
    BY <1>1 DEF JobFields, KeepsLine
  <2>2. ASSUME NEW astray
        PROVE  KeepsLine([j EXCEPT !.astray = @ \cup astray], j)
    BY <1>1 DEF JobFields, KeepsLine
  <2>3. \/ \E ok : Set(u, Visited(j, t, ok))
        \/ \E profiles, ok : Set(u, Visited([j EXCEPT !.profiles = profiles], t, ok))
        \/ \E astray, ok : Set(u, Visited([j EXCEPT !.astray = @ \cup astray], t, ok))
    BY <1>10 DEF SetTarget, CollectGarbage, CaptureTarget, UnlockTarget
  <2> QED BY <1>2, <1>4, <2>1, <2>2, <2>3
<1> QED BY <1>3, <1>5, <1>6, <1>7, <1>8, <1>9, <1>10 DEF Step

\* A step of one user leaves the commands of the others.
LEMMA OthersKeepTheirJob ==
  ASSUME NEW u, NEW v, u # v, Step(u)
  PROVE  job'[v] = job[v]
<1>1. ASSUME NEW j, job' = [job EXCEPT ![u] = j]
      PROVE  job'[v] = job[v]
  BY <1>1
<1>2. ASSUME NEW j, Set(u, j)
      PROVE  job'[v] = job[v]
  BY <1>1, <1>2 DEF Set
<1>3. CASE Request(u)
  <2>1. PICK j : Begins(u, j)
    BY <1>3 DEF Request
  <2> QED BY <1>1, <2>1 DEF Begins
<1>4. CASE ForgetGenerations(u)
  BY <1>4 DEF ForgetGenerations
<1>5. CASE FollowAdvice(u)
  BY <1>1, <1>5 DEF FollowAdvice
<1>6. CASE NextCall(u)
  BY <1>2, <1>6 DEF NextCall
<1>7. CASE Distribute(u) \/ Deactivate(u) \/ Activate(u) \/ MigrateData(u) \/ SetCoordinator(u)
  BY <1>2, <1>7 DEF Distribute, Deactivate, Activate, MigrateData, SetCoordinator, Succeeds, Fails
<1>8. CASE ConvertManifest(u) \/ CompareManifest(u) \/ Elsewhere(u) \/ Crash(u) \/ VisitNobody(u)
  <2>1. \E j : Set(u, j)
    BY <1>8 DEF ConvertManifest, CompareManifest, Elsewhere, Crash, VisitNobody
  <2> QED BY <1>2, <2>1
<1>9. ASSUME NEW t \in Target,
             \/ LockTarget(u, t) \/ UnlockTarget(u, t) \/ SetTarget(u, t) \/ CollectGarbage(u, t)
             \/ CaptureTarget(u, t)
      PROVE  job'[v] = job[v]
  <2>1. \E j : Set(u, j)
    BY <1>9 DEF LockTarget, UnlockTarget, SetTarget, CollectGarbage, CaptureTarget
  <2> QED BY <1>2, <2>1
<1> QED BY <1>3, <1>4, <1>5, <1>6, <1>7, <1>8, <1>9 DEF Step

\* What may still be locked for a deployment is where a request got lost, or was
\* under way before.
LostOK(u, j, g, w) ==
    j.command = "deploy" /\ j.exit # "crashed" =>
      \A t \in Target : <<"lock", u, t>> \in w => t \in g.before \cup j.astray

LostInv == \A u \in User : LostOK(u, job[u], ghost[u], late)

LEMMA EndedLost ==
  ASSUME NEW u, NEW j, NEW g, NEW w, LostOK(u, j, g, w)
  PROVE  LostOK(u, Ended(j), g, w)
<1>1. PICK i : i = [NoJob EXCEPT !.command = j.command, !.exit = j.exit, !.env = j.env, !.astray = j.astray]
  OBVIOUS
<1>2. i.command = j.command /\ i.exit = j.exit /\ i.astray = j.astray
  BY <1>1 DEF NoJob
<1>3. LostOK(u, i, g, w)
  BY <1>2 DEF LostOK
<1> QED BY <1>1, <1>3 DEF Ended

\* Nobody's past changes while a command runs.
LEMMA BeforeKept ==
  ASSUME DeployInv, NEW u \in User, Running(u), Step(u)
  PROVE  \A v \in User : ghost'[v].before = ghost[v].before
<1>1. ~(Request(u) \/ FollowAdvice(u) \/ NextCall(u) \/ ForgetGenerations(u))
  BY DEF Request, FollowAdvice, NextCall, ForgetGenerations, Idle
<1>2. CASE Untouched \/ \E spared : Spoils(u, spared)
  BY <1>2, GhostKept
<1>3. ASSUME NEW t \in Target, UnlockTarget(u, t)
      PROVE  \A v \in User : ghost'[v].before = ghost[v].before
  <2>1. ghost' = ghost \/ Release(t, {u})
    BY <1>3 DEF UnlockTarget
  <2> QED BY <2>1 DEF Release, DeployInv, GhostFields
<1>4. (\E t \in Target : UnlockTarget(u, t)) \/ Untouched \/ \E spared : Spoils(u, spared)
  BY <1>1 DEF Step, Distribute, Deactivate, Activate, MigrateData, SetCoordinator, ConvertManifest,
              CompareManifest, Elsewhere, Crash, VisitNobody, LockTarget, SetTarget, CollectGarbage,
              CaptureTarget, Touches
<1> QED BY <1>2, <1>3, <1>4

LEMMA WhoAsks ==
  ASSUME NEW u, Step(u)
  PROVE  late' = late \/ Crash(u) \/ \E t \in Target : LockTarget(u, t) \/ UnlockTarget(u, t)
  BY DEF Step, Request, Begins, FollowAdvice, NextCall, ForgetGenerations, Distribute, Deactivate, Activate,
         MigrateData, SetCoordinator, ConvertManifest, CompareManifest, Elsewhere, VisitNobody,
         SetTarget, CollectGarbage, CaptureTarget, world

\* A step of a command asks targets for locks of its user only.
LEMMA AsksForItself ==
  ASSUME NEW u \in User, Step(u)
  PROVE  /\ \A v \in User \ {u}, t \in Target : <<"lock", v, t>> \in late' => <<"lock", v, t>> \in late
         /\ \/ \A t \in Target : <<"lock", u, t>> \in late' => <<"lock", u, t>> \in late
            \/ Crash(u) \/ \E t \in Target : LockTarget(u, t)
<1>1. CASE Crash(u)
  BY <1>1 DEF Crash
<1>2. ASSUME NEW t \in Target, LockTarget(u, t) \/ UnlockTarget(u, t)
      PROVE  /\ \A v \in User \ {u}, s \in Target : <<"lock", v, s>> \in late' => <<"lock", v, s>> \in late
             /\ \/ \A s \in Target : <<"lock", u, s>> \in late' => <<"lock", u, s>> \in late
                \/ LockTarget(u, t)
  <2>1. late' \in {late, late \cup {<<"lock", u, t>>}, late \cup {<<"unlock", u, t>>}}
    BY <1>2 DEF LockTarget, UnlockTarget
  <2>2. UnlockTarget(u, t) => late' \in {late, late \cup {<<"unlock", u, t>>}}
    BY DEF UnlockTarget
  <2> QED BY <1>2, <2>1, <2>2
<1>3. CASE late' = late
  BY <1>3
<1> QED BY <1>1, <1>2, <1>3, WhoAsks

LEMMA StepLost ==
  ASSUME DeployInv, LostInv, NEW u \in User, Step(u)
  PROVE  LostInv'
<1> DEFINE j == job[u]
<1>1. /\ DOMAIN job = User /\ DOMAIN ghost = User /\ LostOK(u, j, ghost[u], late)
      /\ UserOK(u, j, ghost[u], lock) /\ AdviceOK(advice[u])
  BY DEF DeployInv, LostInv
<1>2. ASSUME NEW v \in User \ {u}, ghost'[v].before = ghost[v].before
      PROVE  LostOK(v, job'[v], ghost'[v], late')
  BY <1>2, OthersKeepTheirJob, AsksForItself DEF LostInv, LostOK
<1>3. ASSUME NEW k, job' = [job EXCEPT ![u] = Ended(k)], LostOK(u, k, ghost'[u], late'),
             \A v \in User \ {u} : ghost'[v].before = ghost[v].before
      PROVE  LostInv'
  BY <1>1, <1>2, <1>3, EndedLost DEF LostInv
<1>4. CASE Running(u)
  <2>1. \A v \in User : ghost'[v].before = ghost[v].before
    BY <1>4, BeforeKept
  <2>2. j.exit # "crashed" /\ DOMAIN j = JobFields
    BY <1>1, <1>4 DEF Running, UserOK, Runs
  <2>3. ASSUME \A t \in Target : <<"lock", u, t>> \in late' => <<"lock", u, t>> \in late
        PROVE  LostInv'
    <3>1. PICK k : Set(u, k) /\ KeepsLine(k, j)
      BY <1>4, StepKeepsLine
    <3>2. LostOK(u, k, ghost'[u], late')
      BY <1>1, <2>1, <2>2, <2>3, <3>1 DEF LostOK, KeepsLine
    <3> QED BY <1>3, <2>1, <3>1, <3>2 DEF Set
  <2>4. CASE Crash(u)
    <3>1. PICK e, k : e = Exit(j, "crashed") /\ k = [e EXCEPT !.calls = <<>>]
      OBVIOUS
    <3>2. k.exit = "crashed"
      BY <2>2, <3>1, ExitJob DEF JobFields
    <3> QED BY <1>3, <2>1, <2>4, <3>1, <3>2 DEF Crash, Set, LostOK
  <2>5. ASSUME NEW t \in Target, LockTarget(u, t)
        PROVE  LostInv'
    <3>1. PICK k : Asks(u, t, k) /\ Set(u, AfterLocking(k))
      BY <2>2, <2>5, LockOutcomes
    <3>2. KeepsLine(AfterLocking(k), k)
      BY <3>1, LineKept DEF Asks
    <3>3. LostOK(u, k, ghost'[u], late')
      <4>1. SUFFICES ASSUME k.command = "deploy", NEW s \in Target, <<"lock", u, s>> \in late'
                     PROVE  s \in ghost'[u].before \cup k.astray
        BY DEF LostOK
      <4>2. j.command = "deploy" /\ ghost'[u].before = ghost[u].before
        BY <2>1, <3>1, <4>1 DEF Asks
      <4>3. <<"lock", u, s>> \in late => s \in ghost[u].before \cup j.astray
        BY <1>1, <2>2, <4>2 DEF LostOK
      <4>4. \/ late' = late /\ k.astray = j.astray
            \/ late' = late \cup {<<"lock", u, t>>} /\ k.astray = j.astray \cup {t}
        BY <3>1 DEF Asks
      <4> QED BY <4>1, <4>2, <4>3, <4>4
    <3>4. k.exit # "crashed"
      BY <2>2, <3>1 DEF Asks
    <3>5. LostOK(u, AfterLocking(k), ghost'[u], late')
      BY <3>2, <3>3, <3>4 DEF LostOK, KeepsLine
    <3> QED BY <1>3, <2>1, <3>1, <3>5 DEF Set
  <2> QED BY <2>3, <2>4, <2>5, AsksForItself
<1>5. CASE Request(u)
  <2>1. PICK k : Begins(u, k)
    BY <1>5 DEF Request
  <2>2. LostOK(u, k, ghost'[u], late')
    BY <1>1, <2>1 DEF Begins, LostOK, Locks
  <2> QED BY <1>1, <1>3, <2>1, <2>2 DEF Begins
<1>6. CASE ForgetGenerations(u)
  BY <1>6 DEF ForgetGenerations, LostInv
<1>7. CASE FollowAdvice(u)
  <2>1. PICK a, k : a = Head(advice[u]) /\ k = Open(a.command, a.args, a.file, j.env, a.args, <<>>)
    OBVIOUS
  <2>2. job' = [job EXCEPT ![u] = Ended(k)]
    BY <1>7, <2>1 DEF FollowAdvice
  <2>3. k.command # "deploy"
    BY <1>1, <1>7, <2>1, TailCalls, OpenJob DEF AdviceOK, FollowAdvice
  <2>4. \A v \in User \ {u} : ghost'[v].before = ghost[v].before
    BY <1>1, <1>7 DEF FollowAdvice
  <2> QED BY <1>3, <2>2, <2>3, <2>4 DEF LostOK
<1>8. CASE NextCall(u)
  <2>1. ghost' = ghost /\ late' = late /\ j.calls # <<>> /\ NoDeployment(j.calls)
    BY <1>1, <1>8 DEF NextCall, Untouched, world, UserOK
  <2>2. CASE GoesOn(j)
    <3>1. PICK c, k : c = Head(j.calls) /\ k = Open(c.command, c.args, Printed(j), j.env, j.asked, Tail(j.calls))
      OBVIOUS
    <3>2. Set(u, k)
      BY <1>8, <2>2, <3>1 DEF NextCall
    <3>3. k.command # "deploy"
      BY <2>1, <3>1, TailCalls, OpenJob
    <3> QED BY <1>3, <2>1, <3>2, <3>3 DEF Set, LostOK
  <2>3. CASE ~GoesOn(j)
    <3>1. PICK k : k = [j EXCEPT !.calls = <<>>]
      OBVIOUS
    <3>2. Set(u, k)
      BY <1>8, <2>3, <3>1 DEF NextCall
    <3>3. DOMAIN j = JobFields
      BY <1>1, <2>1 DEF UserOK, Formed
    <3>4. k.command = j.command /\ k.exit = j.exit /\ k.astray = j.astray
      BY <3>1, <3>3 DEF JobFields
    <3>5. LostOK(u, k, ghost'[u], late')
      BY <1>1, <2>1, <3>4 DEF LostOK
    <3> QED BY <1>3, <2>1, <3>2, <3>5 DEF Set
  <2> QED BY <2>2, <2>3
<1>9. Running(u) \/ Request(u) \/ ForgetGenerations(u) \/ FollowAdvice(u) \/ NextCall(u)
  BY DEF Step, Distribute, Deactivate, Activate, MigrateData, SetCoordinator, ConvertManifest,
         CompareManifest, Elsewhere, Crash, VisitNobody, LockTarget, UnlockTarget, SetTarget,
         CollectGarbage, CaptureTarget, At
<1> QED BY <1>4, <1>5, <1>6, <1>7, <1>8, <1>9

\* A late request changes no command; it may lock what is lost, or release what
\* another has, which is then spoiled.
LEMMA LateChanges ==
  ASSUME Late
  PROVE  /\ UNCHANGED <<running, profile, store, local, links, job, advice, left>>
         /\ late' \subseteq late
         /\ \/ Untouched /\ lock' = lock
            \/ \E u \in User, t \in Target :
                 /\ <<"lock", u, t>> \in late /\ lock[t] = None /\ lock' = [lock EXCEPT ![t] = u]
                 /\ Untouched
            \/ \E t \in Target : Release(t, {})
<1>1. ASSUME NEW u \in User, NEW t \in Target, LateLock(u, t)
      PROVE  /\ UNCHANGED <<running, profile, store, local, links, job, advice, left>>
             /\ late' \subseteq late /\ Untouched
             /\ \/ lock' = lock
                \/ <<"lock", u, t>> \in late /\ lock[t] = None /\ lock' = [lock EXCEPT ![t] = u]
  BY <1>1 DEF LateLock, Free
<1>2. ASSUME NEW u \in User, NEW t \in Target, LateUnlock(u, t)
      PROVE  /\ UNCHANGED <<running, profile, store, local, links, job, advice, left>>
             /\ late' \subseteq late /\ Release(t, {})
  BY <1>2 DEF LateUnlock
<1> QED BY <1>1, <1>2 DEF Late

LEMMA LateGhost ==
  ASSUME DeployInv, Late, NEW u \in User
  PROVE  \/ ghost'[u] = ghost[u]
         \/ ghost'[u].sound = FALSE /\ ghost'[u].alone = ghost[u].alone
<1>1. DOMAIN ghost[u] = GhostFields
  BY DEF DeployInv
<1>2. ASSUME NEW t \in Target, Release(t, {})
      PROVE  \/ ghost'[u] = ghost[u]
             \/ ghost'[u].sound = FALSE /\ ghost'[u].alone = ghost[u].alone
  BY <1>1, <1>2 DEF Release, GhostFields
<1> QED BY <1>2, LateChanges DEF Untouched

LEMMA LateKeeps ==
  ASSUME DeployInv, LostInv, Late
  PROVE  DeployInv' /\ LostInv'
<1>1. job' = job /\ advice' = advice /\ late' \subseteq late
  BY LateChanges
<1>2. CASE Untouched /\ lock' = lock
  BY <1>1, <1>2 DEF DeployInv, LostInv, LostOK, Untouched
<1>3. ASSUME NEW u \in User, NEW t \in Target, <<"lock", u, t>> \in late, lock[t] = None,
             lock' = [lock EXCEPT ![t] = u], ghost' = ghost
      PROVE  DeployInv' /\ LostInv'
  <2>1. LostInv'
    BY <1>1, <1>3 DEF LostInv, LostOK
  <2>2. \A s \in Target : lock'[s] = lock[s] \/ (s = t /\ lock[t] = None /\ lock'[t] = u)
    BY <1>3 DEF DeployInv
  <2>3. ASSUME NEW v \in User \ {u}
        PROVE  UserOK(v, job[v], ghost'[v], lock')
    <3>1. Spared(v)
      BY <1>3, <2>2, NoneIsNoUser DEF Spared, DeployInv
    <3> QED BY <1>1, <3>1, SparedOK
  <2>4. UserOK(u, job[u], ghost[u], lock')
    <3> DEFINE j == job[u]
    <3>1. UserOK(u, j, ghost[u], lock) /\ LostOK(u, j, ghost[u], late)
      BY DEF DeployInv, LostInv
    <3>2. Runs(j) => Holding(u, j, ghost[u].forced, lock')
      BY <2>2, <3>1, NoneIsNoUser DEF UserOK, Holding
    <3>3. Mine(u, lock') \subseteq Mine(u, lock) \cup {t}
      BY <2>2 DEF Mine
    <3>4. j.command = "deploy" => Accounts(j, Mine(u, lock'), ghost[u].before)
      <4>1. SUFFICES ASSUME j.command = "deploy"
                     PROVE  Accounts(j, Mine(u, lock'), ghost[u].before)
        OBVIOUS
      <4>2. PICK mine, more, before : mine = Mine(u, lock) /\ more = Mine(u, lock') /\ before = ghost[u].before
        OBVIOUS
      <4>3. Accounts(j, mine, before) /\ more \subseteq mine \cup {t}
        BY <3>1, <3>3, <4>1, <4>2 DEF UserOK
      <4>4. j.exit # "crashed" => t \in before \cup j.astray
        BY <1>3, <3>1, <4>1, <4>2 DEF LostOK
      <4>5. Accounts(j, more, before)
        BY <4>3, <4>4 DEF Accounts, Runs
      <4> QED BY <4>2, <4>5
    <3> QED BY <3>1, <3>2, <3>4 DEF UserOK
  <2>5. DOMAIN lock' = Target
    BY <1>3 DEF DeployInv
  <2> QED BY <1>1, <1>3, <2>1, <2>3, <2>4, <2>5 DEF DeployInv
<1>4. ASSUME NEW t \in Target, Release(t, {})
      PROVE  DeployInv' /\ LostInv'
  <2>1. /\ DOMAIN lock' = Target /\ DOMAIN ghost' = User
        /\ \A s \in Target : lock'[s] = lock[s] \/ (s = t /\ lock'[s] = None)
        /\ \A v \in User :
             /\ DOMAIN ghost'[v] = GhostFields /\ ghost'[v].before = ghost[v].before
             /\ ghost'[v].forced \/ (ghost'[v].forced = ghost[v].forced /\ lock[t] # v)
    BY <1>4 DEF Release, DeployInv, GhostFields
  <2>2. \A v \in User : Spared(v)
    BY <2>1, NoneIsNoUser DEF Spared
  <2>3. \A v \in User : UserOK(v, job[v], ghost'[v], lock')
    BY <1>1, <2>2, SparedOK
  <2>4. LostInv'
    BY <1>1, <2>1 DEF LostInv, LostOK
  <2> QED BY <1>1, <2>1, <2>3, <2>4 DEF DeployInv
<1> QED BY <1>2, <1>3, <1>4, LateChanges DEF Untouched

-----------------------------------------------------------------------------

LEMMA InitDeploy == Init => DeployInv /\ LostInv
<1> SUFFICES ASSUME Init PROVE DeployInv /\ LostInv
  OBVIOUS
<1>1. /\ job = [u \in User |-> NoJob] /\ advice = [u \in User |-> <<>>]
      /\ ghost = [u \in User |-> [sound |-> FALSE, alone |-> FALSE, forced |-> FALSE, before |-> {}]]
      /\ lock = [t \in Target |-> None] /\ late = {}
  BY DEF Init
<1>2. /\ NoJob.command # "deploy" /\ NoJob.calls = <<>> /\ NoJob.phases = <<>>
      /\ DOMAIN NoJob = EndedFields
  BY DEF NoJob, EndedFields
<1>3. \A u \in User : job[u] = NoJob /\ DOMAIN ghost[u] = GhostFields /\ advice[u] = <<>>
  BY <1>1 DEF GhostFields
<1>4. \A u \in User : UserOK(u, job[u], ghost[u], lock)
  BY <1>2, <1>3, NoCalls DEF UserOK, Formed, Runs
<1> QED BY <1>1, <1>3, <1>4, NoCalls DEF DeployInv, AdviceOK, LostInv, LostOK

LEMMA NextDeploy == DeployInv /\ LostInv /\ [Next]_vars => DeployInv' /\ LostInv'
<1> SUFFICES ASSUME DeployInv, LostInv, [Next]_vars PROVE DeployInv' /\ LostInv'
  OBVIOUS
<1>1. ASSUME NEW u \in User, Step(u)
      PROVE  DeployInv'
  <2>1. CASE Request(u) \/ FollowAdvice(u) \/ NextCall(u)
    BY <2>1, RequestKeeps, FollowAdviceKeeps, NextCallKeeps
  <2>2. CASE ForgetGenerations(u)
    BY <2>2 DEF ForgetGenerations, DeployInv
  <2>3. CASE Distribute(u) \/ Deactivate(u) \/ Activate(u) \/ MigrateData(u) \/ SetCoordinator(u)
    BY <2>3, WorkKeeps
  <2>4. CASE ConvertManifest(u) \/ CompareManifest(u) \/ Elsewhere(u) \/ Crash(u)
    BY <2>4, EndKeeps
  <2>5. CASE VisitNobody(u)
    BY <2>5, NobodyKeeps
  <2>6. ASSUME NEW t \in Target,
               \/ LockTarget(u, t) \/ UnlockTarget(u, t) \/ SetTarget(u, t) \/ CollectGarbage(u, t)
               \/ CaptureTarget(u, t)
        PROVE  DeployInv'
    BY <2>6, LockKeeps, UnlockKeeps, VisitKeeps
  <2> QED BY <1>1, <2>1, <2>2, <2>3, <2>4, <2>5, <2>6 DEF Step
<1>2. CASE UNCHANGED vars
  BY <1>2 DEF vars, DeployInv, LostInv, LostOK
<1>3. CASE Late
  BY <1>3, LateKeeps
<1> QED BY <1>1, <1>2, <1>3, StepLost DEF Next

\* Every command, in every state, is as DeployInv says.
THEOREM DeployInvariance == Spec => []DeployInv
<1>1. DeployInv /\ LostInv /\ [Next]_vars => DeployInv' /\ LostInv'
  BY NextDeploy
<1> QED BY InitDeploy, <1>1, PTL DEF Spec

\* deploy(): however a deployment ends, short of being killed, and whatever other
\* users and late requests do meanwhile, it leaves no lock behind but on targets
\* where a request or its answer got lost, and those that were there, or under
\* way, before.
THEOREM NoLockLeft == Spec => []LeavesNoLocks
<1>1. DeployInv => LeavesNoLocks
  <2> SUFFICES ASSUME DeployInv, NEW u \in User, NEW t \in Target,
                      lock[t] = u, ~Running(u), job[u].command = "deploy", job[u].exit # "crashed"
               PROVE  t \in job[u].astray \cup ghost[u].before
    BY DEF LeavesNoLocks
  <2>1. Accounts(job[u], Mine(u, lock), ghost[u].before) /\ ~Runs(job[u])
    BY DEF DeployInv, UserOK, Running, Runs
  <2>2. t \in Mine(u, lock)
    BY DEF Mine
  <2> QED BY <2>1, <2>2 DEF Accounts
<1> QED BY <1>1, DeployInvariance, PTL

-----------------------------------------------------------------------------
(* What a step changes of the targets. *)

\* What a transition changes is on the machines of its infrastructure.
LEMMA ChangesAreOnTargets ==
  ASSUME NEW j, Refers(j)
  PROVE  \A key \in Added(j) \cup Obsolete(j) : key[1] \in Targets(j)
<1>1. ASSUME NEW key \in Added(j)
      PROVE  key[1] \in Targets(j)
  <2>1. PICK mapping \in j.new.service_mappings : key = ServiceKey(mapping)
    BY <1>1 DEF Added, subtract_service_mapping_array
  <2> QED BY <2>1 DEF ServiceKey, Refers
<1>2. ASSUME NEW key \in Obsolete(j)
      PROVE  key[1] \in Targets(j)
  <2>1. \E mapping : key = ServiceKey(mapping) /\ mapping.target \in Targets(j)
    BY <1>2 DEF Obsolete
  <2> QED BY <2>1 DEF ServiceKey
<1> QED BY <1>1, <1>2

\* Only a transition changes what runs, and what it changes is to be activated or
\* deactivated.
LEMMA OnlyTransitionsChange ==
  ASSUME NEW u, Step(u), running' # running
  PROVE  /\ At(u, "deactivate") \/ At(u, "activate")
         /\ \A key : (key \in running') # (key \in running) => key \in Added(job[u]) \cup Obsolete(job[u])
<1>1. Deactivate(u) \/ Activate(u)
  BY DEF Step, Request, Begins, ForgetGenerations, FollowAdvice, NextCall, Distribute, MigrateData,
         SetCoordinator, ConvertManifest, CompareManifest, Elsewhere, Crash, VisitNobody, LockTarget,
         UnlockTarget, SetTarget, CollectGarbage, CaptureTarget, world
<1>2. CASE Deactivate(u)
  <2>1. At(u, "deactivate")
    BY <1>2 DEF Deactivate
  <2>2. running' = running \/ \E X \in SUBSET Obsolete(job[u]) : running' = running \ X
    BY <1>2 DEF Deactivate
  <2> QED BY <2>1, <2>2
<1>3. CASE Activate(u)
  <2>1. At(u, "activate")
    BY <1>3 DEF Activate
  <2>2. running' = running \/ \E X \in SUBSET (Added(job[u]) \cup Obsolete(job[u])) : running' = running \cup X
    <3>1. \/ running' = running
          \/ running' = running \cup Added(job[u])
          \/ \E X \in SUBSET Added(job[u]) : running' = running \cup X
          \/ running' = running \cup Obsolete(job[u])
          \/ \E X \in SUBSET Obsolete(job[u]) : running' = running \cup (Obsolete(job[u]) \ X)
      BY <1>3 DEF Activate
    <3> QED BY <3>1
  <2> QED BY <2>1, <2>2
<1> QED BY <1>1, <1>2, <1>3

\* A deployment that has locks, none of which was removed by force, has all of
\* them while it does anything to its targets.
LEMMA LockedWhileWorking ==
  ASSUME DeployInv, NEW v \in User, Running(v), job[v].acquired # {}, ~ghost[v].forced,
         Head(job[v].phases) \notin {"lock", "unlock"}
  PROVE  job[v].command = "deploy" /\ Proceeds(job[v]) /\ \A t \in Owned(job[v]) : lock[t] = v
<1>1. UserOK(v, job[v], ghost[v], lock) /\ Runs(job[v])
  BY DEF DeployInv, Running, Runs
<1>2. job[v].command = "deploy"
  <2>1. Head(<<"lock">>) = "lock" /\ Head(<<"unlock">>) = "unlock"
    OBVIOUS
  <2> QED BY <1>1, <2>1 DEF UserOK, Other
<1>3. job[v].acquired = Owned(job[v])
  BY <1>1, <1>2 DEF UserOK, Proceeds
<1> QED BY <1>1, <1>2, <1>3 DEF UserOK, Holding

\* lock(), deploy(): no command that takes locks changes what runs on a target that
\* another user has locked, or that target's profile, unless its own lock was
\* removed by force, or its manifest lacks profiles.
THEOREM LocksKeepOthersOut == Spec => Undisturbed
<1> DEFINE Unchanged(u, v, t) ==
             (/\ u # v /\ lock[t] = u /\ job'[v] # job[v] /\ Running(v)
              /\ job[v].acquired # {} /\ ~ghost[v].forced /\ Covered(job[v])) =>
               /\ ~ChangedAt(t)
               /\ job[v].command = "deploy" => profile'[t] = profile[t]
<1>1. DeployInv /\ [Next]_vars => \A u, v \in User, t \in Target : Unchanged(u, v, t)
  <2> SUFFICES ASSUME DeployInv, [Next]_vars, NEW u \in User, NEW v \in User, NEW t \in Target,
                      u # v, lock[t] = u, job'[v] # job[v], Running(v),
                      job[v].acquired # {}, ~ghost[v].forced, Covered(job[v])
               PROVE  ~ChangedAt(t) /\ (job[v].command = "deploy" => profile'[t] = profile[t])
    OBVIOUS
  <2>1. Step(v)
    <3>1. PICK w \in User : Step(w)
      BY LateChanges DEF Next, vars
    <3> QED BY <3>1, OthersKeepTheirJob
  <2>2. ~ChangedAt(t)
    <3>1. CASE running' = running
      BY <3>1 DEF ChangedAt
    <3>2. CASE running' # running
      <4>1. At(v, "deactivate") \/ At(v, "activate")
        BY <2>1, <3>2, OnlyTransitionsChange
      <4>2. \A s \in Targets(job[v]) : lock[s] = v
        BY <4>1, LockedWhileWorking DEF Covered, At
      <4>3. Refers(job[v])
        BY DEF DeployInv, UserOK, Running, Runs
      <4>4. \A key : (key \in running') # (key \in running) => key[1] # t
        BY <2>1, <3>2, <4>2, <4>3, OnlyTransitionsChange, ChangesAreOnTargets
      <4> QED BY <4>4 DEF ChangedAt
    <3> QED BY <3>1, <3>2
  <2>3. ASSUME job[v].command = "deploy"
        PROVE  profile'[t] = profile[t]
    <3>1. Head(job[v].phases) # "collect"
      <4>1. Ordered(job[v].phases) /\ job[v].phases # <<>>
        BY <2>3 DEF DeployInv, UserOK, Proceeds, Running, Runs
      <4>2. Head(job[v].phases) \in DeployPhase
        BY <4>1 DEF Ordered
      <4> QED BY <4>2 DEF DeployPhase
    <3>2. profile' = profile \/ \E s \in Target : SetTarget(v, s)
      BY <2>1, <3>1
      DEF Step, Request, Begins, ForgetGenerations, FollowAdvice, NextCall, Distribute, MigrateData,
          Deactivate, Activate, SetCoordinator, ConvertManifest, CompareManifest, Elsewhere, Crash,
          VisitNobody, LockTarget, UnlockTarget, CollectGarbage, CaptureTarget, world, At
    <3>3. ASSUME NEW s \in Target, SetTarget(v, s)
          PROVE  profile'[t] = profile[t]
      <4>1. At(v, "targets") /\ s \in job[v].todo
        BY <3>3 DEF SetTarget
      <4>2. Proceeds(job[v]) /\ \A x \in Owned(job[v]) : lock[x] = v
        BY <4>1, LockedWhileWorking DEF At
      <4>3. s # t
        BY <4>1, <4>2 DEF Proceeds, At
      <4>4. profile' = profile \/ \E g : profile' = [profile EXCEPT ![s] = g]
        BY <3>3 DEF SetTarget
      <4>5. ASSUME NEW g, profile' = [profile EXCEPT ![s] = g]
            PROVE  profile'[t] = profile[t]
        BY <4>3, <4>5
      <4> QED BY <4>4, <4>5
    <3> QED BY <3>2, <3>3
  <2> QED BY <2>2, <2>3
<1>2. DeployInv /\ [Next]_vars =>
        \A u, v \in User, t \in Target :
         (/\ u # v /\ lock[t] = u /\ job'[v] # job[v] /\ Running(v)
          /\ job[v].acquired # {} /\ ~ghost[v].forced /\ Covered(job[v])) =>
           /\ ~ChangedAt(t)
           /\ job[v].command = "deploy" => profile'[t] = profile[t]
  BY <1>1
<1> QED BY <1>2, DeployInvariance, PTL DEF Spec, Undisturbed

-----------------------------------------------------------------------------
(* A deployment whose transition, profiles and coordinator's profile are   *)
(* as its manifest says when it is done.                                   *)

\* What comes after what in a deployment.
Follows ==
    {<<"distribute", "lock">>, <<"distribute", "deactivate">>, <<"lock", "deactivate">>,
     <<"deactivate", "activate">>, <<"activate", "migrate">>, <<"activate", "targets">>,
     <<"migrate", "targets">>, <<"targets", "coordinator">>, <<"coordinator", "unlock">>}

Chained(phases) ==
    /\ phases \in Seq(DeployPhase) /\ phases # <<>>
    /\ \A n \in 1 .. Len(phases) - 1 : <<phases[n], phases[n + 1]>> \in Follows
    /\ phases[Len(phases)] \in {"coordinator", "unlock"}

\* What ran on the machines of a deployment before it, and what runs on them.
Before(j) == {key \in IF j.old = None THEN {} ELSE Keys(j.old) : key[1] \in Targets(j)}
Here(j, r) == {key \in r : key[1] \in Targets(j)}

AsNew(j, r) ==
    /\ Keys(j.new) \subseteq Here(j, r)
    /\ Given(j.args, "no-upgrade") = None => Here(j, r) = Keys(j.new)

HasProfile(j, t, pr, st) ==
    t \in Target /\ pr[t] # <<>> /\ Last(pr[t]) = j.new.profiles[t] /\ j.new.profiles[t] \in st[t]

\* What a sound deployment has achieved when it is in a phase, and ...
Stage(j, r, pr, st) ==
    LET phase == Head(j.phases) IN
    /\ phase \in {"distribute", "lock", "deactivate"} => Here(j, r) = Before(j)
    /\ phase = "activate" => Here(j, r) = Before(j) \ Obsolete(j)
    /\ phase \in {"migrate", "targets", "coordinator"} => AsNew(j, r)
    /\ phase = "targets" => \A t \in Owned(j) \ j.todo : HasProfile(j, t, pr, st)
    /\ phase = "coordinator" => \A t \in Owned(j) : HasProfile(j, t, pr, st)

\* Only while it visits targets may a part of a phase have failed.
Planned(j, g, r, pr, st) ==
    j.command = "deploy" /\ Runs(j) =>
      /\ Chained(j.phases) /\ Given(j.args, "dry-run") = None
      /\ j.ok \in BOOLEAN /\ (j.ok \/ Head(j.phases) \in {"lock", "targets", "unlock"})
      /\ g.sound /\ j.ok => Stage(j, r, pr, st)

IsSeq(s) == \E S : s \in Seq(S)

PlanInv ==
    /\ DOMAIN profile = Target /\ DOMAIN store = Target /\ IsSeq(links)
    /\ \A t \in Target : IsSeq(profile[t])
    /\ \A u \in User : /\ ghost[u].sound \in BOOLEAN /\ (ghost[u].sound => ~ghost[u].forced)
                       /\ Planned(job[u], ghost[u], running, profile, store)

LEMMA DeployChained ==
  ASSUME NEW options
  PROVE  Chained(Phases("deploy", options)) /\ Head(Phases("deploy", options)) = "distribute"
<1> DEFINE L == Unless(options, "no-lock", "lock")
           M == Unless(options, "no-migration", "migrate")
           U == Unless(options, "no-lock", "unlock")
           p == <<"distribute">> \o L \o <<"deactivate", "activate">> \o M
                  \o <<"targets", "coordinator">> \o U
<1>1. Phases("deploy", options) = p
  BY DEF Phases
<1>2. p \in Seq(DeployPhase) /\ p # <<>>
  BY <1>1, DeployPhases DEF Ordered
<1>3. ASSUME Given(options, "no-lock") = None /\ Given(options, "no-migration") = None
      PROVE  Chained(p) /\ p[1] = "distribute"
  <2>1. /\ Len(p) = 8 /\ p[1] = "distribute" /\ p[2] = "lock" /\ p[3] = "deactivate" /\ p[4] = "activate"
        /\ p[5] = "migrate" /\ p[6] = "targets" /\ p[7] = "coordinator" /\ p[8] = "unlock"
    BY <1>3 DEF Unless
  <2> HIDE DEF p
  <2> QED BY <1>2, <2>1 DEF Chained, Follows
<1>4. ASSUME Given(options, "no-lock") = None /\ Given(options, "no-migration") # None
      PROVE  Chained(p) /\ p[1] = "distribute"
  <2>1. /\ Len(p) = 7 /\ p[1] = "distribute" /\ p[2] = "lock" /\ p[3] = "deactivate" /\ p[4] = "activate"
        /\ p[5] = "targets" /\ p[6] = "coordinator" /\ p[7] = "unlock"
    BY <1>4 DEF Unless
  <2> HIDE DEF p
  <2> QED BY <1>2, <2>1 DEF Chained, Follows
<1>5. ASSUME Given(options, "no-lock") # None /\ Given(options, "no-migration") = None
      PROVE  Chained(p) /\ p[1] = "distribute"
  <2>1. /\ Len(p) = 6 /\ p[1] = "distribute" /\ p[2] = "deactivate" /\ p[3] = "activate" /\ p[4] = "migrate"
        /\ p[5] = "targets" /\ p[6] = "coordinator"
    BY <1>5 DEF Unless
  <2> HIDE DEF p
  <2> QED BY <1>2, <2>1 DEF Chained, Follows
<1>6. ASSUME Given(options, "no-lock") # None /\ Given(options, "no-migration") # None
      PROVE  Chained(p) /\ p[1] = "distribute"
  <2>1. /\ Len(p) = 5 /\ p[1] = "distribute" /\ p[2] = "deactivate" /\ p[3] = "activate" /\ p[4] = "targets"
        /\ p[5] = "coordinator"
    BY <1>6 DEF Unless
  <2> HIDE DEF p
  <2> QED BY <1>2, <2>1 DEF Chained, Follows
<1>7. Chained(p) /\ Head(p) = "distribute"
  <2> HIDE DEF p
  <2>1. Head(p) = p[1]
    BY <1>2
  <2> QED BY <1>3, <1>4, <1>5, <1>6, <2>1
<1> QED BY <1>1, <1>7

LEMMA ChainGoesOn ==
  ASSUME NEW p, Chained(p)
  PROVE  \E rest :
           /\ rest = Tail(p) /\ Len(p) \in Nat \ {0} /\ Head(p) \in DeployPhase
           /\ Len(p) = 1 => Head(p) \in {"coordinator", "unlock"}
           /\ Len(p) # 1 => Chained(rest) /\ <<Head(p), Head(rest)>> \in Follows
<1>1. p \in Seq(DeployPhase) /\ Len(p) \in Nat \ {0} /\ Head(p) = p[1] /\ p[1] \in DeployPhase
  BY DEF Chained
<1>2. PICK rest : rest = Tail(p)
  OBVIOUS
<1>3. Len(p) = 1 => p[1] \in {"coordinator", "unlock"}
  BY DEF Chained
<1>4. ASSUME Len(p) # 1
      PROVE  Chained(rest) /\ <<p[1], Head(rest)>> \in Follows
  <2>1. /\ rest \in Seq(DeployPhase) /\ Len(rest) = Len(p) - 1
        /\ \A n \in 1 .. Len(rest) : rest[n] = p[n + 1]
    BY <1>1, <1>2
  <2>2. PICK k \in Nat \ {0} : k = Len(rest) /\ Len(p) = k + 1
    BY <1>1, <1>4, <2>1
  <2>3. \A n \in 1 .. k - 1 : /\ n \in 1 .. k /\ n + 1 \in 1 .. k /\ n + 1 \in 1 .. (k + 1) - 1
    BY <2>2
  <2>4. \A n \in 1 .. k - 1 : <<rest[n], rest[n + 1]>> \in Follows
    BY <2>1, <2>2, <2>3 DEF Chained
  <2>5. rest[k] = p[k + 1] /\ rest # <<>> /\ Head(rest) = rest[1] /\ rest[1] = p[1 + 1]
    BY <2>1, <2>2
  <2>6. <<p[1], p[1 + 1]>> \in Follows
    BY <2>2 DEF Chained
  <2> QED BY <2>1, <2>2, <2>4, <2>5, <2>6 DEF Chained
<1> QED BY <1>1, <1>2, <1>3, <1>4

\* The options of a deployment do not include a dry run.
LEMMA NoDryRun ==
  ASSUME NEW args, NEW operands, Parse("deploy", args, operands) = "runs"
  PROVE  Given(args, "dry-run") = None
<1>1. DOMAIN args \subseteq disnix_deploy.options
  BY DEF Parse, Commands
<1>2. \A spelling \in disnix_deploy.options : Option(spelling) # "dry-run"
  BY DEF disnix_deploy, Command, Profiles, Transfers, Option, Letters
<1>3. {spelling \in DOMAIN args : Option(spelling) = "dry-run"} = {}
  BY <1>1, <1>2
<1> QED BY <1>3 DEF Given

\* A command keeps what it is about.
About(k, j) ==
    /\ DOMAIN k = JobFields /\ k.command = j.command /\ k.args = j.args /\ k.file = j.file
    /\ k.new = j.new /\ k.old = j.old

LEMMA AboutTheSame ==
  ASSUME NEW k, NEW j, About(k, j), NEW r, NEW pr, NEW st
  PROVE  /\ Before(k) = Before(j) /\ Here(k, r) = Here(j, r) /\ Obsolete(k) = Obsolete(j)
         /\ AsNew(k, r) <=> AsNew(j, r)
         /\ Owned(k) = Owned(j) /\ \A t : HasProfile(k, t, pr, st) <=> HasProfile(j, t, pr, st)
         /\ Given(k.args, "dry-run") = Given(j.args, "dry-run")
<1>1. k.args = j.args /\ k.new = j.new /\ k.old = j.old
  BY DEF About
<1>2. Targets(k) = Targets(j) /\ Owned(k) = Owned(j) /\ FromScratch(k) = FromScratch(j)
  BY <1>1 DEF Targets, Owned, FromScratch
<1>3. Before(k) = Before(j) /\ Here(k, r) = Here(j, r) /\ Obsolete(k) = Obsolete(j)
  BY <1>1, <1>2 DEF Before, Here, Obsolete
<1> QED BY <1>1, <1>2, <1>3 DEF AsNew, HasProfile

\* ... what it has achieved when the phase ends well.
PhaseDone(j, r, pr, st) ==
    LET phase == Head(j.phases) IN
    /\ phase \in {"distribute", "lock"} => Here(j, r) = Before(j)
    /\ phase = "deactivate" => Here(j, r) = Before(j) \ Obsolete(j)
    /\ phase \in {"activate", "migrate", "targets"} => AsNew(j, r)
    /\ phase = "targets" => \A t \in Owned(j) : HasProfile(j, t, pr, st)

LEMMA EnterAbout ==
  ASSUME NEW j, NEW phases, DOMAIN j = JobFields, phases # <<>>
  PROVE  LET k == Enter(j, phases)
         IN  /\ About(k, j) /\ k.phases = phases /\ k.todo = Visits(Head(phases), j.new)
             /\ k.ok = j.ok /\ k.exit = j.exit
  BY DEF Enter, JobFields, About

LEMMA ExitPlanned ==
  ASSUME NEW j, NEW status, DOMAIN j = JobFields, NEW g, NEW r, NEW pr, NEW st
  PROVE  Planned(Exit(j, status), g, r, pr, st)
<1>1. Exit(j, status).phases = <<>>
  BY ExitJob
<1> QED BY <1>1 DEF Planned, Runs

LEMMA EndedPlanned ==
  ASSUME NEW j, NEW g, NEW r, NEW pr, NEW st, Planned(j, g, r, pr, st)
  PROVE  Planned(Ended(j), g, r, pr, st)
<1>1. CASE j.exit = "none" \/ j.calls # <<>>
  BY <1>1 DEF Ended
<1>2. CASE ~(j.exit = "none" \/ j.calls # <<>>)
  <2>1. Ended(j).phases = <<>>
    BY <1>2 DEF Ended, NoJob
  <2> QED BY <2>1 DEF Planned, Runs
<1> QED BY <1>1, <1>2

LEMMA FailPlanned ==
  ASSUME NEW j, DOMAIN j = JobFields, NEW g, NEW r, NEW pr, NEW st,
         Given(j.args, "dry-run") = None
  PROVE  Planned(Fail(j), g, r, pr, st)
<1> DEFINE p == j.phases
<1>1. CASE Last(p) = "unlock" /\ Len(p) > 1 /\ Head(p) \notin {"distribute", "lock"}
  <2>1. PICK e : e = Enter(j, <<"unlock">>)
    OBVIOUS
  <2>2. PICK k : k = [e EXCEPT !.ok = FALSE]
    OBVIOUS
  <2>3. Fail(j) = k
    BY <1>1, <2>1, <2>2 DEF Fail
  <2>4. About(e, j) /\ e.phases = <<"unlock">>
    BY <2>1, EnterAbout
  <2>5. k.phases = <<"unlock">> /\ k.ok = FALSE /\ k.args = j.args
    BY <2>2, <2>4 DEF About, JobFields
  <2>6. Chained(<<"unlock">>) /\ Head(<<"unlock">>) = "unlock"
    BY DEF Chained, DeployPhase
  <2> QED BY <2>3, <2>5, <2>6 DEF Planned
<1>2. CASE ~(Last(p) = "unlock" /\ Len(p) > 1 /\ Head(p) \notin {"distribute", "lock"})
  <2>1. Fail(j) = Exit(j, "1")
    BY <1>2 DEF Fail
  <2> QED BY <2>1, ExitPlanned
<1> QED BY <1>1, <1>2

LEMMA SucceedPlanned ==
  ASSUME NEW j, DOMAIN j = JobFields, NEW g, NEW r, NEW pr, NEW st,
         Chained(j.phases), Given(j.args, "dry-run") = None, j.ok = TRUE,
         g.sound => PhaseDone(j, r, pr, st)
  PROVE  Planned(Succeed(j), g, r, pr, st)
<1> DEFINE p == j.phases
<1>1. PICK rest :
           /\ rest = Tail(p) /\ Len(p) \in Nat \ {0} /\ Head(p) \in DeployPhase
           /\ Len(p) = 1 => Head(p) \in {"coordinator", "unlock"}
           /\ Len(p) # 1 => Chained(rest) /\ <<Head(p), Head(rest)>> \in Follows
  BY ChainGoesOn
<1>2. CASE Len(p) = 1
  <2>1. Succeed(j) = Exit(j, "0")
    BY <1>2 DEF Succeed
  <2> QED BY <2>1, ExitPlanned
<1>3. CASE Len(p) # 1
  <2>1. PICK k : k = Enter(j, rest)
    OBVIOUS
  <2>2. Succeed(j) = k /\ rest # <<>>
    BY <1>1, <1>3, <2>1 DEF Succeed, Chained
  <2>3. About(k, j) /\ k.phases = rest /\ k.todo = Visits(Head(rest), j.new) /\ k.ok = TRUE
    BY <2>1, <2>2, EnterAbout
  <2>4. PICK h, n : h = Head(p) /\ n = Head(rest)
    OBVIOUS
  <2>5. <<h, n>> \in Follows
    BY <1>1, <1>3, <2>4
  <2>6. n = "targets" => k.todo = Owned(j)
    BY <2>3, <2>4 DEF Visits, Owned
  <2>7. g.sound => Stage(k, r, pr, st)
    <3> SUFFICES ASSUME g.sound PROVE Stage(k, r, pr, st)
      OBVIOUS
    <3>1. PhaseDone(j, r, pr, st)
      OBVIOUS
    <3>2. /\ n \in {"distribute", "lock", "deactivate"} => h \in {"distribute", "lock"}
          /\ n = "activate" => h = "deactivate"
          /\ n \in {"migrate", "targets", "coordinator"} => h \in {"activate", "migrate", "targets"}
          /\ n = "coordinator" => h = "targets"
      BY <2>5 DEF Follows
    <3>3. /\ n \in {"distribute", "lock", "deactivate"} => Here(j, r) = Before(j)
          /\ n = "activate" => Here(j, r) = Before(j) \ Obsolete(j)
          /\ n \in {"migrate", "targets", "coordinator"} => AsNew(j, r)
          /\ n = "coordinator" => \A t \in Owned(j) : HasProfile(j, t, pr, st)
      BY <2>4, <3>1, <3>2 DEF PhaseDone
    <3>4. /\ Before(k) = Before(j) /\ Here(k, r) = Here(j, r) /\ Obsolete(k) = Obsolete(j)
          /\ AsNew(k, r) <=> AsNew(j, r)
          /\ Owned(k) = Owned(j) /\ \A t : HasProfile(k, t, pr, st) <=> HasProfile(j, t, pr, st)
      BY <2>3, AboutTheSame
    <3> QED BY <2>3, <2>4, <2>6, <3>3, <3>4 DEF Stage
  <2>8. Given(k.args, "dry-run") = None
    BY <2>3 DEF About
  <2> QED BY <1>1, <1>3, <2>2, <2>3, <2>7, <2>8 DEF Planned
<1> QED BY <1>2, <1>3

\* The mappings of the new manifest are active when those that are obsolete were
\* deactivated and those that are new activated.
LEMMA TransitionComplete ==
  ASSUME NEW j, Refers(j), NEW r, NEW q, Here(j, r) = Before(j) \ Obsolete(j), q = r \cup Added(j)
  PROVE  AsNew(j, q)
<1>1. Here(j, q) = (Before(j) \ Obsolete(j)) \cup Added(j)
  BY ChangesAreOnTargets DEF Here
<1>2. \A key \in Keys(j.new) : key[1] \in Targets(j)
  BY DEF Keys, ServiceKey, Refers
<1>3. CASE FromScratch(j)
  <2>1. Added(j) = Keys(j.new)
    BY <1>3 DEF Added, Keys
  <2>2. Given(j.args, "no-upgrade") = None => Before(j) = {}
    BY <1>3 DEF FromScratch, Before
  <2> QED BY <1>1, <2>1, <2>2 DEF AsNew
<1>4. CASE ~FromScratch(j)
  <2>1. PICK o, n : o = Keys(j.old) /\ n = Keys(j.new)
    OBVIOUS
  <2>2. Before(j) = {key \in o : key[1] \in Targets(j)}
    BY <1>4, <2>1 DEF FromScratch, Before
  <2>3. Added(j) = n \ o
    BY <1>4, <2>1 DEF Added, Keys, subtract_service_mapping_array, find_service_mapping
  <2>4. Obsolete(j) = {key \in o \ n : key[1] \in Targets(j)}
    BY <1>4, <2>1 DEF Obsolete, Keys, subtract_service_mapping_array, find_service_mapping, ServiceKey
  <2>5. (Before(j) \ Obsolete(j)) \cup Added(j) = n
    BY <1>2, <2>1, <2>2, <2>3, <2>4
  <2> QED BY <1>1, <2>1, <2>5 DEF AsNew
<1> QED BY <1>3, <1>4

\* What visiting makes of a deployment.
LEMMA EndVisitsPlanned ==
  ASSUME NEW j, DOMAIN j = JobFields, NEW g, NEW r, NEW pr, NEW st,
         Chained(j.phases), Given(j.args, "dry-run") = None, j.ok \in BOOLEAN,
         g.sound /\ j.ok => PhaseDone(j, r, pr, st)
  PROVE  Planned(EndVisits(j), g, r, pr, st)
<1>1. CASE j.ok
  BY <1>1, SucceedPlanned DEF EndVisits
<1>2. CASE ~j.ok
  BY <1>2, FailPlanned DEF EndVisits
<1> QED BY <1>1, <1>2

\* Of its own steps a command keeps what is known of what others did.
LEMMA OwnGhost ==
  ASSUME DeployInv, NEW u \in User, Untouched \/ \E spared : Spoils(u, spared)
  PROVE  ghost'[u] = ghost[u]
  BY DEF Untouched, Spoils, DeployInv

\* A deployment that runs.
LEMMA DeploymentNow ==
  ASSUME DeployInv, PlanInv, NEW u \in User, Running(u), job[u].command = "deploy"
  PROVE  LET j == job[u]
         IN  /\ DOMAIN j = JobFields /\ Runs(j) /\ Refers(j) /\ ~Dry(j) /\ Given(j.args, "dry-run") = None
             /\ Chained(j.phases) /\ Head(j.phases) \in DeployPhase
             /\ j.ok \in BOOLEAN /\ (j.ok \/ Head(j.phases) \in {"lock", "targets", "unlock"})
             /\ ghost[u].sound /\ j.ok => Stage(j, running, profile, store)
<1>1. DOMAIN job[u] = JobFields /\ Runs(job[u]) /\ Refers(job[u])
  BY DEF DeployInv, UserOK, Running, Runs
<1>2. Chained(job[u].phases) => Head(job[u].phases) \in DeployPhase
  BY ChainGoesOn
<1> QED BY <1>1, <1>2 DEF PlanInv, Planned, Dry

LEMMA SetPlanned ==
  ASSUME DeployInv, NEW u \in User, NEW k, Set(u, k), Planned(k, ghost'[u], running', profile', store')
  PROVE  Planned(job'[u], ghost'[u], running', profile', store')
<1>1. job'[u] = Ended(k)
  BY DEF Set, DeployInv
<1> QED BY <1>1, EndedPlanned

\* The end of a phase keeps the plan, if the phase did its part or fails.
LEMMA SucceedsPlanned ==
  ASSUME DeployInv, PlanInv, NEW u \in User, Running(u), job[u].command = "deploy",
         Head(job[u].phases) \notin {"lock", "targets", "unlock"},
         Succeeds(u), ghost'[u] = ghost[u],
         ghost[u].sound => PhaseDone(job[u], running', profile', store')
  PROVE  Planned(job'[u], ghost'[u], running', profile', store')
<1> DEFINE j == job[u]
<1>1. DOMAIN j = JobFields /\ Chained(j.phases) /\ Given(j.args, "dry-run") = None /\ j.ok = TRUE
  BY DeploymentNow
<1>2. PICK g, r, pr, st : g = ghost'[u] /\ r = running' /\ pr = profile' /\ st = store'
  OBVIOUS
<1>3. g.sound => PhaseDone(j, r, pr, st)
  BY <1>2
<1>4. Planned(Succeed(j), g, r, pr, st)
  BY <1>1, <1>3, SucceedPlanned
<1> QED BY <1>2, <1>4, SetPlanned DEF Succeeds

LEMMA FailsPlanned ==
  ASSUME DeployInv, PlanInv, NEW u \in User, Running(u), job[u].command = "deploy",
         NEW status, Fails(u, status)
  PROVE  Planned(job'[u], ghost'[u], running', profile', store')
<1> DEFINE j == job[u]
<1>1. DOMAIN j = JobFields /\ Given(j.args, "dry-run") = None
  BY DeploymentNow
<1>2. PICK k : k = [j EXCEPT !.status = status]
  OBVIOUS
<1>3. DOMAIN k = JobFields /\ k.args = j.args
  BY <1>1, <1>2 DEF JobFields
<1>4. Planned(Fail(k), ghost'[u], running', profile', store')
  BY <1>1, <1>3, FailPlanned
<1> QED BY <1>2, <1>4, SetPlanned DEF Fails

LEMMA WorkPlanned ==
  ASSUME DeployInv, PlanInv, NEW u \in User, job[u].command = "deploy",
         Distribute(u) \/ Deactivate(u) \/ Activate(u) \/ MigrateData(u) \/ SetCoordinator(u)
  PROVE  Planned(job'[u], ghost'[u], running', profile', store')
<1> DEFINE j == job[u]
           h == Head(job[u].phases)
<1>1. Running(u) /\ h \in {"distribute", "deactivate", "activate", "migrate", "coordinator"}
  BY DEF Distribute, Deactivate, Activate, MigrateData, SetCoordinator, At
<1>2. ghost'[u] = ghost[u]
  <2>1. Untouched \/ (\E spared : Spoils(u, spared))
    BY DEF Distribute, Deactivate, Activate, MigrateData, SetCoordinator, Touches
  <2> QED BY <2>1, OwnGhost
<1>3. /\ ~Dry(j) /\ Refers(j)
      /\ ghost[u].sound => Stage(j, running, profile, store)
  BY <1>1, DeploymentNow
<1>4. PICK r, pr, st : r = running' /\ pr = profile' /\ st = store'
  OBVIOUS
<1>5. ASSUME Succeeds(u), ghost[u].sound => PhaseDone(j, r, pr, st)
      PROVE  Planned(job'[u], ghost'[u], running', profile', store')
  BY <1>1, <1>2, <1>4, <1>5, SucceedsPlanned
<1>6. (\E status : Fails(u, status)) => Planned(job'[u], ghost'[u], running', profile', store')
  BY <1>1, FailsPlanned
<1>7. CASE Distribute(u)
  <2>1. h = "distribute" /\ r = running
    BY <1>4, <1>7 DEF Distribute, At
  <2>2. ghost[u].sound => PhaseDone(j, r, pr, st)
    BY <1>3, <2>1 DEF Stage, PhaseDone
  <2> QED BY <1>5, <1>6, <1>7, <2>2 DEF Distribute
<1>8. CASE Deactivate(u)
  <2>1. h = "deactivate"
    BY <1>8 DEF Deactivate, At
  <2>2. ASSUME r = running \ Obsolete(j), ghost[u].sound
        PROVE  PhaseDone(j, r, pr, st)
    <3>1. Here(j, r) = Here(j, running) \ Obsolete(j)
      BY <2>2 DEF Here
    <3> QED BY <1>3, <2>1, <2>2, <3>1 DEF Stage, PhaseDone
  <2>3. (r = running \ Obsolete(j) /\ Succeeds(u)) \/ \E status : Fails(u, status)
    BY <1>3, <1>4, <1>8 DEF Deactivate
  <2> QED BY <1>5, <1>6, <2>2, <2>3
<1>9. CASE Activate(u)
  <2>1. h = "activate"
    BY <1>9 DEF Activate, At
  <2>2. ASSUME r = running \cup Added(j), ghost[u].sound
        PROVE  PhaseDone(j, r, pr, st)
    <3>1. Here(j, running) = Before(j) \ Obsolete(j)
      BY <1>3, <2>1, <2>2 DEF Stage
    <3>2. AsNew(j, r)
      BY <1>3, <2>2, <3>1, TransitionComplete
    <3> QED BY <2>1, <3>2 DEF PhaseDone
  <2>3. (r = running \cup Added(j) /\ Succeeds(u)) \/ \E status : Fails(u, status)
    BY <1>3, <1>4, <1>9 DEF Activate
  <2> QED BY <1>5, <1>6, <2>2, <2>3
<1>10. CASE MigrateData(u)
  <2>1. h = "migrate" /\ r = running
    BY <1>4, <1>10 DEF MigrateData, At, world
  <2>2. ghost[u].sound => PhaseDone(j, r, pr, st)
    BY <1>3, <2>1 DEF Stage, PhaseDone
  <2> QED BY <1>5, <1>6, <1>10, <2>2 DEF MigrateData
<1>11. CASE SetCoordinator(u)
  <2>1. h = "coordinator"
    BY <1>11 DEF SetCoordinator, At
  <2>2. PhaseDone(j, r, pr, st)
    BY <2>1 DEF PhaseDone
  <2> QED BY <1>5, <1>6, <1>11, <2>2 DEF SetCoordinator
<1> QED BY <1>7, <1>8, <1>9, <1>10, <1>11

\* Locking keeps the plan: nothing happened to the targets yet.
LEMMA LockPlanned ==
  ASSUME DeployInv, PlanInv, NEW u \in User, job[u].command = "deploy", NEW t \in Target, LockTarget(u, t)
  PROVE  Planned(job'[u], ghost'[u], running', profile', store')
<1> DEFINE j == job[u]
<1>1. /\ Running(u) /\ Head(j.phases) = "lock" /\ running' = running /\ ghost'[u] = ghost[u]
  BY OwnGhost DEF LockTarget, At
<1>2. /\ DOMAIN j = JobFields /\ Runs(j) /\ Given(j.args, "dry-run") = None
      /\ Chained(j.phases) /\ j.ok \in BOOLEAN
      /\ ghost[u].sound /\ j.ok => Stage(j, running, profile, store)
  BY <1>1, DeploymentNow
<1>3. \E k : /\ Set(u, AfterLocking(k)) /\ About(k, j) /\ k.phases = j.phases /\ k.exit = j.exit
             /\ k.ok = j.ok \/ k.ok = FALSE
  <2>1. PICK k : Asks(u, t, k) /\ Set(u, AfterLocking(k))
    BY <1>2, LockOutcomes
  <2>2. About(k, j) /\ k.phases = j.phases /\ k.exit = j.exit /\ (k.ok = j.ok \/ k.ok = FALSE)
    <3>1. k.args = j.args /\ k.file = j.file /\ k.old = j.old
      BY <2>1 DEF Asks, JobFields
    <3> QED BY <1>2, <2>1, <3>1 DEF Asks, About
  <2> QED BY <2>1, <2>2
<1>4. PICK k : /\ Set(u, AfterLocking(k)) /\ About(k, j) /\ k.phases = j.phases /\ k.exit = j.exit
               /\ k.ok = j.ok \/ k.ok = FALSE
  BY <1>3
<1>5. PICK g, r, pr, st : g = ghost'[u] /\ r = running' /\ pr = profile' /\ st = store'
  OBVIOUS
<1>6. /\ Before(k) = Before(j) /\ Here(k, r) = Here(j, r) /\ Given(k.args, "dry-run") = None
      /\ DOMAIN k = JobFields /\ k.ok \in BOOLEAN /\ Runs(k)
  BY <1>2, <1>4, AboutTheSame DEF About, Runs
<1>7. g.sound /\ k.ok => Here(k, r) = Before(k)
  BY <1>1, <1>2, <1>4, <1>5, <1>6 DEF Stage
<1>8. CASE k.todo # {}
  <2>1. AfterLocking(k) = k
    BY <1>8 DEF AfterLocking
  <2>2. g.sound /\ k.ok => Stage(k, r, pr, st)
    BY <1>1, <1>4, <1>7 DEF Stage
  <2>3. Planned(k, g, r, pr, st)
    BY <1>1, <1>2, <1>4, <1>6, <2>2 DEF Planned
  <2> QED BY <1>4, <1>5, <2>1, <2>3, SetPlanned
<1>9. CASE k.todo = {} /\ k.ok
  <2>1. AfterLocking(k) = Succeed(k)
    BY <1>9 DEF AfterLocking
  <2>2. g.sound => PhaseDone(k, r, pr, st)
    BY <1>1, <1>4, <1>7, <1>9 DEF PhaseDone
  <2>3. Planned(Succeed(k), g, r, pr, st)
    BY <1>2, <1>4, <1>6, <1>9, <2>2, SucceedPlanned
  <2> QED BY <1>4, <1>5, <2>1, <2>3, SetPlanned
<1>10. CASE k.todo = {} /\ ~k.ok /\ k.acquired = {}
  <2>1. AfterLocking(k) = Exit(k, "1")
    BY <1>10 DEF AfterLocking
  <2> QED BY <1>4, <1>6, <2>1, ExitPlanned, SetPlanned
<1>11. CASE k.todo = {} /\ ~k.ok /\ k.acquired # {}
  <2>1. PICK i : i = [k EXCEPT !.phases = <<"unlock">>, !.todo = k.acquired]
    OBVIOUS
  <2>2. AfterLocking(k) = i
    BY <1>11, <2>1 DEF AfterLocking
  <2>3. i.phases = <<"unlock">> /\ i.ok = FALSE /\ i.args = k.args
    BY <1>6, <1>11, <2>1 DEF JobFields
  <2>4. Chained(<<"unlock">>) /\ Head(<<"unlock">>) = "unlock"
    BY DEF Chained, DeployPhase
  <2>5. Planned(i, g, r, pr, st)
    BY <1>6, <2>3, <2>4 DEF Planned
  <2> QED BY <1>4, <1>5, <2>2, <2>5, SetPlanned
<1> QED BY <1>8, <1>9, <1>10, <1>11

LEMMA GenerationLast ==
  ASSUME NEW g, IsSeq(g), NEW path
  PROVE  /\ IsSeq(Generation(g, path)) /\ Generation(g, path) # <<>> /\ Last(Generation(g, path)) = path
<1>1. CASE g # <<>> /\ Last(g) = path
  BY <1>1 DEF Generation
<1>2. CASE ~(g # <<>> /\ Last(g) = path)
  <2>1. PICK S : g \in Seq(S)
    BY DEF IsSeq
  <2>2. PICK T : T = S \cup {path}
    OBVIOUS
  <2>3. g \in Seq(T) /\ path \in T
    BY <2>1, <2>2
  <2>4. PICK n : n = Append(g, path)
    OBVIOUS
  <2>5. n \in Seq(T) /\ Len(n) = Len(g) + 1 /\ Len(g) \in Nat /\ n[Len(g) + 1] = path
    BY <2>3, <2>4
  <2>6. n # <<>> /\ Last(n) = path
    BY <2>5 DEF Last
  <2> QED BY <1>2, <2>4, <2>5, <2>6 DEF Generation, IsSeq
<1> QED BY <1>1, <1>2

\* A target is visited, well or not.
LEMMA VisitedPlanned ==
  ASSUME NEW j, DOMAIN j = JobFields, Runs(j), NEW g, NEW r, NEW pr, NEW st, NEW t, NEW good \in BOOLEAN,
         Chained(j.phases), Head(j.phases) \in {"targets", "unlock"},
         Given(j.args, "dry-run") = None, j.ok \in BOOLEAN,
         g.sound /\ j.ok /\ good /\ Head(j.phases) = "targets" =>
           AsNew(j, r) /\ \A s \in Owned(j) : s \notin j.todo \ {t} => HasProfile(j, s, pr, st)
  PROVE  Planned(Visited(j, t, good), g, r, pr, st)
<1>1. PICK k : k = [j EXCEPT !.todo = @ \ {t}, !.ok = @ /\ good]
  OBVIOUS
<1>2. /\ About(k, j) /\ k.phases = j.phases /\ k.todo = j.todo \ {t} /\ k.exit = j.exit
      /\ k.ok = (j.ok /\ good)
  BY <1>1 DEF About, JobFields
<1>3. DOMAIN k = JobFields /\ Given(k.args, "dry-run") = None /\ k.ok \in BOOLEAN /\ Runs(k)
  BY <1>2 DEF About, Runs
<1>4. Owned(k) = Owned(j) /\ (AsNew(k, r) <=> AsNew(j, r)) /\ \A s : HasProfile(k, s, pr, st) <=> HasProfile(j, s, pr, st)
  BY <1>2, AboutTheSame
<1>5. g.sound /\ k.ok /\ Head(k.phases) = "targets" =>
        AsNew(k, r) /\ \A s \in Owned(k) \ k.todo : HasProfile(k, s, pr, st)
  BY <1>2, <1>4
<1>6. CASE k.todo # {}
  <2>1. Visited(j, t, good) = k
    BY <1>1, <1>6 DEF Visited
  <2>2. g.sound /\ k.ok => Stage(k, r, pr, st)
    BY <1>2, <1>5 DEF Stage
  <2> QED BY <1>2, <1>3, <2>1, <2>2 DEF Planned
<1>7. CASE k.todo = {}
  <2>1. Visited(j, t, good) = EndVisits(k)
    BY <1>1, <1>7 DEF Visited
  <2>2. g.sound /\ k.ok => PhaseDone(k, r, pr, st)
    BY <1>2, <1>5, <1>7 DEF PhaseDone
  <2> QED BY <1>2, <1>3, <2>1, <2>2, EndVisitsPlanned
<1> QED BY <1>6, <1>7

LEMMA SetTargetPlanned ==
  ASSUME DeployInv, PlanInv, NEW u \in User, job[u].command = "deploy", NEW t \in Target, SetTarget(u, t)
  PROVE  Planned(job'[u], ghost'[u], running', profile', store')
<1> DEFINE j == job[u]
<1>1. /\ Running(u) /\ Head(j.phases) = "targets" /\ running' = running /\ ghost'[u] = ghost[u]
      /\ store' = store
  BY OwnGhost DEF SetTarget, At, Touches
<1>2. /\ DOMAIN j = JobFields /\ Runs(j) /\ Given(j.args, "dry-run") = None
      /\ Chained(j.phases) /\ j.ok \in BOOLEAN
      /\ ghost[u].sound /\ j.ok => Stage(j, running, profile, store)
  BY <1>1, DeploymentNow
<1>3. PICK g, r, pr, st : g = ghost'[u] /\ r = running' /\ pr = profile' /\ st = store'
  OBVIOUS
<1>4. PICK path : path = j.new.profiles[t]
  OBVIOUS
<1>5. g.sound /\ j.ok => AsNew(j, r) /\ \A s \in Owned(j) \ j.todo : HasProfile(j, s, profile, store)
  BY <1>1, <1>2, <1>3 DEF Stage
<1>6. CASE path \in store[t] /\ profile' = [profile EXCEPT ![t] = Generation(@, path)] /\ Set(u, Visited(j, t, TRUE))
  <2>1. pr[t] = Generation(profile[t], path) /\ \A s : s # t => pr[s] = profile[s]
    BY <1>3, <1>6 DEF PlanInv
  <2>2. HasProfile(j, t, pr, st)
    BY <1>1, <1>3, <1>4, <1>6, <2>1, GenerationLast DEF HasProfile, PlanInv
  <2>3. g.sound /\ j.ok => \A s \in Owned(j) : s \notin j.todo \ {t} => HasProfile(j, s, pr, st)
    BY <1>1, <1>3, <1>5, <2>1, <2>2 DEF HasProfile
  <2>4. Planned(Visited(j, t, TRUE), g, r, pr, st)
    BY <1>1, <1>2, <1>5, <2>3, VisitedPlanned
  <2> QED BY <1>3, <1>6, <2>4, SetPlanned
<1>7. CASE Set(u, Visited(j, t, FALSE))
  <2>1. Planned(Visited(j, t, FALSE), g, r, pr, st)
    BY <1>1, <1>2, VisitedPlanned
  <2> QED BY <1>3, <1>7, <2>1, SetPlanned
<1> QED BY <1>4, <1>6, <1>7 DEF SetTarget

LEMMA UnlockPlanned ==
  ASSUME DeployInv, PlanInv, NEW u \in User, job[u].command = "deploy", NEW t \in Target, UnlockTarget(u, t)
  PROVE  Planned(job'[u], ghost'[u], running', profile', store')
<1> DEFINE i == job[u]
<1>1. Running(u) /\ Head(i.phases) = "unlock"
  BY DEF UnlockTarget, At
<1>2. /\ DOMAIN i = JobFields /\ Runs(i) /\ Given(i.args, "dry-run") = None
      /\ Chained(i.phases) /\ i.ok \in BOOLEAN
  BY <1>1, DeploymentNow
<1>3. PICK k : k = [i EXCEPT !.astray = @ \cup {t}]
  OBVIOUS
<1>4. /\ DOMAIN k = JobFields /\ Runs(k) /\ k.args = i.args /\ k.phases = i.phases /\ k.ok = i.ok
  BY <1>2, <1>3 DEF JobFields, Runs
<1>5. \/ Set(u, Visited(i, t, TRUE)) \/ Set(u, Visited(i, t, FALSE))
      \/ Set(u, Visited(k, t, FALSE))
  BY <1>3 DEF UnlockTarget
<1>6. PICK g, r, pr, st : g = ghost'[u] /\ r = running' /\ pr = profile' /\ st = store'
  OBVIOUS
<1>7. /\ Planned(Visited(i, t, TRUE), g, r, pr, st) /\ Planned(Visited(i, t, FALSE), g, r, pr, st)
      /\ Planned(Visited(k, t, FALSE), g, r, pr, st)
  BY <1>1, <1>2, <1>4, VisitedPlanned
<1> QED BY <1>5, <1>6, <1>7, SetPlanned

LEMMA NobodyPlanned ==
  ASSUME DeployInv, PlanInv, NEW u \in User, job[u].command = "deploy", VisitNobody(u)
  PROVE  Planned(job'[u], ghost'[u], running', profile', store')
<1> DEFINE j == job[u]
<1>1. /\ Running(u) /\ j.todo = {} /\ Set(u, EndVisits(j)) /\ ghost' = ghost
      /\ running' = running /\ profile' = profile /\ store' = store
      /\ Head(j.phases) \in {"lock", "unlock", "targets", "collect", "capture"}
  BY DEF VisitNobody, world, Untouched
<1>2. /\ DOMAIN j = JobFields /\ Given(j.args, "dry-run") = None
      /\ Chained(j.phases) /\ j.ok \in BOOLEAN
      /\ ghost[u].sound /\ j.ok => Stage(j, running, profile, store)
  BY <1>1, DeploymentNow
<1>3. ghost[u].sound /\ j.ok => PhaseDone(j, running, profile, store)
  BY <1>1, <1>2 DEF Stage, PhaseDone
<1>4. Planned(EndVisits(j), ghost[u], running, profile, store)
  BY <1>2, <1>3, EndVisitsPlanned
<1> QED BY <1>1, <1>4, SetPlanned

-----------------------------------------------------------------------------
(* A user's own steps keep the plan. *)

LEMMA CommandKept ==
  ASSUME NEW j, DOMAIN j = JobFields
  PROVE  /\ Succeed(j).command = j.command /\ Fail(j).command = j.command
         /\ EndVisits(j).command = j.command /\ AfterLocking(j).command = j.command
         /\ \A status : Exit(j, status).command = j.command
         /\ \A t, ok : Visited(j, t, ok).command = j.command
<1>1. ASSUME NEW k, DOMAIN k = JobFields
      PROVE  /\ Succeed(k).command = k.command /\ Fail(k).command = k.command
             /\ \A status : Exit(k, status).command = k.command
  <2>1. \A status : Exit(k, status).command = k.command
    BY <1>1, ExitJob
  <2>2. ASSUME NEW phases
        PROVE  /\ Enter(k, phases).command = k.command
               /\ [Enter(k, phases) EXCEPT !.ok = FALSE].command = k.command
    <3>1. PICK e : e = Enter(k, phases)
      OBVIOUS
    <3>2. DOMAIN e = JobFields /\ e.command = k.command
      BY <1>1, <3>1 DEF Enter, JobFields
    <3> QED BY <3>1, <3>2 DEF JobFields
  <2> QED BY <2>1, <2>2 DEF Succeed, Fail
<1>2. AfterLocking(j).command = j.command
  <2>1. [j EXCEPT !.phases = <<"unlock">>, !.todo = j.acquired].command = j.command
    BY DEF JobFields
  <2> QED BY <1>1, <2>1 DEF AfterLocking
<1>3. ASSUME NEW t, NEW ok
      PROVE  Visited(j, t, ok).command = j.command
  <2>1. PICK k : k = [j EXCEPT !.todo = @ \ {t}, !.ok = @ /\ ok]
    OBVIOUS
  <2>2. DOMAIN k = JobFields /\ k.command = j.command
    BY <2>1 DEF JobFields
  <2>3. Visited(j, t, ok) \in {k, Succeed(k), Fail(k)}
    BY <2>1 DEF Visited, EndVisits
  <2> QED BY <1>1, <2>2, <2>3
<1> QED BY <1>1, <1>2, <1>3 DEF EndVisits

LEMMA SetCommand ==
  ASSUME DeployInv, NEW u \in User, NEW k, Set(u, k)
  PROVE  job'[u].command = k.command
<1>1. job'[u] = Ended(k)
  BY DEF Set, DeployInv
<1> QED BY <1>1 DEF Ended, NoJob

\* No phase makes a deployment of another command.
LEMMA OtherCommand ==
  ASSUME DeployInv, NEW u \in User, Running(u), job[u].command # "deploy", Step(u)
  PROVE  job'[u].command # "deploy"
<1> DEFINE j == job[u]
<1>1. DOMAIN j = JobFields
  BY DEF DeployInv, UserOK, Running, Runs
<1>2. ASSUME NEW i, DOMAIN i = JobFields, i.command = j.command,
             \/ Set(u, Succeed(i)) \/ Set(u, Fail(i)) \/ Set(u, EndVisits(i)) \/ Set(u, AfterLocking(i))
             \/ (\E status : Set(u, Exit(i, status))) \/ \E t, ok : Set(u, Visited(i, t, ok))
      PROVE  job'[u].command = j.command
  BY <1>2, CommandKept, SetCommand
<1>3. ~(Request(u) \/ FollowAdvice(u) \/ NextCall(u) \/ ForgetGenerations(u))
  BY DEF Request, FollowAdvice, NextCall, ForgetGenerations, Idle
<1>4. CASE Distribute(u) \/ Deactivate(u) \/ Activate(u) \/ MigrateData(u) \/ SetCoordinator(u)
  <2>1. Succeeds(u) \/ (\E status : Fails(u, status))
    BY <1>4 DEF Distribute, Deactivate, Activate, MigrateData, SetCoordinator
  <2>2. ASSUME NEW status, Fails(u, status)
        PROVE  job'[u].command = j.command
    <3>1. PICK i : i = [j EXCEPT !.status = status]
      OBVIOUS
    <3>2. DOMAIN i = JobFields /\ i.command = j.command
      BY <1>1, <3>1 DEF JobFields
    <3> QED BY <1>2, <2>2, <3>1, <3>2 DEF Fails
  <2> QED BY <1>1, <1>2, <2>1, <2>2 DEF Succeeds
<1>5. CASE ConvertManifest(u) \/ CompareManifest(u) \/ Elsewhere(u)
  <2>1. \E status : Set(u, Exit(j, status))
    <3>1. CASE ConvertManifest(u)
      BY <3>1 DEF ConvertManifest
    <3>2. CASE CompareManifest(u)
      BY <3>2 DEF CompareManifest
    <3>3. CASE Elsewhere(u)
      BY <3>3 DEF Elsewhere
    <3> QED BY <1>5, <3>1, <3>2, <3>3
  <2> QED BY <1>1, <1>2, <2>1
<1>6. CASE Crash(u)
  <2>1. PICK e, k : e = Exit(j, "crashed") /\ k = [e EXCEPT !.calls = <<>>]
    OBVIOUS
  <2>2. k.command = j.command
    <3>1. DOMAIN e = JobFields /\ e.command = j.command
      BY <1>1, <2>1, ExitJob
    <3> QED BY <2>1, <3>1 DEF JobFields
  <2> QED BY <1>6, <2>1, <2>2, SetCommand DEF Crash
<1>7. CASE VisitNobody(u)
  BY <1>1, <1>2, <1>7 DEF VisitNobody
<1>8. ASSUME NEW t \in Target, LockTarget(u, t)
      PROVE  job'[u].command = j.command
  <2>1. PICK k : Asks(u, t, k) /\ Set(u, AfterLocking(k))
    BY <1>1, <1>8, LockOutcomes
  <2> QED BY <1>2, <2>1 DEF Asks
<1>9. ASSUME NEW t \in Target, SetTarget(u, t) \/ CollectGarbage(u, t) \/ CaptureTarget(u, t) \/ UnlockTarget(u, t)
      PROVE  job'[u].command = j.command
  <2>1. ASSUME NEW profiles
        PROVE  DOMAIN [j EXCEPT !.profiles = profiles] = JobFields /\ [j EXCEPT !.profiles = profiles].command = j.command
    BY <1>1 DEF JobFields
  <2>2. ASSUME NEW astray
        PROVE  DOMAIN [j EXCEPT !.astray = astray] = JobFields
               /\ [j EXCEPT !.astray = astray].command = j.command
    BY <1>1 DEF JobFields
  <2>3. \/ \E ok : Set(u, Visited(j, t, ok))
        \/ \E profiles, ok : Set(u, Visited([j EXCEPT !.profiles = profiles], t, ok))
        \/ \E astray, ok : Set(u, Visited([j EXCEPT !.astray = astray], t, ok))
    BY <1>9 DEF SetTarget, CollectGarbage, CaptureTarget, UnlockTarget
  <2> QED BY <1>1, <1>2, <2>1, <2>2, <2>3
<1> QED BY <1>3, <1>4, <1>5, <1>6, <1>7, <1>8, <1>9 DEF Step

\* What a deployment begins with, when nothing else was done since the last.
LEMMA OpenPlanned ==
  ASSUME NEW command, NEW args, NEW file, NEW env, NEW asked, NEW calls, NEW g, NEW pr, NEW st,
         LET j == Open(command, args, file, env, asked, calls) IN g.sound => Sound(j)
  PROVE  Planned(Open(command, args, file, env, asked, calls), g, running, pr, st)
<1>1. PICK j : j = Open(command, args, file, env, asked, calls)
  OBVIOUS
<1>2. SUFFICES ASSUME j.command = "deploy", Runs(j)
               PROVE  Planned(j, g, running, pr, st)
  BY <1>1 DEF Planned
<1>3. command = "deploy" /\ j.ok = TRUE /\ j.phases = Phases("deploy", args)
  <2>1. j.command = command /\ j.phases = Phases(command, args)
    BY <1>1, <1>2, OpenJob
  <2>2. j.ok = TRUE
    BY <1>1 DEF Open, Exit, Enter
  <2> QED BY <1>2, <2>1, <2>2
<1>4. Chained(j.phases) /\ Head(j.phases) = "distribute"
  BY <1>3, DeployChained
<1>5. j.args = args /\ \E operands : Parse(command, args, operands) = "runs"
  BY <1>1, <1>2 DEF Open, Exit, Enter, Runs
<1>6. Given(j.args, "dry-run") = None
  BY <1>3, <1>5, NoDryRun
<1>7. g.sound => Here(j, running) = Before(j)
  <2> SUFFICES ASSUME Sound(j) PROVE Here(j, running) = Before(j)
    BY <1>1
  <2>1. running = IF j.old = None THEN {} ELSE Keys(j.old)
    BY DEF Sound
  <2> QED BY <2>1 DEF Here, Before
<1> QED BY <1>3, <1>4, <1>6, <1>7 DEF Planned, Stage

LEMMA OwnPlanned ==
  ASSUME DeployInv, PlanInv, NEW u \in User, Step(u)
  PROVE  Planned(job'[u], ghost'[u], running', profile', store')
<1>1. CASE Request(u)
  <2>1. PICK r, file : Begins(u, Open(Head(Calls(r)).command, Head(Calls(r)).args, file, r.env, r.asked, Tail(Calls(r))))
    BY <1>1 DEF Request
  <2>2. PICK j : j = Open(Head(Calls(r)).command, Head(Calls(r)).args, file, r.env, r.asked, Tail(Calls(r)))
    OBVIOUS
  <2>3. /\ job'[u] = Ended(j) /\ ghost'[u].sound = Sound(j)
        /\ running' = running
    BY <2>1, <2>2 DEF Begins, DeployInv
  <2>4. Planned(j, ghost'[u], running, profile', store')
    BY <2>2, <2>3, OpenPlanned
  <2> QED BY <2>3, <2>4, EndedPlanned
<1>2. CASE ForgetGenerations(u)
  <2>1. job'[u] = job[u] /\ ~Runs(job[u])
    BY <1>2 DEF ForgetGenerations, Idle, Running, Runs
  <2> QED BY <2>1 DEF Planned
<1>3. CASE FollowAdvice(u)
  <2>1. PICK a, j : a = Head(advice[u]) /\ j = Open(a.command, a.args, a.file, job[u].env, a.args, <<>>)
    OBVIOUS
  <2>2. a.command # "deploy"
    BY <1>3, <2>1, TailCalls DEF DeployInv, AdviceOK, FollowAdvice
  <2>3. job'[u] = Ended(j)
    BY <1>3, <2>1 DEF FollowAdvice, DeployInv
  <2>4. j.command # "deploy"
    BY <2>1, <2>2, OpenJob
  <2> QED BY <2>3, <2>4, EndedPlanned DEF Planned
<1>4. CASE NextCall(u)
  <2> DEFINE i == job[u]
  <2>1. i.calls # <<>> /\ NoDeployment(i.calls) /\ ~Runs(i)
    BY <1>4 DEF NextCall, DeployInv, UserOK, Running, Runs
  <2>2. Head(i.calls).command # "deploy"
    BY <2>1, TailCalls
  <2>3. CASE GoesOn(i)
    <3>1. PICK j : j = Open(Head(i.calls).command, Head(i.calls).args, Printed(i), i.env, i.asked, Tail(i.calls))
      OBVIOUS
    <3>2. j.command # "deploy" /\ Set(u, j)
      BY <1>4, <2>2, <2>3, <3>1, OpenJob DEF NextCall
    <3> QED BY <3>2, SetPlanned DEF Planned
  <2>4. CASE ~GoesOn(i)
    <3>1. PICK j : j = [i EXCEPT !.calls = <<>>]
      OBVIOUS
    <3>2. DOMAIN i = JobFields
      BY <2>1 DEF DeployInv, UserOK, Formed
    <3>3. ~Runs(j) /\ Set(u, j)
      BY <1>4, <2>1, <2>4, <3>1, <3>2 DEF NextCall, JobFields, Runs
    <3> QED BY <3>3, SetPlanned DEF Planned
  <2> QED BY <2>3, <2>4
<1>5. ASSUME ~(Request(u) \/ ForgetGenerations(u) \/ FollowAdvice(u) \/ NextCall(u))
      PROVE  Planned(job'[u], ghost'[u], running', profile', store')
  <2>1. Running(u)
    BY <1>5 DEF Step, Distribute, Deactivate, Activate, MigrateData, SetCoordinator, ConvertManifest, CompareManifest,
                Elsewhere, Crash, VisitNobody, LockTarget, UnlockTarget, SetTarget, CollectGarbage, CaptureTarget, At
  <2>2. CASE job[u].command # "deploy"
    BY <2>1, <2>2, OtherCommand DEF Planned
  <2>3. ASSUME job[u].command = "deploy"
        PROVE  Planned(job'[u], ghost'[u], running', profile', store')
    <3>1. DOMAIN job[u] = JobFields /\ Head(job[u].phases) \in DeployPhase
      BY <2>1, <2>3, DeploymentNow
    <3>2. Head(job[u].phases) \notin {"collect", "capture", "convert", "compare", "elsewhere"}
      BY <3>1 DEF DeployPhase
    <3>3. CASE Crash(u)
      <4>1. PICK e, k : e = Exit(job[u], "crashed") /\ k = [e EXCEPT !.calls = <<>>]
        OBVIOUS
      <4>2. ~Runs(k)
        <5>1. DOMAIN e = JobFields /\ e.phases = <<>>
          BY <3>1, <4>1, ExitJob
        <5> QED BY <4>1, <5>1 DEF JobFields, Runs
      <4> QED BY <3>3, <4>1, <4>2, SetPlanned DEF Crash, Planned
    <3>4. ~(ConvertManifest(u) \/ CompareManifest(u) \/ Elsewhere(u))
      BY <3>2 DEF ConvertManifest, CompareManifest, Elsewhere, At
    <3>5. \A t \in Target : ~CollectGarbage(u, t) /\ ~CaptureTarget(u, t)
      BY <3>2 DEF CollectGarbage, CaptureTarget, At
    <3> QED BY <1>5, <2>3, <3>3, <3>4, <3>5, WorkPlanned, LockPlanned, UnlockPlanned, SetTargetPlanned, NobodyPlanned DEF Step
  <2> QED BY <2>2, <2>3
<1> QED BY <1>1, <1>2, <1>3, <1>4, <1>5

-----------------------------------------------------------------------------
(* The steps of others keep the plan of a sound deployment. *)

LEMMA StageKept ==
  ASSUME NEW j, NEW r, NEW pr, NEW st, Stage(j, r, pr, st), NEW r2, NEW pr2, NEW st2,
         Here(j, r2) = Here(j, r), \A t \in Owned(j) : HasProfile(j, t, pr, st) => HasProfile(j, t, pr2, st2)
  PROVE  Stage(j, r2, pr2, st2)
<1>1. AsNew(j, r2) <=> AsNew(j, r)
  BY DEF AsNew
<1> QED BY <1>1 DEF Stage

\* Nobody makes a deployment sound but its own user.
LEMMA NotSounder ==
  ASSUME DeployInv, PlanInv, NEW u \in User, NEW v \in User, u # v, Step(v)
  PROVE  /\ ghost'[u].sound \in BOOLEAN
         /\ ghost'[u].sound => ghost[u].sound /\ ~ghost'[u].forced
<1>1. /\ DOMAIN ghost = User /\ DOMAIN ghost[u] = GhostFields /\ ghost[u].sound \in BOOLEAN
      /\ ghost[u].sound => ~ghost[u].forced
  BY DEF DeployInv, PlanInv
<1>2. CASE ghost'[u] = ghost[u]
  BY <1>1, <1>2
<1>3. ASSUME NEW spared, Spoils(v, spared)
      PROVE  ghost'[u].forced = ghost[u].forced /\ ghost'[u].sound = (ghost[u].sound /\ u \in spared)
  BY <1>1, <1>3 DEF Spoils, GhostFields
<1>4. ASSUME NEW t \in Target, UnlockTarget(v, t)
      PROVE  ghost'[u] = ghost[u] \/ ghost'[u].sound = FALSE
  <2>1. \/ ghost' = ghost
        \/ ghost' = [w \in User |-> IF w \notin {v} /\ lock[t] = w THEN [ghost[w] EXCEPT !.sound = FALSE, !.forced = TRUE]
                                   ELSE ghost[w]]
    BY <1>4 DEF UnlockTarget, Release
  <2> QED BY <1>1, <2>1 DEF GhostFields
<1>5. CASE Request(v) \/ FollowAdvice(v)
  <2>1. \E g : ghost' = [ghost EXCEPT ![v] = g]
    <3>1. CASE Request(v)
      BY <3>1 DEF Request, Begins
    <3>2. CASE FollowAdvice(v)
      BY <3>2 DEF FollowAdvice
    <3> QED BY <1>5, <3>1, <3>2
  <2> QED BY <1>2, <2>1
<1>6. CASE ForgetGenerations(v)
  BY <1>2, <1>6 DEF ForgetGenerations
<1>7. CASE \/ NextCall(v) \/ Distribute(v) \/ Deactivate(v) \/ Activate(v) \/ MigrateData(v) \/ SetCoordinator(v)
           \/ ConvertManifest(v) \/ CompareManifest(v) \/ Elsewhere(v) \/ Crash(v) \/ VisitNobody(v)
           \/ \E t \in Target : LockTarget(v, t) \/ SetTarget(v, t) \/ CollectGarbage(v, t) \/ CaptureTarget(v, t)
  <2>1. Untouched \/ \E spared : Spoils(v, spared)
    BY <1>7 DEF NextCall, Distribute, Deactivate, Activate, MigrateData, SetCoordinator, ConvertManifest, CompareManifest,
                Elsewhere, Crash, VisitNobody, LockTarget, SetTarget, CollectGarbage, CaptureTarget, Touches
  <2> QED BY <1>1, <1>2, <1>3, <2>1 DEF Untouched
<1> QED BY <1>1, <1>2, <1>3, <1>4, <1>5, <1>6, <1>7 DEF Step

\* What is changed on the targets, and by what.
LEMMA WhoChanges ==
  ASSUME NEW v, Step(v)
  PROVE  \/ running' = running /\ profile' = profile /\ store' = store
         \/ Deactivate(v) \/ Activate(v) \/ Distribute(v)
         \/ \E t \in Target : SetTarget(v, t) \/ CollectGarbage(v, t)
  BY DEF Step, Request, Begins, ForgetGenerations, FollowAdvice, NextCall, MigrateData,
         SetCoordinator, ConvertManifest, CompareManifest, Elsewhere, Crash, VisitNobody, LockTarget,
         UnlockTarget, CaptureTarget, world

\* Who works on targets and spares another's deployment has the locks of all
\* machines it works on, and none that the other has.
LEMMA Apart ==
  ASSUME DeployInv, PlanInv, NEW u \in User, NEW v \in User, u # v, Running(v),
         Head(job[v].phases) \notin {"lock", "unlock"}, Touches(v), ghost'[u].sound, ghost[u].sound,
         Running(u), Head(job[u].phases) # "unlock"
  PROVE  /\ job[v].command = "deploy" /\ Proceeds(job[v])
         /\ Owned(job[u]) \cap Owned(job[v]) = {} /\ Targets(job[u]) \cap Targets(job[v]) = {}
<1>1. DOMAIN ghost[u] = GhostFields /\ ~ghost[u].forced
  BY DEF DeployInv, PlanInv
<1>2. /\ Holds(u) /\ Covered(job[u])
      /\ job[v].acquired # {} /\ Covered(job[v]) /\ ~ghost[v].forced
  <2>1. PICK spared : /\ Spoils(v, spared)
                      /\ u \in spared => /\ Holds(u) /\ Covered(job[u])
                                         /\ job[v].acquired # {} /\ Covered(job[v]) /\ ~ghost[v].forced
    BY DEF Touches
  <2>2. ghost'[u] = [ghost[u] EXCEPT !.sound = @ /\ u \in spared, !.alone = FALSE]
    BY <2>1 DEF Spoils
  <2>3. u \in spared
    BY <1>1, <2>2 DEF GhostFields
  <2> QED BY <2>1, <2>3
<1>3. /\ job[v].command = "deploy" /\ Proceeds(job[v])
      /\ \A t \in Owned(job[v]) : lock[t] = v
  BY <1>2, LockedWhileWorking
<1>4. \A t \in Owned(job[u]) : lock[t] = u
  <2>1. Holding(u, job[u], ghost[u].forced, lock)
    BY DEF DeployInv, UserOK, Running, Runs
  <2> QED BY <1>1, <1>2, <2>1 DEF Holding, Holds
<1> QED BY <1>2, <1>3, <1>4 DEF Covered

\* Garbage collection keeps the last generation of a profile.
LEMMA CollectKeeps ==
  ASSUME PlanInv, NEW v, NEW t \in Target, CollectGarbage(v, t), NEW j, NEW s, HasProfile(j, s, profile, store)
  PROVE  HasProfile(j, s, profile', store')
<1>1. PICK kept : /\ kept = profile[t] \/ (profile[t] # <<>> /\ kept = <<Last(profile[t])>>)
                  /\ profile' = [profile EXCEPT ![t] = kept]
                  /\ store' = [store EXCEPT ![t] = @ \cap Range(kept)]
  BY DEF CollectGarbage
<1>2. CASE s # t
  <2>1. profile'[s] = profile[s] /\ store'[s] = store[s]
    BY <1>1, <1>2
  <2> QED BY <2>1 DEF HasProfile
<1>3. CASE s = t
  <2>1. profile'[t] = kept /\ store'[t] = store[t] \cap Range(kept)
    BY <1>1 DEF PlanInv
  <2>2. kept # <<>> /\ Last(kept) = Last(profile[t]) /\ Last(kept) \in Range(kept)
    <3>1. CASE kept = profile[t]
      <4>1. PICK S : kept \in Seq(S)
        BY <3>1 DEF PlanInv, IsSeq
      <4>2. kept # <<>>
        BY <1>3, <3>1 DEF HasProfile
      <4>3. Last(kept) = kept[Len(kept)] /\ Len(kept) \in DOMAIN kept
        BY <4>1, <4>2 DEF Last
      <4> QED BY <3>1, <4>2, <4>3 DEF Range
    <3>2. CASE kept = <<Last(profile[t])>>
      <4>1. PICK x : x = Last(profile[t])
        OBVIOUS
      <4>2. Last(<<x>>) = x /\ <<x>> # <<>> /\ x \in Range(<<x>>)
        BY DEF Last, Range
      <4> QED BY <3>2, <4>1, <4>2
    <3> QED BY <1>1, <3>1, <3>2
  <2> QED BY <1>3, <2>1, <2>2 DEF HasProfile
<1> QED BY <1>2, <1>3

LEMMA OthersPlanned ==
  ASSUME DeployInv, PlanInv, NEW u \in User, NEW v \in User, u # v, Step(v)
  PROVE  Planned(job'[u], ghost'[u], running', profile', store')
<1> DEFINE j == job[u]
<1>1. job'[u] = j
  BY OthersKeepTheirJob
<1>2. ghost'[u].sound => ghost[u].sound
  BY NotSounder
<1>3. Planned(j, ghost[u], running, profile, store)
  BY DEF PlanInv
<1>4. SUFFICES ASSUME j.command = "deploy", Runs(j), ghost'[u].sound, j.ok
               PROVE  Stage(j, running', profile', store')
  BY <1>1, <1>3 DEF Planned
<1>5. Stage(j, running, profile, store) /\ Running(u) /\ ghost[u].sound
  BY <1>2, <1>3, <1>4 DEF Planned, Running, Runs
<1>6. CASE Head(j.phases) = "unlock"
  BY <1>6 DEF Stage
<1>7. CASE Head(j.phases) # "unlock"
  <2>1. CASE running' = running /\ profile' = profile /\ store' = store
    BY <1>5, <2>1
  <2>2. CASE Deactivate(v) \/ Activate(v)
    <3>1. Running(v) /\ Head(job[v].phases) \in {"deactivate", "activate"} /\ Touches(v)
          /\ profile' = profile /\ store' = store
      BY <2>2 DEF Deactivate, Activate, At
    <3>2. Targets(j) \cap Targets(job[v]) = {}
      BY <1>4, <1>5, <1>7, <3>1, Apart
    <3>3. Refers(job[v])
      BY <3>1 DEF DeployInv, UserOK, Running, Runs
    <3>4. \A key : (key \in running') # (key \in running) => key[1] \notin Targets(j)
      BY <3>2, <3>3, OnlyTransitionsChange, ChangesAreOnTargets
    <3>5. Here(j, running') = Here(j, running)
      BY <3>4 DEF Here
    <3> QED BY <1>5, <3>1, <3>5, StageKept
  <2>3. CASE Distribute(v)
    <3>1. /\ running' = running /\ profile' = profile
          /\ \E received : store' = [t \in Target |-> IF t \in received THEN store[t] \cup {job[v].new.profiles[t]} ELSE store[t]]
      BY <2>3 DEF Distribute
    <3>2. \A t \in Target : store[t] \subseteq store'[t]
      BY <3>1
    <3>3. \A t \in Owned(j) : HasProfile(j, t, profile, store) => HasProfile(j, t, profile', store')
      BY <3>1, <3>2 DEF HasProfile
    <3> QED BY <1>5, <3>1, <3>3, StageKept
  <2>4. ASSUME NEW t \in Target, SetTarget(v, t)
        PROVE  Stage(j, running', profile', store')
    <3>1. /\ Running(v) /\ Head(job[v].phases) = "targets" /\ Touches(v) /\ t \in job[v].todo
          /\ running' = running /\ store' = store
      BY <2>4 DEF SetTarget, At
    <3>2. Proceeds(job[v]) /\ Owned(j) \cap Owned(job[v]) = {}
      BY <1>4, <1>5, <1>7, <3>1, Apart
    <3>3. t \notin Owned(j)
      BY <3>1, <3>2 DEF Proceeds
    <3>4. profile' = profile \/ \E g : profile' = [profile EXCEPT ![t] = g]
      BY <2>4 DEF SetTarget
    <3>5. \A s \in Owned(j) \cap Target : profile'[s] = profile[s]
      BY <3>3, <3>4 DEF PlanInv
    <3>6. \A s \in Owned(j) : HasProfile(j, s, profile, store) => HasProfile(j, s, profile', store')
      BY <3>1, <3>5 DEF HasProfile
    <3> QED BY <1>5, <3>1, <3>6, StageKept
  <2>5. ASSUME NEW t \in Target, CollectGarbage(v, t)
        PROVE  Stage(j, running', profile', store')
    <3>1. running' = running
      BY <2>5 DEF CollectGarbage
    <3>2. \A s \in Owned(j) : HasProfile(j, s, profile, store) => HasProfile(j, s, profile', store')
      BY <2>5, CollectKeeps
    <3> QED BY <1>5, <3>1, <3>2, StageKept
  <2> QED BY <2>1, <2>2, <2>3, <2>4, <2>5, WhoChanges
<1> QED BY <1>6, <1>7

\* The profiles stay sequences of generations, of the same targets.
LEMMA ProfilesKept ==
  ASSUME PlanInv, NEW v \in User, Step(v)
  PROVE  /\ DOMAIN profile' = Target /\ DOMAIN store' = Target /\ IsSeq(links')
         /\ \A t \in Target : IsSeq(profile'[t])
<1>1. DOMAIN profile = Target /\ DOMAIN store = Target /\ IsSeq(links) /\ \A t \in Target : IsSeq(profile[t])
  BY DEF PlanInv
<1>2. IsSeq(links')
  <2>1. CASE SetCoordinator(v)
    <3>1. links' = links \/ links' = Generation(links, job[v].file)
      BY <2>1 DEF SetCoordinator
    <3> QED BY <1>1, <3>1, GenerationLast
  <2>2. CASE ForgetGenerations(v)
    <3>1. links' = <<>>
      BY <2>2 DEF ForgetGenerations
    <3> QED BY <3>1 DEF IsSeq
  <2>3. ASSUME ~SetCoordinator(v), ~ForgetGenerations(v)
        PROVE  links' = links
    BY <2>3 DEF Step, Request, Begins, FollowAdvice, NextCall, Distribute, Deactivate, Activate, MigrateData,
                ConvertManifest, CompareManifest, Elsewhere, Crash, VisitNobody, LockTarget,
                UnlockTarget, SetTarget, CollectGarbage, CaptureTarget, world
  <2> QED BY <1>1, <2>1, <2>2, <2>3
<1>3. DOMAIN store' = Target
  <2>1. CASE Distribute(v)
    <3>1. \E received : store' = [t \in Target |-> IF t \in received THEN store[t] \cup {job[v].new.profiles[t]} ELSE store[t]]
      BY <2>1, Zenon DEF Distribute
    <3> QED BY <3>1
  <2>2. ASSUME NEW t \in Target, CollectGarbage(v, t)
        PROVE  DOMAIN store' = Target
    <3>1. \E s : store' = [store EXCEPT ![t] = s]
      BY <2>2 DEF CollectGarbage
    <3> QED BY <1>1, <3>1
  <2>3. ASSUME NEW t \in Target, SetTarget(v, t)
        PROVE  store' = store
    BY <2>3 DEF SetTarget
  <2>4. Deactivate(v) \/ Activate(v) => store' = store
    BY DEF Deactivate, Activate
  <2> QED BY <1>1, <2>1, <2>2, <2>3, <2>4, WhoChanges
<1>4. DOMAIN profile' = Target /\ \A t \in Target : IsSeq(profile'[t])
  <2>1. ASSUME NEW t \in Target, NEW g, IsSeq(g), profile' = [profile EXCEPT ![t] = g]
        PROVE  DOMAIN profile' = Target /\ \A s \in Target : IsSeq(profile'[s])
    BY <1>1, <2>1
  <2>2. ASSUME NEW t \in Target, CollectGarbage(v, t)
        PROVE  \E g : IsSeq(g) /\ profile' = [profile EXCEPT ![t] = g]
    <3>1. PICK kept : /\ kept = profile[t] \/ kept = <<Last(profile[t])>>
                      /\ profile' = [profile EXCEPT ![t] = kept]
      BY <2>2 DEF CollectGarbage
    <3>2. ASSUME NEW x PROVE IsSeq(<<x>>)
      <4>1. <<x>> \in Seq({x})
        OBVIOUS
      <4> QED BY <4>1 DEF IsSeq
    <3> QED BY <1>1, <3>1, <3>2
  <2>3. ASSUME NEW t \in Target, SetTarget(v, t)
        PROVE  profile' = profile \/ \E g : IsSeq(g) /\ profile' = [profile EXCEPT ![t] = g]
    <3>1. profile' = profile \/ \E path : profile' = [profile EXCEPT ![t] = Generation(@, path)]
      BY <2>3 DEF SetTarget
    <3>2. ASSUME NEW path PROVE IsSeq(Generation(profile[t], path))
      BY <1>1, GenerationLast
    <3> QED BY <3>1, <3>2
  <2>4. Deactivate(v) \/ Activate(v) \/ Distribute(v) => profile' = profile
    BY DEF Deactivate, Activate, Distribute
  <2> QED BY <1>1, <2>1, <2>2, <2>3, <2>4, WhoChanges
<1> QED BY <1>2, <1>3, <1>4

\* A deployment that begins sound was not forced, and stays what it is by its own
\* steps.
LEMMA OwnSound ==
  ASSUME DeployInv, PlanInv, NEW u \in User, Step(u)
  PROVE  /\ ghost'[u].sound \in BOOLEAN
         /\ ghost'[u].sound => ~ghost'[u].forced
<1>1. /\ DOMAIN ghost = User /\ DOMAIN ghost[u] = GhostFields /\ ghost[u].sound \in BOOLEAN
      /\ ghost[u].sound => ~ghost[u].forced
  BY DEF DeployInv, PlanInv
<1>2. CASE ghost'[u] = ghost[u]
  BY <1>1, <1>2
<1>3. ASSUME NEW s \in BOOLEAN, NEW mine, ghost' = [ghost EXCEPT ![u] = [sound |-> s, alone |-> TRUE, forced |-> FALSE, before |-> mine]]
      PROVE  ghost'[u].sound \in BOOLEAN /\ ~ghost'[u].forced
  BY <1>1, <1>3
<1>4. CASE Request(u)
  <2>1. PICK j : Begins(u, j)
    BY <1>4 DEF Request
  <2>2. Sound(j) \in BOOLEAN
    BY DEF Sound
  <2> QED BY <1>3, <2>1, <2>2 DEF Begins
<1>5. CASE FollowAdvice(u)
  <2>1. PICK g1, g2 : /\ g1 = [ghost EXCEPT ![u].sound = @ /\ Head(advice[u]).command = "activate"]
                      /\ g2 = [g1 EXCEPT ![u].forced = FALSE]
    OBVIOUS
  <2>2. ghost' = g2
    BY <1>5, <2>1 DEF FollowAdvice
  <2>3. PICK s \in BOOLEAN : g1[u] = [ghost[u] EXCEPT !.sound = s]
    BY <1>1, <2>1
  <2>4. u \in DOMAIN g1 /\ DOMAIN g1[u] = GhostFields /\ g1[u].sound = s
    BY <1>1, <2>1, <2>3 DEF GhostFields
  <2>5. g2[u].sound = s /\ g2[u].forced = FALSE
    BY <2>1, <2>4 DEF GhostFields
  <2> QED BY <2>2, <2>5
<1>6. ASSUME NEW t \in Target, UnlockTarget(u, t)
      PROVE  ghost'[u] = ghost[u]
  <2>1. \/ ghost' = ghost
        \/ ghost' = [w \in User |-> IF w \notin {u} /\ lock[t] = w THEN [ghost[w] EXCEPT !.sound = FALSE, !.forced = TRUE]
                                   ELSE ghost[w]]
    BY <1>6 DEF UnlockTarget, Release
  <2> QED BY <2>1
<1>7. CASE ForgetGenerations(u)
  BY <1>2, <1>7 DEF ForgetGenerations
<1>8. CASE \/ NextCall(u) \/ Distribute(u) \/ Deactivate(u) \/ Activate(u) \/ MigrateData(u) \/ SetCoordinator(u)
           \/ ConvertManifest(u) \/ CompareManifest(u) \/ Elsewhere(u) \/ Crash(u) \/ VisitNobody(u)
           \/ \E t \in Target : LockTarget(u, t) \/ SetTarget(u, t) \/ CollectGarbage(u, t) \/ CaptureTarget(u, t)
  <2>1. Untouched \/ \E spared : Spoils(u, spared)
    BY <1>8 DEF NextCall, Distribute, Deactivate, Activate, MigrateData, SetCoordinator, ConvertManifest, CompareManifest,
                Elsewhere, Crash, VisitNobody, LockTarget, SetTarget, CollectGarbage, CaptureTarget, Touches
  <2> QED BY <1>2, <2>1, OwnGhost
<1> QED BY <1>2, <1>4, <1>5, <1>6, <1>7, <1>8 DEF Step

LEMMA InitPlan == Init => PlanInv
<1> SUFFICES ASSUME Init PROVE PlanInv
  OBVIOUS
<1>1. job = [u \in User |-> NoJob] /\ ghost = [u \in User |-> [sound |-> FALSE, alone |-> FALSE, forced |-> FALSE, before |-> {}]]
  BY DEF Init
<1>2. \A u \in User : /\ ghost[u].sound = FALSE
                      /\ Planned(job[u], ghost[u], running, profile, store)
  BY <1>1 DEF NoJob, Planned, Runs
<1>3. IsSeq(<<>>) /\ \A x : IsSeq(<<x>>)
  <2>1. ASSUME NEW x PROVE IsSeq(<<x>>)
    <3>1. <<x>> \in Seq({x})
      OBVIOUS
    <3> QED BY <3>1 DEF IsSeq
  <2>2. <<>> \in Seq({})
    OBVIOUS
  <2> QED BY <2>1, <2>2 DEF IsSeq
<1>4. PICK deployed, file :
        /\ profile = [t \in Target |-> IF t \in DOMAIN deployed.profiles THEN <<deployed.profiles[t]>> ELSE <<>>]
        /\ store = [t \in Target |-> IF t \in DOMAIN deployed.profiles THEN {deployed.profiles[t]} ELSE {}]
        /\ links = IF file = None THEN <<>> ELSE <<file>>
  <2>1. PICK file \in InitialFiles :
          LET deployed == IF file = None THEN EmptyManifest ELSE Manifested(Built[file])
              On(t) == t \in DOMAIN deployed.profiles
          IN  /\ profile = [t \in Target |-> IF On(t) THEN <<deployed.profiles[t]>> ELSE <<>>]
              /\ store = [t \in Target |-> IF On(t) THEN {deployed.profiles[t]} ELSE {}]
              /\ links = IF file = None THEN <<>> ELSE <<file>>
    BY Zenon DEF Init
  <2>2. PICK deployed : deployed = IF file = None THEN EmptyManifest ELSE Manifested(Built[file])
    OBVIOUS
  <2> QED BY <2>1, <2>2, Zenon
<1>5. DOMAIN profile = Target /\ DOMAIN store = Target /\ IsSeq(links) /\ \A t \in Target : IsSeq(profile[t])
  BY <1>3, <1>4
<1> QED BY <1>2, <1>5 DEF PlanInv

LEMMA NextPlan == DeployInv /\ PlanInv /\ [Next]_vars => PlanInv'
<1> SUFFICES ASSUME DeployInv, PlanInv, [Next]_vars PROVE PlanInv'
  OBVIOUS
<1>1. CASE UNCHANGED vars
  BY <1>1 DEF vars, PlanInv
<1>2. ASSUME NEW v \in User, Step(v)
      PROVE  PlanInv'
  <2>1. ASSUME NEW u \in User
        PROVE  /\ ghost'[u].sound \in BOOLEAN /\ (ghost'[u].sound => ~ghost'[u].forced)
               /\ Planned(job'[u], ghost'[u], running', profile', store')
    <3>1. CASE u = v
      BY <1>2, <3>1, OwnSound, OwnPlanned
    <3>2. CASE u # v
      BY <1>2, <3>2, NotSounder, OthersPlanned
    <3> QED BY <3>1, <3>2
  <2>2. /\ DOMAIN profile' = Target /\ DOMAIN store' = Target /\ IsSeq(links')
        /\ \A t \in Target : IsSeq(profile'[t])
    BY <1>2, ProfilesKept
  <2> QED BY <2>1, <2>2 DEF PlanInv
<1>3. CASE Late
  <2>1. ASSUME NEW u \in User
        PROVE  /\ ghost'[u].sound \in BOOLEAN /\ (ghost'[u].sound => ~ghost'[u].forced)
               /\ Planned(job[u], ghost'[u], running, profile, store)
    BY <1>3, <2>1, LateGhost DEF PlanInv, Planned
  <2> QED BY <1>3, <2>1, LateChanges DEF PlanInv
<1> QED BY <1>1, <1>2, <1>3 DEF Next

-----------------------------------------------------------------------------
(* The end of a deployment. *)

LEMMA ChainEnds ==
  ASSUME NEW p, Chained(p)
  PROVE  /\ Len(p) = 1 => Head(p) \in {"coordinator", "unlock"}
         /\ Len(p) # 1 /\ Tail(p) = <<"unlock">> => Head(p) = "coordinator"
         /\ Head(p) = "unlock" => p = <<"unlock">>
         /\ Len(p) # 1 => Tail(p) # <<>>
<1>1. PICK rest :
        /\ rest = Tail(p) /\ Len(p) \in Nat \ {0}
        /\ Len(p) = 1 => Head(p) \in {"coordinator", "unlock"}
        /\ Len(p) # 1 => Chained(rest) /\ <<Head(p), Head(rest)>> \in Follows
  BY ChainGoesOn
<1>2. Head(<<"unlock">>) = "unlock"
  OBVIOUS
<1>3. Len(p) # 1 => Head(p) # "unlock" /\ (Head(rest) = "unlock" => Head(p) = "coordinator")
  BY <1>1 DEF Follows
<1>4. ASSUME Head(p) = "unlock"
      PROVE  p = <<"unlock">>
  <2>1. Len(p) = 1 /\ p \in Seq(DeployPhase) /\ p[1] = "unlock"
    BY <1>3, <1>4 DEF Chained
  <2> QED BY <2>1
<1>5. Len(p) # 1 => Tail(p) # <<>>
  BY <1>1 DEF Chained
<1> QED BY <1>1, <1>2, <1>3, <1>4, <1>5

\* A deployment is not done by a phase that fails, nor by one before the last.
LEMMA NotDone ==
  ASSUME NEW j, DOMAIN j = JobFields, j.exit = "none"
  PROVE  /\ ~Done(Fail(j))
         /\ \A status : status # "0" => ~Done(Exit(j, status))
         /\ Chained(j.phases) /\ Head(j.phases) \notin {"coordinator", "unlock"} => ~Done(Succeed(j))
<1>1. ASSUME NEW status, status # "0"
      PROVE  ~Done(Exit(j, status))
  BY <1>1, ExitJob DEF Done
<1>2. ~Done(Fail(j))
  <2>1. PICK e : e = Enter(j, <<"unlock">>)
    OBVIOUS
  <2>2. PICK k : k = [e EXCEPT !.ok = FALSE]
    OBVIOUS
  <2>3. About(e, j) /\ e.exit = "none"
    BY <2>1, EnterAbout
  <2>4. k.ok = FALSE /\ k.exit = "none"
    BY <2>2, <2>3 DEF About, JobFields
  <2>5. ~Done(k)
    BY <2>4 DEF Done
  <2>6. Fail(j) = k \/ Fail(j) = Exit(j, "1")
    BY <2>1, <2>2 DEF Fail
  <2> QED BY <1>1, <2>5, <2>6
<1>3. ASSUME Chained(j.phases), Head(j.phases) \notin {"coordinator", "unlock"}
      PROVE  ~Done(Succeed(j))
  <2>1. Len(j.phases) # 1 /\ Tail(j.phases) # <<"unlock">> /\ Tail(j.phases) # <<>>
    BY <1>3, ChainEnds
  <2>2. PICK rest : rest = Tail(j.phases)
    OBVIOUS
  <2>3. Succeed(j) = Enter(j, rest)
    BY <2>1, <2>2 DEF Succeed
  <2>4. Enter(j, rest).phases = rest /\ Enter(j, rest).exit = "none"
    BY <2>1, <2>2, EnterAbout
  <2> QED BY <2>1, <2>2, <2>3, <2>4 DEF Done
<1> QED BY <1>1, <1>2, <1>3

\* Nor by a visit, unless it was done before.
LEMMA VisitsNotDone ==
  ASSUME NEW j, DOMAIN j = JobFields, j.exit = "none", Chained(j.phases), j.ok \in BOOLEAN,
         Head(j.phases) \in {"lock", "targets", "unlock"}, Head(j.phases) = "unlock" => ~j.ok
  PROVE  /\ ~Done(j) /\ ~Done(EndVisits(j)) /\ ~Done(AfterLocking(j))
         /\ \A t : \A good \in BOOLEAN : ~Done(Visited(j, t, good))
<1>1. ASSUME NEW k, DOMAIN k = JobFields, k.exit = "none", k.phases = j.phases, k.ok \in BOOLEAN, k.ok => j.ok
      PROVE  ~Done(k) /\ ~Done(EndVisits(k))
  <2>1. Head(<<"unlock">>) = "unlock"
    OBVIOUS
  <2>2. ~Done(k)
    BY <1>1, <2>1 DEF Done
  <2>3. k.ok => Head(k.phases) \notin {"coordinator", "unlock"}
    BY <1>1
  <2> QED BY <1>1, <2>2, <2>3, NotDone DEF EndVisits
<1>2. ~Done(AfterLocking(j))
  <2>1. PICK i : i = [j EXCEPT !.phases = <<"unlock">>, !.todo = j.acquired]
    OBVIOUS
  <2>2. ~j.ok => i.ok = FALSE /\ i.exit = "none"
    BY <2>1 DEF JobFields
  <2>3. ~j.ok => ~Done(i)
    BY <2>2 DEF Done
  <2>4. j.ok => Head(j.phases) \notin {"coordinator", "unlock"}
    OBVIOUS
  <2> QED BY <1>1, <2>1, <2>3, <2>4, NotDone DEF AfterLocking
<1>3. ASSUME NEW t, NEW good \in BOOLEAN
      PROVE  ~Done(Visited(j, t, good))
  <2>1. PICK k : k = [j EXCEPT !.todo = @ \ {t}, !.ok = @ /\ good]
    OBVIOUS
  <2>2. DOMAIN k = JobFields /\ k.exit = "none" /\ k.phases = j.phases /\ k.ok = (j.ok /\ good)
    BY <2>1 DEF JobFields
  <2>3. ~Done(k) /\ ~Done(EndVisits(k))
    BY <1>1, <2>2
  <2> QED BY <2>1, <2>3 DEF Visited
<1> QED BY <1>1, <1>2, <1>3

LEMMA SetDone ==
  ASSUME DeployInv, NEW u \in User, NEW k, Set(u, k), Done(job'[u])
  PROVE  Done(k)
<1>1. job'[u] = Ended(k)
  BY DEF Set, DeployInv
<1>2. CASE Ended(k) = k
  BY <1>1, <1>2
<1>3. CASE k.exit # "none" /\ k.calls = <<>>
  <2>1. Ended(k).exit = k.exit /\ Ended(k).command = k.command /\ Ended(k).phases = <<>>
    BY <1>3 DEF Ended, NoJob
  <2> QED BY <1>1, <2>1 DEF Done
<1> QED BY <1>2, <1>3 DEF Ended

\* A deployment is done by setting the coordinator's profile, and by nothing else.
LEMMA CoordinatorFinishes ==
  ASSUME DeployInv, PlanInv, NEW u \in User, NEW v \in User, Step(v),
         Running(u), ~Done(job[u]), Done(job'[u])
  PROVE  /\ At(u, "coordinator") /\ job[u].command = "deploy" /\ job[u].ok
         /\ links' = Generation(links, job[u].file)
         /\ running' = running /\ profile' = profile /\ store' = store
<1> DEFINE j == job[u]
<1>1. u = v
  BY OthersKeepTheirJob
<1>2. j.command = "deploy"
  BY <1>1, OtherCommand DEF Done
<1>3. /\ DOMAIN j = JobFields /\ j.exit = "none" /\ Chained(j.phases) /\ Head(j.phases) \in DeployPhase
      /\ j.ok \in BOOLEAN /\ (j.ok \/ Head(j.phases) \in {"lock", "targets", "unlock"})
  BY <1>2, DeploymentNow DEF Runs
<1>4. ~(Request(u) \/ FollowAdvice(u) \/ NextCall(u) \/ ForgetGenerations(u))
  BY DEF Request, FollowAdvice, NextCall, ForgetGenerations, Idle
<1>5. Head(j.phases) = "unlock" => ~j.ok
  BY <1>2, <1>3, ChainEnds DEF Done
<1>6. ASSUME NEW k, Set(u, k)
      PROVE  Done(k)
  BY <1>6, SetDone
<1>7. \A status : ~Fails(u, status)
  <2>1. ASSUME NEW status, Fails(u, status)
        PROVE  FALSE
    <3>1. PICK k : k = [j EXCEPT !.status = status]
      OBVIOUS
    <3>2. DOMAIN k = JobFields /\ k.exit = "none"
      BY <1>3, <3>1 DEF JobFields
    <3> QED BY <1>6, <2>1, <3>1, <3>2, NotDone DEF Fails
  <2> QED BY <2>1
<1>8. ASSUME Head(j.phases) \notin {"coordinator", "unlock"}
      PROVE  ~Succeeds(u)
  BY <1>3, <1>6, <1>8, NotDone DEF Succeeds
<1>9. ~(Distribute(u) \/ Deactivate(u) \/ Activate(u) \/ MigrateData(u))
  BY <1>7, <1>8 DEF Distribute, Deactivate, Activate, MigrateData, At
<1>10. ~(ConvertManifest(u) \/ CompareManifest(u) \/ Elsewhere(u))
       /\ \A t \in Target : ~CollectGarbage(u, t) /\ ~CaptureTarget(u, t)
  <2>1. Head(j.phases) \notin {"collect", "capture", "convert", "compare", "elsewhere"}
    BY <1>3 DEF DeployPhase
  <2> QED BY <2>1 DEF ConvertManifest, CompareManifest, Elsewhere, CollectGarbage, CaptureTarget, At
<1>11. ~Crash(u)
  <2> SUFFICES ASSUME Crash(u) PROVE FALSE
    OBVIOUS
  <2>1. PICK e, k : e = Exit(j, "crashed") /\ k = [e EXCEPT !.calls = <<>>]
    OBVIOUS
  <2>2. DOMAIN e = JobFields /\ e.exit = "crashed" /\ e.phases = <<>>
    BY <1>3, <2>1, ExitJob
  <2>3. k.exit = "crashed" /\ k.phases = <<>>
    BY <2>1, <2>2 DEF JobFields
  <2>4. Set(u, k)
    BY <2>1 DEF Crash
  <2>5. <<>> # <<"unlock">>
    OBVIOUS
  <2>6. ~Done(k)
    BY <2>3, <2>5 DEF Done
  <2> QED BY <1>6, <2>4, <2>6
<1>12. ~VisitNobody(u)
  <2> SUFFICES ASSUME VisitNobody(u) PROVE FALSE
    OBVIOUS
  <2>1. Head(j.phases) \in {"lock", "targets", "unlock"}
    BY <1>3 DEF VisitNobody, DeployPhase
  <2> QED BY <1>3, <1>5, <1>6, <2>1, VisitsNotDone DEF VisitNobody
<1>13. ASSUME NEW t \in Target, LockTarget(u, t)
       PROVE  FALSE
  <2>1. PICK k : Asks(u, t, k) /\ Set(u, AfterLocking(k))
    BY <1>3, <1>13, LockOutcomes
  <2>2. k.ok = j.ok \/ k.ok = FALSE
    BY <2>1 DEF Asks
  <2>3. DOMAIN k = JobFields /\ k.exit = "none" /\ k.phases = j.phases
    BY <1>3, <2>1 DEF Asks
  <2>4. Head(j.phases) = "lock"
    BY <1>13 DEF LockTarget, At
  <2> QED BY <1>3, <1>6, <2>1, <2>2, <2>3, <2>4, VisitsNotDone
<1>14. ASSUME NEW t \in Target, SetTarget(u, t) \/ UnlockTarget(u, t)
       PROVE  FALSE
  <2>1. PICK k : k = [j EXCEPT !.astray = @ \cup {t}]
    OBVIOUS
  <2>2. DOMAIN k = JobFields /\ k.exit = "none" /\ k.phases = j.phases /\ k.ok = j.ok
    BY <1>3, <2>1 DEF JobFields
  <2>3. \E good \in BOOLEAN : Set(u, Visited(j, t, good)) \/ Set(u, Visited(k, t, good))
    BY <1>14, <2>1 DEF SetTarget, UnlockTarget
  <2>4. Head(j.phases) \in {"targets", "unlock"}
    BY <1>14 DEF SetTarget, UnlockTarget, At
  <2> QED BY <1>3, <1>5, <1>6, <2>2, <2>3, <2>4, VisitsNotDone
<1>15. SetCoordinator(u)
  BY <1>1, <1>4, <1>9, <1>10, <1>11, <1>12, <1>13, <1>14 DEF Step
<1> QED BY <1>2, <1>3, <1>7, <1>15 DEF SetCoordinator, At

\* Every deployment is, in every state, as far as its phase says.
THEOREM PlanInvariance == Spec => []PlanInv
<1> QED BY DeployInvariance, InitPlan, NextPlan, PTL DEF Spec

\* deploy(): a deployment that reports success has put its configuration in place:
\* the services of its manifest and no others run on its machines, and their
\* profiles and the coordinator's are those of the manifest.  Others may deploy, with
\* locks, and collect garbage meanwhile.
THEOREM SuccessPutsInPlace == Spec => SuccessIsComplete
<1>1. ASSUME DeployInv, PlanInv, [Next]_vars, NEW u \in User,
             ghost[u].sound, Running(u), ~Done(job[u]), Done(job'[u])
      PROVE  \A j \in {job[u]} : InPlace(j)'
  <2>1. PICK j : j = job[u]
    OBVIOUS
  <2>2. ~UNCHANGED vars /\ ~Late
    BY <1>1, LateChanges DEF vars
  <2>3. PICK v \in User : Step(v)
    BY <1>1, <2>2 DEF Next
  <2>4. /\ At(u, "coordinator") /\ j.command = "deploy" /\ j.ok
        /\ links' = Generation(links, j.file)
        /\ running' = running /\ profile' = profile /\ store' = store
    BY <1>1, <2>1, <2>3, CoordinatorFinishes
  <2>5. Stage(j, running, profile, store) /\ Head(j.phases) = "coordinator"
    BY <1>1, <2>1, <2>4, DeploymentNow DEF At
  <2>6. AsNew(j, running) /\ \A t \in Owned(j) : HasProfile(j, t, profile, store)
    BY <2>5 DEF Stage
  <2>7. Last(links') = j.file
    BY <1>1, <2>4, GenerationLast DEF PlanInv
  <2>8. InPlace(j)'
    BY <2>4, <2>6, <2>7 DEF InPlace, AsNew, Here, HasProfile
  <2> QED BY <2>1, <2>8
<1>2. DeployInv /\ PlanInv /\ [Next]_vars =>
        \A u \in User :
         (ghost[u].sound /\ Running(u) /\ ~Done(job[u]) /\ Done(job'[u])) =>
           \A j \in {job[u]} : InPlace(j)'
  BY <1>1
<1> QED BY <1>2, DeployInvariance, PlanInvariance, PTL DEF Spec, SuccessIsComplete

-----------------------------------------------------------------------------
(* The types of the state: what files name, and what is made of them.      *)

FileOK(file) ==
    LET doc == Contents(file)
    IN  /\ (doc.version = 1 => Convertible(doc, Infrastructure)) => OnTargets(Manifested(doc))
        /\ AsCaptured(doc)
        /\ doc.version = 1 => file \in DOMAIN Built

\* A file that a command is given.
NamedOK(file) == file \in {None, Link} \/ FileOK(file)

LinksOK(generations) ==
    /\ IsSeq(generations) /\ Progresses(generations)
    /\ \A file \in Range(generations) : file \notin {None, Link} /\ FileOK(file)

LEMMA BuiltFiles ==
  ASSUME NEW file \in DOMAIN Built
  PROVE  FileOK(file) /\ file \notin {None, Link}
<1>1. PICK doc : doc = Contents(file)
  OBVIOUS
<1>2. doc = Built[file] /\ doc \in Range(Built)
  BY <1>1 DEF Contents, Range
<1>3. (doc.version = 1 => Convertible(doc, Infrastructure)) => OnTargets(Manifested(doc))
  BY <1>2, BuiltOK
<1>4. AsCaptured(doc)
  BY <1>2, <1>3, BuiltCaptured
<1> QED BY <1>1, <1>3, <1>4, BuiltOK DEF FileOK

\* Whatever parts are read.
LEMMA ParsedOnTargets ==
  ASSUME NEW file, FileOK(file), NEW parts, NEW container, NEW component, NEW hostname
  PROVE  OnTargets(parse_manifest(Contents(file), parts, container, component, hostname))
<1>0. PICK doc, m : doc = Contents(file) /\ m = parse_manifest(doc, parts, container, component, hostname)
  OBVIOUS
<1>1. NoTable = <<>> /\ DOMAIN NoTable = {}
  BY DEF NoTable
<1>2. CASE doc.version # 2
  <2>1. m = [EmptyManifest EXCEPT !.correct_version = FALSE]
    BY <1>0, <1>2 DEF parse_manifest
  <2>2. m.targets = NoTable /\ m.profiles = NoTable
    BY <2>1 DEF EmptyManifest, Manifest
  <2> QED BY <1>0, <1>1, <2>2 DEF OnTargets
<1>3. CASE doc.version = 2
  <2>1. PICK w : w = parse_manifest(doc, AllParts, Missing, Missing, "localhost")
    OBVIOUS
  <2>2. OnTargets(w)
    BY <1>0, <1>3, <2>1 DEF FileOK, Manifested
  <2>3. w.profiles = doc.profiles /\ DOMAIN w.targets = DOMAIN doc.infrastructure
    BY <1>3, <2>1 DEF parse_manifest, Manifest, AllParts
  <2>4. m.profiles \in {doc.profiles, NoTable} /\ DOMAIN m.targets \in {DOMAIN doc.infrastructure, {}}
    BY <1>0, <1>1, <1>3 DEF parse_manifest, Manifest
  <2> QED BY <1>0, <1>1, <2>2, <2>3, <2>4 DEF OnTargets
<1> QED BY <1>2, <1>3

\* What disnix-manifest makes of a printed manifest.
LEMMA DocumentOK ==
  ASSUME NEW m, OnTargets(m), AsCaptured(Document(m))
  PROVE  FileOK(Document(m))
<1>1. PICK doc : doc = Document(m)
  OBVIOUS
<1>2. CASE doc \in DOMAIN Built
  BY <1>1, <1>2, BuiltFiles
<1>3. CASE doc \notin DOMAIN Built
  <2>1. Contents(doc) = doc
    BY <1>3 DEF Contents
  <2>2. doc.version = 2 /\ doc.profiles = m.profiles /\ doc.infrastructure = m.targets
    BY <1>1 DEF Document
  <2>3. PICK w : w = Manifested(doc)
    OBVIOUS
  <2>4. w.profiles = doc.profiles /\ DOMAIN w.targets = DOMAIN doc.infrastructure
    BY <2>2, <2>3 DEF Manifested, parse_manifest, Manifest, AllParts
  <2>5. OnTargets(w)
    BY <2>2, <2>4 DEF OnTargets
  <2>6. AsCaptured(doc) /\ OnTargets(Manifested(doc)) /\ doc.version # 1
    BY <1>1, <2>2, <2>3, <2>5
  <2> QED BY <1>1, <2>1, <2>6 DEF FileOK
<1> QED BY <1>2, <1>3

LEMMA ConvertedOK ==
  ASSUME NEW file, FileOK(file), check_old_manifest(Contents(file)),
         Convertible(Contents(file), Infrastructure)
  PROVE  FileOK(Document(convert_manifest(Contents(file), Infrastructure)))
<1>1. Contents(file).version = 1
  BY DEF check_old_manifest
<1>2. PICK doc, c, d : doc = Contents(file) /\ c = convert_manifest(doc, Infrastructure) /\ d = Document(c)
  OBVIOUS
<1>3. OnTargets(c)
  BY <1>1, <1>2 DEF FileOK, Manifested
<1>4. OldModel(doc)
  <2>1. file \in DOMAIN Built
    BY <1>1 DEF FileOK
  <2>2. doc \in Range(Built)
    BY <1>2, <2>1 DEF Contents, Range
  <2> QED BY <1>1, <1>2, <2>2, ModelsOK DEF Written
<1>5. AsCaptured(d)
  <2>1. PICK m : m = parse_manifest(d, AllParts, Missing, Missing, "localhost")
    OBVIOUS
  <2>2. m = Manifested(d)
    BY <1>2, <2>1 DEF Manifested, Document
  <2>3. (\A t \in DOMAIN m.profiles : Contents(m.profiles[t][1]).version = 2) => SameAs(Again(m.profiles), m)
    BY <1>2, <1>4, <2>1, OldCaptured
  <2> QED BY <2>2, <2>3 DEF AsCaptured
<1> QED BY <1>2, <1>3, <1>5, DocumentOK

LEMMA InRange ==
  ASSUME NEW s, IsSeq(s)
  PROVE  /\ Len(s) \in Nat /\ DOMAIN s = 1 .. Len(s)
         /\ \A n \in 1 .. Len(s) : s[n] \in Range(s)
         /\ s # <<>> => Len(s) > 0 /\ Last(s) = s[Len(s)] /\ Last(s) \in Range(s)
<1>1. PICK S : s \in Seq(S)
  BY DEF IsSeq
<1>2. Len(s) \in Nat /\ DOMAIN s = 1 .. Len(s) /\ (s # <<>> => Len(s) > 0)
  BY <1>1
<1> QED BY <1>2 DEF Last, Range

\* nix-env --set: a generation is only made of another profile.
LEMMA GenerationProgresses ==
  ASSUME NEW g, IsSeq(g), Progresses(g), NEW path
  PROVE  Progresses(Generation(g, path)) /\ Range(Generation(g, path)) \subseteq Range(g) \cup {path}
<1>1. CASE g # <<>> /\ Last(g) = path
  BY <1>1 DEF Generation
<1>2. CASE ~(g # <<>> /\ Last(g) = path)
  <2>1. PICK S : g \in Seq(S)
    BY DEF IsSeq
  <2>2. PICK T : T = S \cup {path}
    OBVIOUS
  <2>3. g \in Seq(T) /\ path \in T
    BY <2>1, <2>2
  <2>4. PICK h : h = Append(g, path)
    OBVIOUS
  <2>5. /\ Len(g) \in Nat /\ Len(h) = Len(g) + 1 /\ DOMAIN h = 1 .. Len(g) + 1 /\ DOMAIN g = 1 .. Len(g)
        /\ \A n \in 1 .. Len(g) : h[n] = g[n]
        /\ h[Len(g) + 1] = path
    BY <2>3, <2>4
  <2>6. Len(g) > 0 => g[Len(g)] # path
    BY <1>2, <2>3 DEF Last
  <2>7. Range(h) \subseteq Range(g) \cup {path}
    BY <2>5 DEF Range
  <2>8. ASSUME NEW n \in 1 .. Len(h) - 1
        PROVE  h[n] # h[n + 1]
    <3>1. CASE n = Len(g)
      BY <2>5, <2>6, <3>1
    <3>2. CASE n # Len(g)
      <4>1. n \in 1 .. Len(g) - 1 /\ n + 1 \in 1 .. Len(g) /\ n \in 1 .. Len(g)
        <5>1. \A l \in Nat : \A k \in 1 .. l : k # l => k \in 1 .. l - 1 /\ k + 1 \in 1 .. l
          OBVIOUS
        <5>2. n \in 1 .. Len(g)
          BY <2>5
        <5> QED BY <2>5, <3>2, <5>1, <5>2
      <4> QED BY <2>5, <4>1 DEF Progresses
    <3> QED BY <3>1, <3>2
  <2> QED BY <1>2, <2>4, <2>7, <2>8 DEF Generation, Progresses
<1> QED BY <1>1, <1>2

LEMMA ResolvedOK ==
  ASSUME NEW file, NamedOK(file), LinksOK(links)
  PROVE  Resolve(file) # Link /\ (Resolve(file) = None \/ FileOK(Resolve(file)))
<1>1. links # <<>> => Last(links) \in Range(links)
  BY InRange DEF LinksOK
<1>2. None # Link
  BY BuiltOK
<1> QED BY <1>1, <1>2 DEF Resolve, LinksOK, NamedOK


\* What is to be called next, or what a user was told to run.
CallOK(c) ==
    /\ c.command \notin {"capture_manifest", "collect_garbage", "convert_manifest"}
    /\ NamedOK(Given(c.args, "old-manifest"))

CallsTyped(calls) == \E S : calls \in Seq(S) /\ \A c \in S : CallOK(c)
AdviceTyped(told) == \E S : told \in Seq(S) /\ \A c \in S : CallOK(c) /\ NamedOK(c.file)

\* The profiles that were captured are of the targets they were captured from.
Captured(profiles) ==
    /\ DOMAIN profiles \subseteq Target
    /\ \A t \in DOMAIN profiles :
         profiles[t].profile[2] = t /\ Contents(profiles[t].profile[1]).version = 2
    /\ Gathered(profiles)

Exits == {"none", "0", "1", "2", "crashed"}

Working(j) ==
    /\ OnTargets(j.new) /\ j.todo \cup j.acquired \cup j.astray \subseteq Target
    /\ Head(j.phases) = "targets" => j.todo \subseteq Owned(j)
    /\ "coordinator" \in Range(j.phases) => j.file # None
    /\ j.command = "convert_manifest" => Head(j.phases) = "convert"

\* What is printed is a manifest, and what was converted could be.
PrintedOK(j) ==
    /\ NamedOK(Printed(j))
    /\ j.command = "convert_manifest" =>
         check_old_manifest(Contents(j.file)) /\ Convertible(Contents(j.file), Infrastructure)

JobType(j) ==
    /\ j.exit \in Exits /\ j.phases \in Seq(Phase)
    /\ DOMAIN j = JobFields =>
         /\ j.file # Link /\ (j.file = None \/ FileOK(j.file)) /\ NamedOK(j.oldFile)
         /\ CallsTyped(j.calls) /\ Captured(j.profiles)
         /\ Runs(j) => Working(j)
         /\ j.exit = "0" /\ j.calls # <<>> => PrintedOK(j)

Whole(j) == DOMAIN j = JobFields /\ JobType(j)

TypeInv ==
    /\ \A key \in running : key[1] \in Target
    /\ DOMAIN profile = Target /\ DOMAIN store = Target
    /\ \A t \in Target :
         /\ IsSeq(profile[t]) /\ Progresses(profile[t])
         /\ \A path \in Range(profile[t]) \cup store[t] : path[2] = t
    /\ LinksOK(links)
    /\ lock \in [Target -> User \cup {None}] /\ left \in 0 .. MaxRequests
    /\ DOMAIN job = User /\ DOMAIN advice = User
    /\ \A u \in User : JobType(job[u]) /\ AdviceTyped(advice[u])

LEMMA CallsGoOn ==
  /\ CallsTyped(<<>>) /\ AdviceTyped(<<>>)
  /\ \A calls : CallsTyped(calls) /\ calls # <<>> => CallOK(Head(calls)) /\ CallsTyped(Tail(calls))
  /\ \A told : AdviceTyped(told) /\ told # <<>> =>
       CallOK(Head(told)) /\ NamedOK(Head(told).file) /\ AdviceTyped(Tail(told))
<1>1. CallsTyped(<<>>) /\ AdviceTyped(<<>>)
  <2>1. PICK S : S = {}
    OBVIOUS
  <2>2. <<>> \in Seq(S) /\ \A c \in S : CallOK(c) /\ NamedOK(c.file)
    BY <2>1
  <2> QED BY <2>2 DEF CallsTyped, AdviceTyped
<1>2. ASSUME NEW S, NEW s \in Seq(S), s # <<>>
      PROVE  Head(s) \in S /\ Tail(s) \in Seq(S)
  BY <1>2
<1>3. ASSUME NEW calls, CallsTyped(calls), calls # <<>>
      PROVE  CallOK(Head(calls)) /\ CallsTyped(Tail(calls))
  <2>1. PICK S : calls \in Seq(S) /\ \A c \in S : CallOK(c)
    BY <1>3 DEF CallsTyped
  <2>2. Head(calls) \in S /\ Tail(calls) \in Seq(S)
    BY <1>2, <1>3, <2>1
  <2> QED BY <2>1, <2>2 DEF CallsTyped
<1>4. ASSUME NEW told, AdviceTyped(told), told # <<>>
      PROVE  CallOK(Head(told)) /\ NamedOK(Head(told).file) /\ AdviceTyped(Tail(told))
  <2>1. PICK S : told \in Seq(S) /\ \A c \in S : CallOK(c) /\ NamedOK(c.file)
    BY <1>4 DEF AdviceTyped
  <2>2. Head(told) \in S /\ Tail(told) \in Seq(S)
    BY <1>2, <1>4, <2>1
  <2> QED BY <2>1, <2>2 DEF AdviceTyped
<1> QED BY <1>1, <1>3, <1>4

\* The phases of every command.
LEMMA PhasesTyped ==
  ASSUME NEW command, NEW options
  PROVE  /\ Phases(command, options) \in Seq(Phase)
         /\ "coordinator" \in Range(Phases(command, options)) => command \in {"deploy", "set"}
         /\ command = "convert_manifest" => Phases(command, options) = <<"convert">>
<1>1. ASSUME NEW option, NEW phase \in Phase
      PROVE  Unless(options, option, phase) \in Seq(Phase)
  <2>1. <<phase>> \in Seq(Phase) /\ <<>> \in Seq(Phase)
    OBVIOUS
  <2> QED BY <2>1 DEF Unless
<1>2. CASE command = "deploy"
  <2>1. Phases(command, options) \in Seq(DeployPhase)
    BY <1>2, DeployPhases DEF Ordered
  <2>2. DeployPhase \subseteq Phase
    BY DEF DeployPhase, Phase
  <2> QED BY <1>2, <2>1, <2>2
<1>3. CASE command = "set"
  <2>1. /\ Unless(options, "no-target-profiles", "targets") \in Seq(Phase)
        /\ Unless(options, "no-coordinator-profile", "coordinator") \in Seq(Phase)
    BY <1>1 DEF Phase
  <2>2. Phases(command, options) \in Seq(Phase)
    BY <1>3, <2>1 DEF Phases
  <2> QED BY <1>3, <2>2
<1>4. CASE command \notin {"deploy", "set"}
  <2>1. \/ Phases(command, options) = <<"deactivate", "activate">>
        \/ \E phase \in Phase \ {"coordinator"} : Phases(command, options) = <<phase>>
    BY <1>4 DEF Phases, Phase
  <2>2. <<"deactivate", "activate">> \in Seq(Phase) /\ "coordinator" \notin Range(<<"deactivate", "activate">>)
    BY DEF Phase, Range
  <2>3. \A phase \in Phase \ {"coordinator"} : <<phase>> \in Seq(Phase) /\ "coordinator" \notin Range(<<phase>>)
    BY DEF Range
  <2>4. command = "convert_manifest" => Phases(command, options) = <<"convert">>
    BY DEF Phases
  <2> QED BY <2>1, <2>2, <2>3, <2>4
<1> QED BY <1>2, <1>3, <1>4

LEMMA CreatedOnTargets ==
  ASSUME NEW file, NamedOK(file), LinksOK(links), NEW parts
  PROVE  create_manifest(file, parts) = None
           \/ (OnTargets(create_manifest(file, parts)) /\ Resolve(file) # None)
  BY ResolvedOK, ParsedOnTargets DEF create_manifest

\* What main opens is on machines that are there.
LEMMA OpenTyped ==
  ASSUME LinksOK(links), NEW command, NEW args, NEW file, NEW env, NEW asked, NEW calls,
         NamedOK(file), NamedOK(Given(args, "old-manifest")), CallsTyped(calls),
         command \in {"capture_manifest", "collect_garbage"} => DOMAIN Contents(file).infrastructure \subseteq Target,
         calls # <<>> /\ command \in {"capture_manifest", "convert_manifest"} =>
           \A option \in {"help", "version"} : Given(args, option) = None
  PROVE  Whole(Open(command, args, file, env, asked, calls))
<1>1. PICK operand : operand = IF file = None /\ command \in OpensPrevious THEN Link ELSE file
  OBVIOUS
<1>2. NamedOK(operand) /\ (command \in {"capture_manifest", "collect_garbage"} => operand = file)
  BY <1>1 DEF NamedOK, OpensPrevious
<1>3. PICK j : j = Open(command, args, file, env, asked, calls)
  OBVIOUS
<1>4. /\ DOMAIN j = JobFields /\ j.command = command /\ j.calls = calls
      /\ j.acquired = {} /\ j.astray = {} /\ j.exit # "crashed"
      /\ Runs(j) => /\ j.phases = Phases(command, args) /\ Well(j.new)
                    /\ j.todo = Visits(Head(j.phases), j.new)
  BY <1>3, OpenJob
<1>5. /\ j.file = Resolve(operand) /\ j.profiles = NoTable
      /\ j.phases \in {<<>>, Phases(command, args)} /\ j.exit \in {"none", "0", "1", "2"}
      /\ Runs(j) => j.new = Opened(command, operand, args, env)
      /\ LET given == Given(args, "old-manifest")
         IN  j.oldFile = IF given # None THEN given ELSE IF links = <<>> THEN None ELSE Link
      /\ j.exit = "0" => Parse(command, args, IF file = None THEN 0 ELSE 1) = "help" \/ Phases(command, args) = <<>>
  BY <1>1, <1>3 DEF Open, Exit, Enter, Runs
<1>6. j.file # Link /\ (j.file = None \/ FileOK(j.file)) /\ NamedOK(j.oldFile)
  BY <1>2, <1>5, ResolvedOK DEF NamedOK
<1>7. Captured(j.profiles)
  BY <1>5 DEF Captured, Gathered, NoTable
<1>8. \A m, t : /\ [EmptyManifest EXCEPT !.targets = t].targets = t
                 /\ [EmptyManifest EXCEPT !.targets = t].profiles = NoTable
                 /\ EmptyManifest.targets = NoTable /\ EmptyManifest.profiles = NoTable
  BY DEF EmptyManifest, Manifest
<1>9. DOMAIN NoTable = {}
  BY DEF NoTable
<1>10. ASSUME Runs(j)
       PROVE  OnTargets(j.new) /\ (command \notin {"capture_manifest", "collect_garbage", "convert_manifest"} => j.file # None)
  <2>1. CASE command \in {"capture_manifest", "collect_garbage"}
    <3>1. PICK targets : /\ j.new = [EmptyManifest EXCEPT !.targets = targets]
                         /\ DOMAIN targets = DOMAIN Contents(operand).infrastructure
      <4>1. \A t, p, i : DOMAIN create_targets_table(t, p, i) = DOMAIN t
        BY DEF create_targets_table, augment_default_properties
      <4>2. PICK t : t = create_targets_table(Contents(operand).infrastructure,
                             InEffect("target-property", args, env), InEffect("interface", args, env))
        OBVIOUS
      <4>3. Opened(command, operand, args, env) = [EmptyManifest EXCEPT !.targets = t]
        BY <2>1, <4>2 DEF Opened
      <4>4. j.new = [EmptyManifest EXCEPT !.targets = t]
        BY <1>5, <1>10, <4>3
      <4>5. DOMAIN t = DOMAIN Contents(operand).infrastructure
        BY <4>1, <4>2
      <4> QED BY <4>4, <4>5, Zenon
    <3> QED BY <1>2, <1>8, <1>9, <2>1, <3>1 DEF OnTargets
  <2>2. CASE command = "convert_manifest"
    <3>1. j.new = EmptyManifest
      BY <1>5, <1>10, <2>2 DEF Opened
    <3> QED BY <1>8, <1>9, <2>2, <3>1 DEF OnTargets
  <2>3. CASE command \notin {"capture_manifest", "collect_garbage", "convert_manifest"}
    <3>1. j.new = create_manifest(operand, Parts(command))
      BY <1>5, <1>10, <2>3 DEF Opened
    <3>2. j.new # None
      BY <1>4, <1>10 DEF Well
    <3> QED BY <1>2, <1>5, <3>1, <3>2, CreatedOnTargets
  <2> QED BY <2>1, <2>2, <2>3
<1>11. \A phase : Visits(phase, j.new) \subseteq DOMAIN j.new.targets \cup DOMAIN j.new.profiles
  BY DEF Visits
<1>12. ASSUME Runs(j)
       PROVE  Working(j)
  <2>1. j.todo \cup j.acquired \cup j.astray \subseteq Target
    BY <1>4, <1>10, <1>11, <1>12 DEF OnTargets
  <2>2. "coordinator" \in Range(j.phases) => j.file # None
    BY <1>4, <1>10, <1>12, PhasesTyped
  <2>3. j.command = "convert_manifest" => Head(j.phases) = "convert"
    BY <1>4, <1>12, PhasesTyped
  <2>4. Head(j.phases) = "targets" => j.todo \subseteq Owned(j)
    BY <1>4, <1>12 DEF Visits, Owned
  <2> QED BY <1>10, <1>12, <2>1, <2>2, <2>3, <2>4 DEF Working
<1>13. ASSUME j.exit = "0", j.calls # <<>>
       PROVE  PrintedOK(j)
  <2>1. CASE command \in {"capture_manifest", "convert_manifest"}
    <3>1. Parse(command, args, IF file = None THEN 0 ELSE 1) # "help"
      BY <1>4, <1>13, <2>1 DEF Parse
    <3>2. Phases(command, args) # <<>>
      BY <2>1 DEF Phases
    <3> QED BY <1>5, <1>13, <3>1, <3>2
  <2>2. CASE command \notin {"capture_manifest", "convert_manifest"}
    <3>1. Printed(j) = j.file
      BY <1>4, <2>2 DEF Printed
    <3> QED BY <1>4, <1>6, <2>2, <3>1 DEF NamedOK, PrintedOK
  <2> QED BY <2>1, <2>2
<1>14. j.exit \in Exits /\ j.phases \in Seq(Phase)
  <2>1. <<>> \in Seq(Phase)
    OBVIOUS
  <2>2. Phases(command, args) \in Seq(Phase)
    BY PhasesTyped
  <2>3. j.phases \in {<<>>, Phases(command, args)} /\ j.exit \in {"none", "0", "1", "2"}
    BY <1>5
  <2> QED BY <2>1, <2>2, <2>3 DEF Exits
<1> QED BY <1>3, <1>4, <1>6, <1>7, <1>12, <1>13, <1>14 DEF JobType, Whole

-----------------------------------------------------------------------------
(* The ends of phases keep the types. *)

\* What a phase leaves of a command.
LEMMA StillTyped ==
  ASSUME NEW j, JobType(j), DOMAIN j = JobFields, Runs(j),
         NEW k, DOMAIN k = JobFields,
         \A field \in {"command", "calls", "file", "oldFile", "new"} : k[field] = j[field],
         Captured(k.profiles), k.exit = "none", k.phases \in Seq(Phase),
         k.todo \cup k.acquired \cup k.astray \subseteq Target,
         Range(k.phases) \subseteq Range(j.phases) \cup {"unlock"},
         k.phases # <<>> /\ Head(k.phases) = "targets" => k.todo \subseteq Owned(j),
         k.command = "convert_manifest" /\ k.phases # <<>> => Head(k.phases) = "convert"
  PROVE  JobType(k)
<1>1. /\ k.command = j.command /\ k.calls = j.calls /\ k.file = j.file /\ k.oldFile = j.oldFile /\ k.new = j.new
  OBVIOUS
<1>2. Working(j) /\ j.file # Link /\ (j.file = None \/ FileOK(j.file)) /\ NamedOK(j.oldFile) /\ CallsTyped(j.calls)
  BY DEF JobType
<1>3. Runs(k) => Working(k)
  BY <1>1, <1>2 DEF Working, Runs, Owned
<1>4. k.exit \in Exits /\ k.exit # "0"
  BY DEF Exits
<1> QED BY <1>1, <1>2, <1>3, <1>4 DEF JobType

LEMMA ExitTyped ==
  ASSUME NEW j, JobType(j), DOMAIN j = JobFields, Runs(j), NEW status \in Exits,
         status = "0" /\ j.command = "convert_manifest" => PrintedOK(j)
  PROVE  Whole(Exit(j, status))
<1>1. PICK k : k = Exit(j, status)
  OBVIOUS
<1>2. /\ DOMAIN k = JobFields /\ k.exit = status /\ k.phases = <<>>
      /\ k.command = j.command /\ k.calls = j.calls /\ k.file = j.file /\ k.oldFile = j.oldFile /\ k.new = j.new
      /\ k.profiles = j.profiles
  BY <1>1 DEF Exit, JobFields
<1>3. Working(j) /\ j.file # Link /\ (j.file = None \/ FileOK(j.file)) /\ NamedOK(j.oldFile)
      /\ CallsTyped(j.calls) /\ Captured(j.profiles)
  BY DEF JobType
<1>4. Printed(k) = Printed(j)
  BY <1>2 DEF Printed
<1>5. ASSUME status = "0"
      PROVE  PrintedOK(j)
  <2>1. CASE j.command = "capture_manifest"
    <3>1. PICK m : m = aggregate_manifest(j.profiles, j.new.targets)
      OBVIOUS
    <3>2. /\ m.targets = j.new.targets
          /\ m.profiles = [t \in DOMAIN j.profiles |-> j.profiles[t].profile]
      BY <3>1 DEF aggregate_manifest, Manifest
    <3>3. OnTargets(m)
      BY <1>3, <3>2 DEF OnTargets, Captured, Working
    <3>4. Printed(j) = Document(m)
      BY <2>1, <3>1 DEF Printed
    <3>5. AsCaptured(Document(m))
      BY <1>3, <3>1, CapturedAgain DEF Captured
    <3> QED BY <2>1, <3>3, <3>4, <3>5, DocumentOK DEF NamedOK, PrintedOK
  <2>2. CASE j.command = "convert_manifest"
    BY <1>5, <2>2
  <2>3. CASE j.command \notin {"capture_manifest", "convert_manifest"}
    <3>1. Printed(j) = j.file
      BY <2>3 DEF Printed
    <3> QED BY <1>3, <2>3, <3>1 DEF NamedOK, PrintedOK
  <2> QED BY <2>1, <2>2, <2>3
<1>6. <<>> \in Seq(Phase) /\ ~Runs(k)
  BY <1>2 DEF Runs
<1>7. status = "0" => PrintedOK(k)
  BY <1>2, <1>4, <1>5 DEF PrintedOK
<1> QED BY <1>1, <1>2, <1>3, <1>6, <1>7 DEF JobType, Whole


LEMMA EnterTyped ==
  ASSUME NEW j, JobType(j), DOMAIN j = JobFields, Runs(j), j.command # "convert_manifest",
         NEW phases \in Seq(Phase), phases # <<>>, Range(phases) \subseteq Range(j.phases) \cup {"unlock"}
  PROVE  LET k == Enter(j, phases)
         IN  Whole(k) /\ Whole([k EXCEPT !.ok = FALSE])
<1>1. PICK k, l : k = Enter(j, phases) /\ l = [k EXCEPT !.ok = FALSE]
  OBVIOUS
<1>2. /\ DOMAIN k = JobFields /\ k.phases = phases /\ k.todo = Visits(Head(phases), j.new)
      /\ \A field \in JobFields \ {"phases", "todo"} : k[field] = j[field]
  BY <1>1 DEF Enter, JobFields
<1>3. DOMAIN l = JobFields /\ \A field \in JobFields \ {"ok"} : l[field] = k[field]
  BY <1>1, <1>2 DEF JobFields
<1>4. Working(j) /\ Captured(j.profiles) /\ j.exit = "none"
  BY DEF JobType, Runs
<1>5. k.todo \cup k.acquired \cup k.astray \subseteq Target
  <2>1. Visits(Head(phases), j.new) \subseteq Target
    BY <1>4 DEF Visits, Working, OnTargets
  <2>2. k.acquired = j.acquired /\ k.astray = j.astray
    BY <1>2 DEF JobFields
  <2> QED BY <1>2, <1>4, <2>1, <2>2 DEF Working
<1>6. /\ k.command = j.command /\ k.calls = j.calls /\ k.file = j.file /\ k.oldFile = j.oldFile /\ k.new = j.new
      /\ k.profiles = j.profiles /\ k.exit = "none"
  BY <1>2, <1>4 DEF JobFields
<1>7. /\ l.command = j.command /\ l.calls = j.calls /\ l.file = j.file /\ l.oldFile = j.oldFile /\ l.new = j.new
      /\ l.profiles = j.profiles /\ l.exit = "none" /\ l.phases = phases
      /\ l.todo \cup l.acquired \cup l.astray \subseteq Target
  BY <1>2, <1>3, <1>5, <1>6 DEF JobFields
<1>8. Head(phases) = "targets" => k.todo \subseteq Owned(j) /\ l.todo \subseteq Owned(j)
  BY <1>2, <1>3 DEF Visits, Owned, JobFields
<1>9. JobType(k)
  BY <1>2, <1>4, <1>5, <1>6, <1>8, StillTyped
<1>10. JobType(l)
  BY <1>3, <1>4, <1>7, <1>8, StillTyped
<1> QED BY <1>1, <1>2, <1>3, <1>9, <1>10 DEF Whole

LEMMA SucceedTyped ==
  ASSUME NEW j, JobType(j), DOMAIN j = JobFields, Runs(j), Head(j.phases) # "convert"
  PROVE  Whole(Succeed(j))
<1>1. j.command # "convert_manifest"
  BY DEF JobType, Working
<1>2. CASE Len(j.phases) = 1
  <2>1. "0" \in Exits
    BY DEF Exits
  <2> QED BY <1>1, <1>2, <2>1, ExitTyped DEF Succeed
<1>3. CASE Len(j.phases) # 1
  <2>1. PICK p \in Seq(Phase) : p = j.phases /\ p # <<>> /\ Len(p) # 1
    BY <1>3 DEF JobType, Runs
  <2>2. PICK rest : rest = Tail(p)
    OBVIOUS
  <2>3. Len(p) \in Nat /\ Len(p) > 1 /\ rest \in Seq(Phase) /\ Len(rest) = Len(p) - 1
    <3>1. Len(p) \in Nat /\ Len(p) # 0
      BY <2>1
    <3>2. Tail(p) \in Seq(Phase) /\ Len(Tail(p)) = Len(p) - 1
      BY <2>1
    <3>3. \A n \in Nat : n # 0 /\ n # 1 => n > 1
      OBVIOUS
    <3>4. Len(p) > 1
      BY <2>1, <3>1, <3>3
    <3> QED BY <2>2, <3>1, <3>2, <3>4
  <2>4. \A n \in 1 .. Len(rest) : rest[n] = p[n + 1] /\ n + 1 \in 1 .. Len(p)
    BY <2>1, <2>2, <2>3
  <2>5. DOMAIN p = 1 .. Len(p) /\ DOMAIN rest = 1 .. Len(rest) /\ rest # <<>>
    BY <2>1, <2>3
  <2>6. Range(rest) \subseteq Range(p)
    BY <2>4, <2>5 DEF Range
  <2>7. Succeed(j) = Enter(j, rest)
    BY <1>3, <2>1, <2>2 DEF Succeed
  <2> QED BY <1>1, <2>1, <2>3, <2>5, <2>6, <2>7, EnterTyped
<1> QED BY <1>2, <1>3

LEMMA FailTyped ==
  ASSUME NEW j, JobType(j), DOMAIN j = JobFields, Runs(j), Head(j.phases) # "convert"
  PROVE  Whole(Fail(j))
<1>1. j.command # "convert_manifest"
  BY DEF JobType, Working
<1>2. "1" \in Exits
  BY DEF Exits
<1>3. <<"unlock">> \in Seq(Phase) /\ <<"unlock">> # <<>> /\ Range(<<"unlock">>) = {"unlock"}
  BY DEF Phase, Range
<1>4. Whole([Enter(j, <<"unlock">>) EXCEPT !.ok = FALSE])
  BY <1>1, <1>3, EnterTyped
<1>5. Whole(Exit(j, "1"))
  BY <1>1, <1>2, ExitTyped
<1> QED BY <1>4, <1>5 DEF Fail

\* A command that goes on, in the same phase.
LEMMA SameTyped ==
  ASSUME NEW j, JobType(j), DOMAIN j = JobFields, Runs(j),
         NEW k, DOMAIN k = JobFields,
         \A field \in {"command", "calls", "file", "oldFile", "new", "phases", "exit"} : k[field] = j[field],
         Captured(k.profiles), k.todo \subseteq j.todo, k.acquired \cup k.astray \subseteq Target
  PROVE  Whole(k) /\ Runs(k)
<1>1. k.command = j.command /\ k.phases = j.phases /\ k.exit = "none"
  BY DEF Runs
<1>2. j.phases \in Seq(Phase) /\ Working(j)
  BY DEF JobType
<1>3. k.command = "convert_manifest" /\ k.phases # <<>> => Head(k.phases) = "convert"
  BY <1>1, <1>2 DEF Working
<1>4. k.todo \cup k.acquired \cup k.astray \subseteq Target
  BY <1>2 DEF Working
<1>5. k.phases # <<>> /\ Head(k.phases) = "targets" => k.todo \subseteq Owned(j)
  BY <1>1, <1>2 DEF Working
<1>6. JobType(k)
  BY <1>1, <1>2, <1>3, <1>4, <1>5, StillTyped
<1> QED BY <1>1, <1>6 DEF Runs, Whole

LEMMA EndVisitsTyped ==
  ASSUME NEW j, JobType(j), DOMAIN j = JobFields, Runs(j), Head(j.phases) # "convert"
  PROVE  Whole(EndVisits(j))
  BY SucceedTyped, FailTyped DEF EndVisits

LEMMA VisitedTyped ==
  ASSUME NEW j, JobType(j), DOMAIN j = JobFields, Runs(j), Head(j.phases) # "convert", NEW t, NEW ok
  PROVE  Whole(Visited(j, t, ok))
<1>1. PICK k : k = [j EXCEPT !.todo = @ \ {t}, !.ok = @ /\ ok]
  OBVIOUS
<1>2. /\ DOMAIN k = JobFields /\ k.todo \subseteq j.todo
      /\ \A field \in JobFields \ {"todo", "ok"} : k[field] = j[field]
  BY <1>1 DEF JobFields
<1>3. Working(j) /\ Captured(j.profiles)
  BY DEF JobType
<1>4. /\ \A field \in {"command", "calls", "file", "oldFile", "new", "phases", "exit"} : k[field] = j[field]
      /\ k.profiles = j.profiles /\ k.acquired = j.acquired /\ k.astray = j.astray /\ k.phases = j.phases
  BY <1>2 DEF JobFields
<1>5. k.acquired \cup k.astray \subseteq Target
  BY <1>2, <1>3, <1>4 DEF Working
<1>6. Whole(k) /\ Runs(k)
  BY <1>2, <1>3, <1>4, <1>5, SameTyped
<1>7. Whole(EndVisits(k))
  BY <1>2, <1>4, <1>6, EndVisitsTyped DEF Whole
<1> QED BY <1>1, <1>6, <1>7 DEF Visited

LEMMA AfterLockingTyped ==
  ASSUME NEW j, JobType(j), DOMAIN j = JobFields, Runs(j), Head(j.phases) # "convert"
  PROVE  Whole(AfterLocking(j))
<1>1. j.command # "convert_manifest" /\ Working(j) /\ Captured(j.profiles)
  BY DEF JobType, Working
<1>2. Whole(Succeed(j))
  BY SucceedTyped
<1>3. Whole(Exit(j, "1"))
  <2>1. "1" \in Exits
    BY DEF Exits
  <2> QED BY <2>1, ExitTyped
<1>4. Whole([j EXCEPT !.phases = <<"unlock">>, !.todo = j.acquired])
  <2>1. PICK k : k = [j EXCEPT !.phases = <<"unlock">>, !.todo = j.acquired]
    OBVIOUS
  <2>2. <<"unlock">> \in Seq(Phase) /\ Range(<<"unlock">>) = {"unlock"} /\ Head(<<"unlock">>) = "unlock"
    BY DEF Phase, Range
  <2>3. /\ DOMAIN k = JobFields /\ k.phases = <<"unlock">> /\ k.todo = j.acquired
        /\ \A field \in JobFields \ {"phases", "todo"} : k[field] = j[field]
    BY <2>1 DEF JobFields
  <2>4. /\ \A field \in {"command", "calls", "file", "oldFile", "new"} : k[field] = j[field]
        /\ k.profiles = j.profiles /\ k.acquired = j.acquired /\ k.astray = j.astray /\ k.exit = "none"
        /\ k.command = j.command
    BY <2>3 DEF JobFields, Runs
  <2>5. k.todo \cup k.acquired \cup k.astray \subseteq Target
    BY <1>1, <2>3, <2>4 DEF Working
  <2>6. JobType(k)
    BY <1>1, <2>2, <2>3, <2>4, <2>5, StillTyped
  <2> QED BY <2>1, <2>3, <2>6 DEF Whole
<1>5. Whole(j)
  BY DEF Whole
<1> QED BY <1>2, <1>3, <1>4, <1>5 DEF AfterLocking

LEMMA EndedTyped ==
  ASSUME NEW j, JobType(j)
  PROVE  JobType(Ended(j))
<1>1. CASE j.exit = "none" \/ j.calls # <<>>
  BY <1>1 DEF Ended
<1>2. CASE ~(j.exit = "none" \/ j.calls # <<>>)
  <2>1. PICK k : k = Ended(j)
    OBVIOUS
  <2>2. k.phases = <<>> /\ k.exit = j.exit /\ DOMAIN k = EndedFields
    BY <1>2, <2>1 DEF Ended, NoJob, EndedFields
  <2>3. EndedFields # JobFields /\ <<>> \in Seq(Phase)
    <3>1. "file" \in JobFields /\ "file" \notin EndedFields
      BY DEF JobFields, EndedFields
    <3> QED BY <3>1
  <2> QED BY <2>1, <2>2, <2>3 DEF JobType
<1> QED BY <1>1, <1>2


-----------------------------------------------------------------------------
(* The files that options name. *)

ArgsOK(args) ==
    \A spelling \in DOMAIN args : Option(spelling) = "old-manifest" => NamedOK(args[spelling])

LEMMA GivenOK ==
  ASSUME NEW args, ArgsOK(args)
  PROVE  NamedOK(Given(args, "old-manifest"))
<1>1. PICK spellings : spellings = {spelling \in DOMAIN args : Option(spelling) = "old-manifest"}
  OBVIOUS
<1>2. CASE spellings = {}
  <2>1. Given(args, "old-manifest") = None
    BY <1>1, <1>2 DEF Given
  <2> QED BY <2>1 DEF NamedOK
<1>3. CASE spellings # {}
  <2>1. PICK one \in spellings : one = CHOOSE spelling \in spellings : TRUE
    BY <1>3
  <2>2. Given(args, "old-manifest") = args[one]
    BY <1>1, <1>3, <2>1 DEF Given
  <2> QED BY <1>1, <2>1, <2>2 DEF ArgsOK
<1> QED BY <1>2, <1>3

LEMMA Spelled ==
  /\ Option("p") = "profile" /\ Option("m") = "max-concurrent-transfers" /\ Option("i") = "infrastructure"
  /\ \A spelling \in {"profile", "coordinator-profile-path", "no-upgrade", "no-rollback", "delete-state", "no-lock",
                      "no-coordinator-profile", "no-target-profiles", "no-migration", "depth-first", "keep",
                      "target-property", "interface"} : Option(spelling) = spelling
<1>1. DOMAIN Letters = {"h", "v", "m", "p", "o", "C", "c", "u", "f", "d", "S", "t", "i"}
  BY DEF Letters
<1>2. Letters["p"] = "profile" /\ Letters["m"] = "max-concurrent-transfers" /\ Letters["i"] = "infrastructure"
  BY DEF Letters
<1> QED BY <1>1, <1>2 DEF Option

LEMMA JoinedArgs ==
  ASSUME NEW f, NEW g, ArgsOK(f), ArgsOK(g)
  PROVE  ArgsOK(Over(f, g))
<1>1. PICK h : h = Over(f, g)
  OBVIOUS
<1>2. /\ DOMAIN h = DOMAIN f \cup DOMAIN g
      /\ \A x \in DOMAIN f : h[x] = f[x]
      /\ \A x \in DOMAIN g \ DOMAIN f : h[x] = g[x]
  BY <1>1 DEF Over
<1> QED BY <1>1, <1>2 DEF ArgsOK

LEMMA OneArg ==
  ASSUME NEW spelling, NEW value, Option(spelling) = "old-manifest" => NamedOK(value)
  PROVE  ArgsOK(Only(spelling, value))
  BY DEF ArgsOK, Only

LEMMA PassedArgs ==
  ASSUME NEW asked, NEW spellings, \A spelling \in spellings : Option(spelling) # "old-manifest"
  PROVE  ArgsOK(Pass(asked, spellings))
  BY DEF ArgsOK, Pass

\* The previous manifest is printed as it was given, and files were checked.
LEMMA AdviceIsTyped ==
  ASSUME NEW j, NamedOK(j.file), NamedOK(j.oldFile)
  PROVE  AdviceTyped(Advice(j))
<1>1. \A value : ArgsOK(Only("p", value)) /\ ArgsOK(Only("no-rollback", value)) /\ ArgsOK(Only("no-upgrade", value))
  BY Spelled, OneArg
<1>2. \A value : NamedOK(value) => ArgsOK(Only("o", value))
  BY OneArg
<1>3. ArgsOK(NoTable)
  BY DEF ArgsOK, NoTable
<1>4. \A always : ArgsOK(ProfileArgs(j, always))
  <2>1. ArgsOK(Pass(j.args, {"coordinator-profile-path"}))
    BY Spelled, PassedArgs
  <2> QED BY <1>1, <1>3, <2>1, JoinedArgs DEF ProfileArgs
<1>5. ASSUME NEW command, command \notin {"capture_manifest", "collect_garbage", "convert_manifest"},
             NEW args, ArgsOK(args), NEW file, NamedOK(file)
      PROVE  CallOK(Told(command, args, file)) /\ NamedOK(Told(command, args, file).file)
  BY <1>5, GivenOK DEF Told, CallOK
<1>6. AdviceTyped(<<>>)
  BY CallsGoOn
<1>7. ASSUME NEW a, CallOK(a), NamedOK(a.file)
      PROVE  AdviceTyped(<<a>>)
  <2>1. PICK S : S = {a}
    OBVIOUS
  <2>2. <<a>> \in Seq(S) /\ \A c \in S : CallOK(c) /\ NamedOK(c.file)
    BY <1>7, <2>1
  <2> QED BY <2>2 DEF AdviceTyped
<1>8. ASSUME NEW a, NEW b, CallOK(a), NamedOK(a.file), CallOK(b), NamedOK(b.file)
      PROVE  AdviceTyped(<<a, b>>)
  <2>1. PICK S : S = {a, b}
    OBVIOUS
  <2>2. <<a, b>> \in Seq(S) /\ \A c \in S : CallOK(c) /\ NamedOK(c.file)
    BY <1>8, <2>1
  <2> QED BY <2>2 DEF AdviceTyped
<1>9. CASE j.status = "state"
  <2>1. ArgsOK(Pass(j.args, {"no-upgrade", "delete-state"}))
    BY Spelled, PassedArgs
  <2>2. ArgsOK(IF j.oldFile = None THEN NoTable ELSE Only("o", j.oldFile))
    BY <1>2, <1>3
  <2>3. PICK args : args = Over(Over(ProfileArgs(j, FALSE), Pass(j.args, {"no-upgrade", "delete-state"})),
                            IF j.oldFile = None THEN NoTable ELSE Only("o", j.oldFile))
    OBVIOUS
  <2>4. ArgsOK(args)
    BY <1>4, <2>1, <2>2, <2>3, JoinedArgs
  <2>5. Advice(j) = <<Told("migrate", args, j.file), Told("set", ProfileArgs(j, FALSE), j.file)>>
    BY <1>9, <2>3 DEF Advice
  <2> QED BY <1>4, <1>5, <1>8, <2>4, <2>5
<1>10. CASE j.status = "new mappings" /\ j.oldFile # None
  <2>1. PICK args : args = NoRollback(j, Only("o", j.file))
    OBVIOUS
  <2>2. ArgsOK(args)
    BY <1>1, <1>2, <1>4, <2>1, JoinedArgs DEF NoRollback
  <2>3. Advice(j) = <<Told("activate", args, j.oldFile)>>
    BY <1>10, <2>1 DEF Advice
  <2> QED BY <1>5, <1>7, <2>2, <2>3
<1>11. CASE j.status = "obsolete mappings" /\ j.oldFile # None
  <2>1. PICK args : args = NoRollback(j, Only("no-upgrade", "yes"))
    OBVIOUS
  <2>2. ArgsOK(args)
    BY <1>1, <1>4, <2>1, JoinedArgs DEF NoRollback
  <2>3. Advice(j) = <<Told("activate", args, j.oldFile)>>
    BY <1>11, <2>1 DEF Advice
  <2> QED BY <1>5, <1>7, <2>2, <2>3
<1>12. CASE j.status # "state" /\ (j.status \notin {"new mappings", "obsolete mappings"} \/ j.oldFile = None)
  BY <1>6, <1>12 DEF Advice
<1> QED BY <1>9, <1>10, <1>11, <1>12

\* The commands that scripts call.
LEMMA ScriptsTyped ==
  ASSUME LinksOK(links), NEW r \in Requests, Calls(r) # <<>>
  PROVE  /\ NamedOK(Given(Head(Calls(r)).args, "old-manifest")) /\ CallsTyped(Tail(Calls(r)))
         /\ Head(Calls(r)).command \in {"capture_manifest", "collect_garbage"} =>
              r.file \in DOMAIN Built /\ Built[r.file].version = 2
         /\ Tail(Calls(r)) # <<>> /\ Head(Calls(r)).command \in {"capture_manifest", "convert_manifest"} =>
              \A option \in {"help", "version"} : Given(Head(Calls(r)).args, option) = None
<1>1. \A command, args : Call(command, args).command = command /\ Call(command, args).args = args
  BY DEF Call
<1>2. ASSUME NEW c
      PROVE  Head(<<c>>) = c /\ Tail(<<c>>) = <<>>
  OBVIOUS
<1>3. ASSUME NEW b, CallOK(b)
      PROVE  CallsTyped(<<b>>)
  <2>1. PICK S : S = {b}
    OBVIOUS
  <2>2. <<b>> \in Seq(S) /\ \A c \in S : CallOK(c)
    BY <1>3, <2>1
  <2> QED BY <2>2 DEF CallsTyped
<1>4. ASSUME NEW a, NEW b, CallOK(a), CallOK(b)
      PROVE  CallsTyped(<<a, b>>)
  <2>1. PICK S : S = {a, b}
    OBVIOUS
  <2>2. <<a, b>> \in Seq(S) /\ \A c \in S : CallOK(c)
    BY <1>4, <2>1
  <2> QED BY <2>2 DEF CallsTyped
<1>5. CallsTyped(<<>>)
  BY CallsGoOn
<1>6. ASSUME NEW asked, NEW spellings, NEW option, \A spelling \in spellings : Option(spelling) # option
      PROVE  Given(Pass(asked, spellings), option) = None
  BY <1>6 DEF Given, Pass
<1>7. CASE r.script = "disnix-env"
  <2>1. PICK passed, previous : /\ Calls(r) = <<Call("deploy", IF previous = None THEN passed ELSE Over(passed, Only("o", previous)))>>
                                /\ ArgsOK(passed) /\ previous = IF links = <<>> THEN None ELSE Last(links)
    <3>1. PICK previous : previous = IF links = <<>> THEN None ELSE Last(links)
      OBVIOUS
    <3>2. PICK given : given = IF check_global_delete_state(r.env) THEN Over(r.asked, Only("delete-state", "yes")) ELSE r.asked
      OBVIOUS
    <3>3. PICK passed : passed = Pass(given, {"m", "profile", "no-lock", "no-upgrade", "delete-state",
                               "no-coordinator-profile", "coordinator-profile-path",
                               "no-target-profiles", "no-migration", "depth-first", "keep"})
      OBVIOUS
    <3>4. ArgsOK(passed)
      BY <3>3, Spelled, PassedArgs
    <3>5. Calls(r) = <<Call("deploy", IF previous = None THEN passed ELSE Over(passed, Only("o", previous)))>>
      BY <1>7, <3>1, <3>2, <3>3 DEF Calls, disnix_env, Script
    <3> QED BY <3>1, <3>4, <3>5
  <2>2. NamedOK(previous)
    BY <2>1, InRange DEF LinksOK, NamedOK
  <2>3. ArgsOK(IF previous = None THEN passed ELSE Over(passed, Only("o", previous)))
    BY <2>1, <2>2, OneArg, JoinedArgs
  <2> QED BY <1>1, <1>2, <1>5, <2>1, <2>3, GivenOK
<1>8. CASE r.script = "disnix-reconstruct"
  <2>1. PICK a, b, c : /\ Calls(r) = <<a, b, c>>
                       /\ a = Call("capture_manifest", Pass(r.asked, {"profile", "target-property", "interface", "m"}))
                       /\ b = Call("compare_manifest", Pass(r.asked, {"profile", "coordinator-profile-path"}))
                       /\ c = Call("set", Over(Only("no-target-profiles", "yes"),
                                Pass(r.asked, {"profile", "coordinator-profile-path", "no-coordinator-profile"})))
    BY <1>8 DEF Calls, disnix_reconstruct, Script
  <2>2. Head(Calls(r)) = a /\ Tail(Calls(r)) = <<b, c>>
    BY <2>1
  <2>3. ArgsOK(a.args) /\ ArgsOK(b.args)
    BY <1>1, <2>1, Spelled, PassedArgs
  <2>4. ArgsOK(c.args)
    <3>1. ArgsOK(Only("no-target-profiles", "yes"))
      BY Spelled, OneArg
    <3>2. ArgsOK(Pass(r.asked, {"profile", "coordinator-profile-path", "no-coordinator-profile"}))
      BY Spelled, PassedArgs
    <3> QED BY <1>1, <2>1, <3>1, <3>2, JoinedArgs
  <2>5. CallOK(b) /\ CallOK(c)
    BY <1>1, <2>1, <2>3, <2>4, GivenOK DEF CallOK
  <2>6. \A option \in {"help", "version"} : Given(a.args, option) = None
    BY <1>1, <1>6, <2>1, Spelled
  <2> QED BY <1>4, <1>8, <2>2, <2>3, <2>5, <2>6, GivenOK, RequestsOK
<1>9. CASE r.script = "disnix-convert"
  <2>1. PICK a, b : /\ Calls(r) = <<a, b>>
                    /\ a = Call("convert_manifest", Pass(r.asked, {"profile", "target-property", "interface", "i"}))
                    /\ b = Call("set", Pass(r.asked, {"profile", "coordinator-profile-path", "no-coordinator-profile"}))
    BY <1>9 DEF Calls, disnix_convert, Script
  <2>2. Head(Calls(r)) = a /\ Tail(Calls(r)) = <<b>>
    BY <2>1
  <2>3. ArgsOK(a.args) /\ ArgsOK(b.args)
    BY <1>1, <2>1, Spelled, PassedArgs
  <2>4. CallOK(b)
    BY <1>1, <2>1, <2>3, GivenOK DEF CallOK
  <2>5. \A option \in {"help", "version"} : Given(a.args, option) = None
    BY <1>1, <1>6, <2>1, Spelled
  <2>6. a.command = "convert_manifest"
    BY <1>1, <2>1
  <2> QED BY <1>3, <2>2, <2>3, <2>4, <2>5, <2>6, GivenOK
<1>10. CASE r.script = "disnix-delegate"
  <2>1. PICK a : Calls(r) = <<a>> /\ a = Call("build", Pass(r.asked, {"m"}))
    BY <1>10 DEF Calls, disnix_delegate, Script
  <2>2. ArgsOK(a.args) /\ a.command = "build"
    BY <1>1, <2>1, Spelled, PassedArgs
  <2> QED BY <1>2, <1>5, <2>1, <2>2, GivenOK
<1>11. CASE r.script \notin {"disnix-env", "disnix-reconstruct", "disnix-convert", "disnix-delegate"}
  <2>1. PICK a : Calls(r) = <<a>> /\ a = Call(r.script, r.asked)
    BY <1>11 DEF Calls
  <2>2. NamedOK(Given(a.args, "old-manifest")) /\ a.command = r.script
    BY <1>1, <2>1, BuiltFiles, RequestsOK DEF NamedOK
  <2> QED BY <1>2, <1>5, <2>1, <2>2, RequestsOK
<1> QED BY <1>7, <1>8, <1>9, <1>10, <1>11


-----------------------------------------------------------------------------
(* The steps keep the types. *)

RunningOK(keys) == \A key \in keys : key[1] \in Target

GenerationsOK(profiles, stores) ==
    /\ DOMAIN profiles = Target /\ DOMAIN stores = Target
    /\ \A t \in Target :
         /\ IsSeq(profiles[t]) /\ Progresses(profiles[t])
         /\ \A path \in Range(profiles[t]) \cup stores[t] : path[2] = t

LocksOK(locks) == locks \in [Target -> User \cup {None}]

CommandsOK(jobs, told) ==
    /\ DOMAIN jobs = User /\ DOMAIN told = User
    /\ \A u \in User : JobType(jobs[u]) /\ AdviceTyped(told[u])

LEMMA TypeParts ==
  TypeInv <=> /\ RunningOK(running) /\ GenerationsOK(profile, store) /\ LinksOK(links)
              /\ LocksOK(lock) /\ left \in 0 .. MaxRequests /\ CommandsOK(job, advice)
  BY DEF TypeInv, RunningOK, GenerationsOK, LocksOK, CommandsOK

LEMMA TypePartsNext ==
  TypeInv' <=> /\ RunningOK(running') /\ GenerationsOK(profile', store') /\ LinksOK(links')
               /\ LocksOK(lock') /\ left' \in 0 .. MaxRequests /\ CommandsOK(job', advice')
  BY DEF TypeInv, RunningOK, GenerationsOK, LocksOK, CommandsOK

\* The command of a user that runs.
LEMMA JobNow ==
  ASSUME DeployInv, TypeInv, NEW u \in User, Running(u)
  PROVE  /\ Whole(job[u]) /\ Runs(job[u]) /\ Working(job[u]) /\ Refers(job[u])
         /\ Captured(job[u].profiles) /\ job[u].file # Link /\ (job[u].file = None \/ FileOK(job[u].file))
         /\ Head(job[u].phases) \in Range(job[u].phases)
<1>1. Runs(job[u]) /\ DOMAIN job[u] = JobFields /\ Refers(job[u])
  BY DEF Running, Runs, DeployInv, UserOK
<1>2. JobType(job[u])
  BY DEF TypeInv
<1>3. Head(job[u].phases) \in Range(job[u].phases)
  <2>1. PICK p \in Seq(Phase) : p = job[u].phases /\ p # <<>>
    BY <1>1, <1>2 DEF JobType, Runs
  <2>2. Head(p) = p[1] /\ 1 \in DOMAIN p
    BY <2>1
  <2> QED BY <2>1, <2>2 DEF Range
<1> QED BY <1>1, <1>2, <1>3 DEF JobType, Whole

LEMMA SetTyped ==
  ASSUME TypeInv, NEW u \in User, NEW j, Whole(j), Set(u, j)
  PROVE  CommandsOK(job', advice') /\ left' = left
<1>1. AdviceTyped(Advice(j))
  BY AdviceIsTyped DEF Whole, JobType, NamedOK
<1>2. JobType(Ended(j))
  BY EndedTyped DEF Whole
<1> QED BY <1>1, <1>2 DEF Set, TypeInv, CommandsOK

\* Phases that succeed or fail.
LEMMA PhaseTyped ==
  ASSUME DeployInv, TypeInv, NEW u \in User, Running(u), Head(job[u].phases) # "convert",
         Succeeds(u) \/ \E status : Fails(u, status)
  PROVE  CommandsOK(job', advice') /\ left' = left
<1>1. Whole(job[u]) /\ Runs(job[u]) /\ Working(job[u]) /\ Captured(job[u].profiles)
  BY JobNow
<1>2. CASE Succeeds(u)
  BY <1>1, <1>2, SucceedTyped, SetTyped DEF Succeeds, Whole
<1>3. ASSUME NEW status, Fails(u, status)
      PROVE  CommandsOK(job', advice') /\ left' = left
  <2>1. PICK j : j = [job[u] EXCEPT !.status = status]
    OBVIOUS
  <2>2. DOMAIN j = JobFields /\ \A field \in JobFields \ {"status"} : j[field] = job[u][field]
    BY <1>1, <2>1 DEF Whole, JobFields
  <2>3. /\ \A field \in {"command", "calls", "file", "oldFile", "new", "phases", "exit"} : j[field] = job[u][field]
        /\ j.profiles = job[u].profiles /\ j.todo = job[u].todo /\ j.acquired = job[u].acquired
        /\ j.astray = job[u].astray /\ j.phases = job[u].phases
    BY <2>2 DEF JobFields
  <2>4. j.acquired \cup j.astray \subseteq Target
    BY <1>1, <2>3 DEF Working
  <2>5. Whole(j) /\ Runs(j)
    BY <1>1, <2>2, <2>3, <2>4, SameTyped DEF Whole
  <2>6. Whole(Fail(j))
    BY <2>3, <2>5, FailTyped DEF Whole
  <2> QED BY <1>3, <2>1, <2>6, SetTyped DEF Fails
<1> QED BY <1>2, <1>3

\* What is distributed, and the transition.
LEMMA WorkTyped ==
  ASSUME DeployInv, TypeInv, NEW u \in User,
         Distribute(u) \/ Deactivate(u) \/ Activate(u) \/ MigrateData(u) \/ SetCoordinator(u)
  PROVE  TypeInv'
<1> DEFINE j == job[u]
<1>1. Running(u) /\ Head(j.phases) # "convert"
  BY DEF Distribute, Deactivate, Activate, MigrateData, SetCoordinator, At
<1>2. Whole(j) /\ Runs(j) /\ Working(j) /\ Refers(j) /\ j.file # Link /\ (j.file = None \/ FileOK(j.file))
      /\ Head(j.phases) \in Range(j.phases)
  BY <1>1, JobNow
<1>3. Succeeds(u) \/ (\E status : Fails(u, status))
  BY DEF Distribute, Deactivate, Activate, MigrateData, SetCoordinator
<1>4. CommandsOK(job', advice') /\ left' = left
  BY <1>1, <1>3, PhaseTyped
<1>5. /\ RunningOK(running) /\ GenerationsOK(profile, store) /\ LinksOK(links) /\ LocksOK(lock)
      /\ left \in 0 .. MaxRequests
  BY TypeParts
<1>6. Targets(j) \subseteq Target /\ \A t \in Owned(j) : j.new.profiles[t][2] = t
  BY <1>2 DEF Working, OnTargets, Targets, Owned
<1> HIDE DEF j
<1>7. lock' = lock
  BY DEF Distribute, Deactivate, Activate, MigrateData, SetCoordinator, world
<1>8. RunningOK(running')
  <2>1. \A key \in Added(j) : key[1] \in Target
    <3>1. \A mapping \in j.new.service_mappings : ServiceKey(mapping)[1] \in Target
      BY <1>2, <1>6 DEF Refers, ServiceKey
    <3> QED BY <3>1 DEF Added, subtract_service_mapping_array
  <2>2. \A key \in Obsolete(j) : key[1] \in Target
    BY <1>6 DEF Obsolete, ServiceKey
  <2>3. CASE Deactivate(u)
    <3>1. running' \subseteq running
      BY <2>3 DEF Deactivate
    <3> QED BY <1>5, <3>1 DEF RunningOK
  <2>4. CASE Activate(u)
    <3>1. running' \subseteq running \cup Added(j) \cup Obsolete(j)
      BY <2>4 DEF Activate, j
    <3> QED BY <1>5, <2>1, <2>2, <3>1 DEF RunningOK
  <2>5. CASE Distribute(u) \/ MigrateData(u) \/ SetCoordinator(u)
    <3>1. running' = running
      BY <2>5 DEF Distribute, MigrateData, SetCoordinator, world
    <3> QED BY <1>5, <3>1
  <2> QED BY <2>3, <2>4, <2>5
<1>9. GenerationsOK(profile', store')
  <2>1. CASE Distribute(u)
    <3>1. PICK received \in SUBSET Owned(j) :
            store' = [t \in Target |-> IF t \in received THEN store[t] \cup {j.new.profiles[t]} ELSE store[t]]
      BY <2>1, Zenon DEF Distribute, j
    <3>2. profile' = profile
      BY <2>1 DEF Distribute
    <3> QED BY <1>5, <1>6, <3>1, <3>2 DEF GenerationsOK
  <2>2. CASE Deactivate(u) \/ Activate(u) \/ MigrateData(u) \/ SetCoordinator(u)
    <3>1. profile' = profile /\ store' = store
      BY <2>2 DEF Deactivate, Activate, MigrateData, SetCoordinator, world
    <3> QED BY <1>5, <3>1
  <2> QED BY <2>1, <2>2
<1>10. LinksOK(links')
  <2>1. CASE SetCoordinator(u)
    <3>1. j.file # None
      BY <1>2, <2>1 DEF SetCoordinator, At, Working, j
    <3>2. links' \in {links, Generation(links, j.file)}
      BY <2>1 DEF SetCoordinator, j
    <3>3. IsSeq(links) /\ Progresses(links)
      BY <1>5 DEF LinksOK
    <3>4. PICK g : g = Generation(links, j.file)
      OBVIOUS
    <3>5. IsSeq(g) /\ Progresses(g) /\ Range(g) \subseteq Range(links) \cup {j.file}
      BY <3>3, <3>4, GenerationLast, GenerationProgresses
    <3>6. LinksOK(g)
      BY <1>2, <1>5, <3>1, <3>5 DEF LinksOK
    <3> QED BY <1>5, <3>2, <3>4, <3>6
  <2>2. CASE Distribute(u) \/ Deactivate(u) \/ Activate(u) \/ MigrateData(u)
    <3>1. links' = links
      BY <2>2 DEF Distribute, Deactivate, Activate, MigrateData, world
    <3> QED BY <1>5, <3>1
  <2> QED BY <2>1, <2>2
<1> QED BY <1>4, <1>5, <1>7, <1>8, <1>9, <1>10, TypePartsNext

\* Targets that are visited.
LEMMA VisitTyped ==
  ASSUME DeployInv, TypeInv, NEW u \in User, NEW t \in Target,
         SetTarget(u, t) \/ CollectGarbage(u, t) \/ CaptureTarget(u, t)
  PROVE  TypeInv'
<1> DEFINE j == job[u]
<1>1. Running(u) /\ Head(j.phases) \in {"targets", "collect", "capture"} /\ t \in j.todo
  BY DEF SetTarget, CollectGarbage, CaptureTarget, At
<1>2. Whole(j) /\ Runs(j) /\ Working(j) /\ Captured(j.profiles)
  BY <1>1, JobNow
<1>3. /\ RunningOK(running) /\ GenerationsOK(profile, store) /\ LinksOK(links) /\ LocksOK(lock)
      /\ left \in 0 .. MaxRequests
  BY TypeParts
<1>4. IsSeq(profile[t]) /\ Progresses(profile[t]) /\ \A path \in Range(profile[t]) \cup store[t] : path[2] = t
  BY <1>3 DEF GenerationsOK
<1> HIDE DEF j
<1>5. running' = running /\ lock' = lock /\ links' = links
  BY DEF SetTarget, CollectGarbage, CaptureTarget
<1>6. CommandsOK(job', advice') /\ left' = left
  <2>1. ASSUME NEW ok, Set(u, Visited(j, t, ok))
        PROVE  CommandsOK(job', advice') /\ left' = left
    <3>1. Whole(Visited(j, t, ok))
      BY <1>1, <1>2, VisitedTyped DEF Whole
    <3> QED BY <2>1, <3>1, SetTyped
  <2>2. ASSUME NEW path, path[2] = t, Readable(path), NEW ok,
               Set(u, Visited([j EXCEPT !.profiles = Over(Only(t, profile_manifest_target(path)), @)], t, ok))
        PROVE  CommandsOK(job', advice') /\ left' = left
    <3>1. PICK profiles, k : /\ profiles = Over(Only(t, profile_manifest_target(path)), j.profiles)
                             /\ k = [j EXCEPT !.profiles = profiles]
      OBVIOUS
    <3>2. Captured(profiles)
      <4>1. profile_manifest_target(path).profile = path
        BY DEF profile_manifest_target
      <4>2. /\ DOMAIN profiles = {t} \cup DOMAIN j.profiles
            /\ profiles[t] = profile_manifest_target(path)
            /\ \A s \in DOMAIN j.profiles \ {t} : profiles[s] = j.profiles[s]
        BY <3>1 DEF Over, Only
      <4>3. profiles = [s \in DOMAIN profiles |-> profiles[s]]
        BY <3>1 DEF Over
      <4>4. \A s \in DOMAIN j.profiles : j.profiles[s] = profile_manifest_target(j.profiles[s].profile)
        BY <1>2 DEF Captured, Gathered
      <4>5. \A s \in DOMAIN profiles : profiles[s] = profile_manifest_target(profiles[s].profile)
        BY <4>1, <4>2, <4>4
      <4>6. Gathered(profiles)
        BY <4>3, <4>5 DEF Gathered
      <4>7. Contents(path[1]).version = 2
        BY <2>2 DEF Readable
      <4> QED BY <1>2, <2>2, <4>1, <4>2, <4>6, <4>7 DEF Captured
    <3>3. DOMAIN k = JobFields /\ k.profiles = profiles /\ \A field \in JobFields \ {"profiles"} : k[field] = j[field]
      BY <1>2, <3>1 DEF Whole, JobFields
    <3>4. /\ \A field \in {"command", "calls", "file", "oldFile", "new", "phases", "exit"} : k[field] = j[field]
          /\ k.todo = j.todo /\ k.acquired = j.acquired /\ k.astray = j.astray /\ k.phases = j.phases
      BY <3>3 DEF JobFields
    <3>5. k.acquired \cup k.astray \subseteq Target
      BY <1>2, <3>4 DEF Working
    <3>6. Whole(k) /\ Runs(k)
      BY <1>2, <3>2, <3>3, <3>4, <3>5, SameTyped DEF Whole
    <3>7. Whole(Visited(k, t, ok))
      BY <1>1, <3>4, <3>6, VisitedTyped DEF Whole
    <3> QED BY <2>2, <3>1, <3>7, SetTyped
  <2>3. CASE SetTarget(u, t) \/ CollectGarbage(u, t)
    <3>1. \E ok : Set(u, Visited(j, t, ok))
      BY <2>3 DEF SetTarget, CollectGarbage, j
    <3> QED BY <2>1, <3>1
  <2>4. CASE CaptureTarget(u, t)
    <3>1. profile[t] # <<>> => Last(profile[t])[2] = t
      BY <1>4, InRange
    <3>2. \/ \E ok : Set(u, Visited(j, t, ok))
          \/ /\ profile[t] # <<>> /\ Readable(Last(profile[t]))
             /\ \E ok : Set(u, Visited([j EXCEPT !.profiles = Over(Only(t, profile_manifest_target(Last(profile[t]))), @)],
                                       t, ok))
      <4>1. PICK path : path = Last(profile[t])
        OBVIOUS
      <4>2. PICK k : k = [j EXCEPT !.profiles = Over(Only(t, profile_manifest_target(path)), @)]
        OBVIOUS
      <4>3. \/ \E ok : Set(u, Visited(j, t, ok))
            \/ profile[t] # <<>> /\ Readable(path) /\ \E ok : Set(u, Visited(k, t, ok))
        <5>1. CASE Readable(path)
          BY <2>4, <4>1, <4>2, <5>1 DEF CaptureTarget, j
        <5>2. CASE ~Readable(path)
          BY <2>4, <4>1, <5>2 DEF CaptureTarget, j
        <5> QED BY <5>1, <5>2
      <4> QED BY <4>1, <4>2, <4>3
    <3> QED BY <2>1, <2>2, <3>1, <3>2
  <2> QED BY <2>3, <2>4
<1>7. GenerationsOK(profile', store')
  <2>1. CASE SetTarget(u, t)
    <3>1. PICK path, g : path = j.new.profiles[t] /\ g = Generation(profile[t], path)
      OBVIOUS
    <3>2. path[2] = t
      BY <1>1, <1>2, <2>1, <3>1 DEF SetTarget, At, Working, OnTargets, Owned, j
    <3>3. IsSeq(g) /\ Progresses(g) /\ Range(g) \subseteq Range(profile[t]) \cup {path}
      BY <1>4, <3>1, GenerationLast, GenerationProgresses
    <3>4. store' = store /\ profile' \in {profile, [profile EXCEPT ![t] = g]}
      BY <2>1, <3>1 DEF SetTarget, j
    <3> QED BY <1>3, <1>4, <3>2, <3>3, <3>4 DEF GenerationsOK
  <2>2. CASE CollectGarbage(u, t)
    <3>1. PICK kept : /\ kept = IF Given(j.args, "delete-old") = None \/ profile[t] = <<>> THEN profile[t]
                                ELSE <<Last(profile[t])>>
                      /\ profile' = [profile EXCEPT ![t] = kept]
                      /\ store' = [store EXCEPT ![t] = @ \cap Range(kept)]
      BY <2>2 DEF CollectGarbage, j
    <3>2. IsSeq(kept) /\ Progresses(kept) /\ Range(kept) \subseteq Range(profile[t])
      <4>1. CASE kept = profile[t]
        BY <1>4, <4>1
      <4>2. CASE kept # profile[t]
        <5>1. PICK path : path = Last(profile[t]) /\ kept = <<path>> /\ path \in Range(profile[t])
          BY <1>4, <3>1, <4>2, InRange
        <5>2. <<path>> \in Seq({path}) /\ Range(<<path>>) = {path} /\ Progresses(<<path>>)
          BY DEF Range, Progresses
        <5> QED BY <5>1, <5>2 DEF IsSeq
      <4> QED BY <4>1, <4>2
    <3>3. store'[t] \subseteq store[t] /\ profile'[t] = kept
      BY <1>3, <3>1 DEF GenerationsOK
    <3>4. /\ DOMAIN profile' = Target /\ DOMAIN store' = Target
          /\ \A s \in Target \ {t} : profile'[s] = profile[s] /\ store'[s] = store[s]
      BY <1>3, <3>1 DEF GenerationsOK
    <3> QED BY <1>3, <1>4, <3>2, <3>3, <3>4 DEF GenerationsOK
  <2>3. CASE CaptureTarget(u, t)
    <3>1. profile' = profile /\ store' = store
      BY <2>3 DEF CaptureTarget
    <3> QED BY <1>3, <3>1
  <2> QED BY <2>1, <2>2, <2>3
<1> QED BY <1>3, <1>5, <1>6, <1>7, TypePartsNext


\* A target is locked, or it is not, and a target is released, or it is not.
LEMMA LockingTyped ==
  ASSUME DeployInv, TypeInv, NEW u \in User, NEW t \in Target, LockTarget(u, t) \/ UnlockTarget(u, t)
  PROVE  TypeInv'
<1> DEFINE i == job[u]
<1>1. Running(u) /\ Head(i.phases) \in {"lock", "unlock"}
  BY DEF LockTarget, UnlockTarget, At
<1>2. Whole(i) /\ Runs(i) /\ Working(i) /\ Captured(i.profiles)
  BY <1>1, JobNow
<1>3. /\ RunningOK(running) /\ GenerationsOK(profile, store) /\ LinksOK(links) /\ LocksOK(lock)
      /\ left \in 0 .. MaxRequests
  BY TypeParts
<1> HIDE DEF i
<1>4. running' = running /\ profile' = profile /\ store' = store /\ links' = links
  BY DEF LockTarget, UnlockTarget
<1>5. lock' \in {lock, [lock EXCEPT ![t] = u], [lock EXCEPT ![t] = None]}
  BY DEF LockTarget, UnlockTarget, Release
<1>6. LocksOK(lock')
  BY <1>3, <1>5 DEF LocksOK
<1>7. ASSUME NEW j, DOMAIN j = JobFields,
             \A field \in JobFields \ {"todo", "acquired", "astray", "ok"} : j[field] = i[field],
             j.todo \subseteq i.todo, j.acquired \cup j.astray \subseteq i.acquired \cup i.astray \cup {t}
      PROVE  Whole(j) /\ Runs(j) /\ j.phases = i.phases
  <2>1. /\ \A field \in {"command", "calls", "file", "oldFile", "new", "phases", "exit"} : j[field] = i[field]
        /\ j.profiles = i.profiles /\ j.phases = i.phases
    BY <1>7 DEF JobFields
  <2>2. j.acquired \cup j.astray \subseteq Target
    BY <1>2, <1>7 DEF Working
  <2> QED BY <1>2, <1>7, <2>1, <2>2, SameTyped DEF Whole
<1>8. CommandsOK(job', advice') /\ left' = left
  <2>1. CASE LockTarget(u, t)
    <3>1. PICK k : Asks(u, t, k) /\ Set(u, AfterLocking(k))
      BY <1>2, <2>1, LockOutcomes DEF Whole, i
    <3>2. Whole(k) /\ Runs(k) /\ k.phases = i.phases
      <4>1. k.todo \subseteq i.todo /\ k.acquired \cup k.astray \subseteq i.acquired \cup i.astray \cup {t}
        BY <3>1 DEF Asks, i
      <4> QED BY <1>7, <3>1, <4>1 DEF Asks, i
    <3>3. Whole(AfterLocking(k))
      BY <1>1, <3>2, AfterLockingTyped DEF Whole, i
    <3> QED BY <3>1, <3>3, SetTyped
  <2>2. CASE UnlockTarget(u, t)
    <3>1. PICK j : j = [i EXCEPT !.astray = @ \cup {t}]
      OBVIOUS
    <3>2. (\E ok : Set(u, Visited(i, t, ok))) \/ (\E ok : Set(u, Visited(j, t, ok)))
      BY <2>2, <3>1 DEF UnlockTarget, i
    <3>3. /\ DOMAIN j = JobFields /\ j.astray = i.astray \cup {t}
          /\ \A field \in JobFields \ {"astray"} : j[field] = i[field]
      BY <1>2, <3>1 DEF Whole, JobFields
    <3>4. Whole(j) /\ Runs(j) /\ j.phases = i.phases
      <4>1. j.todo \subseteq i.todo /\ j.acquired \cup j.astray \subseteq i.acquired \cup i.astray \cup {t}
        BY <3>3 DEF JobFields
      <4> QED BY <1>7, <3>3, <4>1
    <3>5. Head(i.phases) # "convert"
      BY <1>1 DEF i
    <3>6. \A ok : Whole(Visited(i, t, ok)) /\ Whole(Visited(j, t, ok))
      BY <1>2, <3>4, <3>5, VisitedTyped DEF Whole
    <3> QED BY <3>2, <3>6, SetTyped
  <2> QED BY <2>1, <2>2
<1> QED BY <1>3, <1>4, <1>6, <1>8, TypePartsNext

LEMMA NobodyTyped ==
  ASSUME DeployInv, TypeInv, NEW u \in User, VisitNobody(u)
  PROVE  TypeInv'
<1>1. /\ Running(u) /\ Head(job[u].phases) # "convert" /\ Set(u, EndVisits(job[u]))
      /\ running' = running /\ profile' = profile /\ store' = store /\ links' = links /\ lock' = lock
  BY DEF VisitNobody, world
<1>2. Whole(EndVisits(job[u]))
  BY <1>1, JobNow, EndVisitsTyped DEF Whole
<1>3. CommandsOK(job', advice') /\ left' = left
  BY <1>1, <1>2, SetTyped
<1> QED BY <1>1, <1>3, TypeParts, TypePartsNext

\* A command that does not run calls no more.
LEMMA StoppedTyped ==
  ASSUME NEW j, Whole(j), ~Runs(j)
  PROVE  Whole([j EXCEPT !.calls = <<>>])
<1>1. PICK k : k = [j EXCEPT !.calls = <<>>]
  OBVIOUS
<1>2. DOMAIN k = JobFields /\ k.calls = <<>> /\ \A field \in JobFields \ {"calls"} : k[field] = j[field]
  BY <1>1 DEF Whole, JobFields
<1>3. /\ k.exit = j.exit /\ k.phases = j.phases /\ k.file = j.file /\ k.oldFile = j.oldFile
      /\ k.profiles = j.profiles
  BY <1>2 DEF JobFields
<1> QED BY <1>1, <1>2, <1>3, CallsGoOn DEF Whole, JobType, Runs

LEMMA EndTyped ==
  ASSUME DeployInv, TypeInv, NEW u \in User,
         ConvertManifest(u) \/ CompareManifest(u) \/ Elsewhere(u) \/ Crash(u)
  PROVE  TypeInv'
<1> DEFINE i == job[u]
<1>1. Running(u)
  BY DEF ConvertManifest, CompareManifest, Elsewhere, Crash, At
<1>2. Whole(i) /\ Runs(i) /\ Working(i) /\ i.file # Link /\ (i.file = None \/ FileOK(i.file))
  BY <1>1, JobNow
<1>3. /\ running' = running /\ profile' = profile /\ store' = store /\ links' = links /\ lock' = lock
  BY DEF ConvertManifest, CompareManifest, Elsewhere, Crash, world
<1>4. {"0", "1", "2", "crashed"} \subseteq Exits
  BY DEF Exits
<1> HIDE DEF i
<1>5. PICK j : Set(u, j) /\ Whole(j)
  <2>1. CASE ConvertManifest(u)
    <3>1. PICK status \in {"0", "1"} :
            /\ Set(u, Exit(i, status))
            /\ status = "0" => i.file # None /\ check_old_manifest(Contents(i.file))
                                 /\ Convertible(Contents(i.file), Infrastructure)
      BY <2>1 DEF ConvertManifest, i
    <3>2. status = "0" /\ i.command = "convert_manifest" => PrintedOK(i)
      BY <1>2, <3>1, ConvertedOK DEF Printed, PrintedOK, NamedOK
    <3> QED BY <1>2, <1>4, <3>1, <3>2, ExitTyped DEF Whole
  <2>2. CASE CompareManifest(u) \/ Elsewhere(u)
    <3>1. PICK status \in {"0", "1", "2"} : Set(u, Exit(i, status)) /\ Head(i.phases) # "convert"
      BY <2>2 DEF CompareManifest, Elsewhere, At, i
    <3>2. i.command # "convert_manifest"
      BY <1>2, <3>1 DEF Working
    <3> QED BY <1>2, <1>4, <3>1, <3>2, ExitTyped DEF Whole
  <2>3. CASE Crash(u)
    <3>1. PICK k : k = Exit(i, "crashed")
      OBVIOUS
    <3>2. Whole(k)
      BY <1>2, <1>4, <3>1, ExitTyped DEF Whole
    <3>3. ~Runs(k)
      BY <1>2, <3>1 DEF Exit, Runs, Whole, JobFields
    <3>4. Set(u, [k EXCEPT !.calls = <<>>])
      BY <2>3, <3>1 DEF Crash, i
    <3> QED BY <3>2, <3>3, <3>4, StoppedTyped
  <2> QED BY <2>1, <2>2, <2>3
<1>6. CommandsOK(job', advice') /\ left' = left
  BY <1>5, SetTyped
<1> QED BY <1>3, <1>6, TypeParts, TypePartsNext


-----------------------------------------------------------------------------
(* The requests of users keep the types. *)

\* An infrastructure model that Nix built.
LEMMA BuiltModel ==
  ASSUME NEW file \in DOMAIN Built, Built[file].version = 2
  PROVE  DOMAIN Contents(file).infrastructure \subseteq Target
<1>1. PICK doc, w : doc = Contents(file) /\ w = Manifested(doc)
  OBVIOUS
<1>2. doc.version = 2
  BY <1>1 DEF Contents
<1>3. OnTargets(w)
  BY <1>1, <1>2, BuiltFiles DEF FileOK
<1>4. DOMAIN w.targets = DOMAIN doc.infrastructure
  BY <1>1, <1>2 DEF Manifested, parse_manifest, Manifest, AllParts
<1> QED BY <1>1, <1>3, <1>4 DEF OnTargets

LEMMA RequestTyped ==
  ASSUME TypeInv, NEW u \in User, Request(u)
  PROVE  TypeInv'
<1>1. /\ RunningOK(running) /\ GenerationsOK(profile, store) /\ LinksOK(links) /\ LocksOK(lock)
      /\ left \in 0 .. MaxRequests /\ CommandsOK(job, advice)
  BY TypeParts
<1>2. PICK r, file :
        /\ r \in Requests
        /\ r.file = Rollback => Len(links) > 1
        /\ file = IF r.file = Rollback THEN links[Len(links) - 1] ELSE r.file
        /\ Calls(r) # <<>>
        /\ Begins(u, Open(Head(Calls(r)).command, Head(Calls(r)).args, file, r.env, r.asked, Tail(Calls(r))))
  BY DEF Request
<1>3. NamedOK(file)
  <2>1. CASE r.file = Rollback
    <3>1. IsSeq(links) /\ Len(links) > 1 /\ file = links[Len(links) - 1]
      BY <1>1, <1>2, <2>1 DEF LinksOK
    <3>2. Len(links) \in Nat /\ \A n \in 1 .. Len(links) : links[n] \in Range(links)
      BY <3>1, InRange
    <3>3. \A l \in Nat : l > 1 => l - 1 \in 1 .. l
      OBVIOUS
    <3>4. file \in Range(links)
      BY <3>1, <3>2, <3>3
    <3> QED BY <1>1, <3>4 DEF LinksOK, NamedOK
  <2>2. CASE r.file # Rollback
    BY <1>2, <2>2, RequestsOK, BuiltFiles DEF NamedOK
  <2> QED BY <2>1, <2>2
<1>4. PICK c, rest : c = Head(Calls(r)) /\ rest = Tail(Calls(r))
  OBVIOUS
<1>5. /\ NamedOK(Given(c.args, "old-manifest")) /\ CallsTyped(rest)
      /\ c.command \in {"capture_manifest", "collect_garbage"} => r.file \in DOMAIN Built /\ Built[r.file].version = 2
      /\ rest # <<>> /\ c.command \in {"capture_manifest", "convert_manifest"} =>
           \A option \in {"help", "version"} : Given(c.args, option) = None
  BY <1>1, <1>2, <1>4, ScriptsTyped
<1>6. r.file \in DOMAIN Built => file = r.file
  BY <1>2, BuiltOK
<1>7. c.command \in {"capture_manifest", "collect_garbage"} => DOMAIN Contents(file).infrastructure \subseteq Target
  BY <1>5, <1>6, BuiltModel
<1>8. PICK j : j = Open(c.command, c.args, file, r.env, r.asked, rest)
  OBVIOUS
<1>9. Whole(j)
  BY <1>1, <1>3, <1>5, <1>7, <1>8, OpenTyped
<1>10. Begins(u, j)
  BY <1>2, <1>4, <1>8
<1>11. CommandsOK(job', advice')
  BY <1>1, <1>9, <1>10, EndedTyped, CallsGoOn DEF Begins, CommandsOK, Whole
<1>12. left' \in 0 .. MaxRequests
  <2>1. left > 0 /\ left' = left - 1 /\ MaxRequests \in Nat
    BY <1>10, RequestsOK DEF Request, Begins
  <2> QED BY <1>1, <2>1
<1>13. running' = running /\ lock' = lock /\ profile' = profile /\ store' = store /\ links' = links
  BY <1>10 DEF Begins
<1> QED BY <1>1, <1>11, <1>12, <1>13, TypePartsNext

LEMMA ForgetTyped ==
  ASSUME TypeInv, NEW u \in User, ForgetGenerations(u)
  PROVE  TypeInv'
<1>1. /\ RunningOK(running) /\ GenerationsOK(profile, store) /\ LinksOK(links) /\ LocksOK(lock)
      /\ left \in 0 .. MaxRequests /\ CommandsOK(job, advice)
  BY TypeParts
<1>2. /\ links' = <<>> /\ running' = running /\ lock' = lock /\ profile' = profile /\ store' = store
      /\ job' = job /\ advice' = advice
  BY DEF ForgetGenerations
<1>3. LinksOK(<<>>)
  <2>1. <<>> \in Seq({}) /\ Len(<<>>) = 0 /\ DOMAIN <<>> = {}
    OBVIOUS
  <2> QED BY <2>1 DEF LinksOK, IsSeq, Progresses, Range
<1>4. left' \in 0 .. MaxRequests
  <2>1. left > 0 /\ left' = left - 1 /\ MaxRequests \in Nat
    BY RequestsOK DEF ForgetGenerations
  <2> QED BY <1>1, <2>1
<1> QED BY <1>1, <1>2, <1>3, <1>4, TypePartsNext

LEMMA FollowAdviceTyped ==
  ASSUME TypeInv, NEW u \in User, FollowAdvice(u)
  PROVE  TypeInv'
<1>1. /\ RunningOK(running) /\ GenerationsOK(profile, store) /\ LinksOK(links) /\ LocksOK(lock)
      /\ left \in 0 .. MaxRequests /\ CommandsOK(job, advice)
  BY TypeParts
<1>2. PICK a : a = Head(advice[u])
  OBVIOUS
<1>3. CallOK(a) /\ NamedOK(a.file) /\ AdviceTyped(Tail(advice[u]))
  BY <1>1, <1>2, CallsGoOn DEF FollowAdvice, CommandsOK
<1>4. PICK j : j = Open(a.command, a.args, a.file, job[u].env, a.args, <<>>)
  OBVIOUS
<1>5. Whole(j)
  <2>1. /\ CallsTyped(<<>>) /\ NamedOK(Given(a.args, "old-manifest"))
        /\ a.command \notin {"capture_manifest", "collect_garbage", "convert_manifest"}
    BY <1>3, CallsGoOn DEF CallOK
  <2> QED BY <1>1, <1>3, <1>4, <2>1, OpenTyped
<1>6. job' = [job EXCEPT ![u] = Ended(j)] /\ advice' = [advice EXCEPT ![u] = Tail(@)]
  BY <1>2, <1>4 DEF FollowAdvice
<1>7. CommandsOK(job', advice')
  BY <1>1, <1>3, <1>5, <1>6, EndedTyped DEF CommandsOK, Whole
<1>8. left' \in 0 .. MaxRequests
  <2>1. left > 0 /\ left' = left - 1 /\ MaxRequests \in Nat
    BY RequestsOK DEF FollowAdvice
  <2> QED BY <1>1, <2>1
<1>9. running' = running /\ lock' = lock /\ profile' = profile /\ store' = store /\ links' = links
  BY DEF FollowAdvice, world
<1> QED BY <1>1, <1>7, <1>8, <1>9, TypePartsNext

LEMMA NextCallTyped ==
  ASSUME DeployInv, TypeInv, NEW u \in User, NextCall(u)
  PROVE  TypeInv'
<1> DEFINE i == job[u]
<1>1. i.calls # <<>> /\ ~Runs(i) /\ LinksOK(links)
  BY DEF NextCall, Running, Runs, TypeInv
<1>2. Whole(i)
  BY <1>1 DEF DeployInv, UserOK, Formed, TypeInv, Whole
<1>3. CallsTyped(i.calls) /\ (i.file = None \/ FileOK(i.file)) /\ (i.exit = "0" => NamedOK(Printed(i)))
  BY <1>1, <1>2 DEF Whole, JobType, PrintedOK
<1>4. PICK c, rest : c = Head(i.calls) /\ rest = Tail(i.calls)
  OBVIOUS
<1>5. CallOK(c) /\ CallsTyped(rest)
  BY <1>1, <1>3, <1>4, CallsGoOn
<1>6. PICK j : Set(u, j) /\ Whole(j)
  <2>1. CASE GoesOn(i)
    <3>1. PICK j : j = Open(c.command, c.args, Printed(i), i.env, i.asked, rest)
      OBVIOUS
    <3>2. NamedOK(Printed(i))
      <4>1. CASE i.command = "compare_manifest"
        <5>1. Printed(i) = i.file
          BY <4>1 DEF Printed
        <5> QED BY <1>3, <5>1 DEF NamedOK
      <4>2. CASE i.command # "compare_manifest"
        BY <1>3, <2>1, <4>2 DEF GoesOn
      <4> QED BY <4>1, <4>2
    <3>3. Whole(j)
      BY <1>1, <1>5, <3>1, <3>2, OpenTyped DEF CallOK
    <3>4. Set(u, j)
      BY <1>4, <2>1, <3>1 DEF NextCall
    <3> QED BY <3>3, <3>4
  <2>2. CASE ~GoesOn(i)
    <3>1. Set(u, [i EXCEPT !.calls = <<>>])
      BY <2>2 DEF NextCall
    <3> QED BY <1>1, <1>2, <3>1, StoppedTyped
  <2> QED BY <2>1, <2>2
<1>7. CommandsOK(job', advice') /\ left' = left
  BY <1>6, SetTyped
<1>8. running' = running /\ lock' = lock /\ profile' = profile /\ store' = store /\ links' = links
  BY DEF NextCall, world
<1> QED BY <1>7, <1>8, TypeParts, TypePartsNext

-----------------------------------------------------------------------------

\* What was deployed before is on machines that are there.
LEMMA InitTyped == Init => TypeInv
<1> SUFFICES ASSUME Init PROVE TypeInv
  OBVIOUS
<1>1. PICK file \in InitialFiles :
        LET deployed == IF file = None THEN EmptyManifest ELSE Manifested(Built[file])
            On(t) == t \in DOMAIN deployed.profiles
        IN  /\ running = Keys(deployed)
            /\ profile = [t \in Target |-> IF On(t) THEN <<deployed.profiles[t]>> ELSE <<>>]
            /\ store = [t \in Target |-> IF On(t) THEN {deployed.profiles[t]} ELSE {}]
            /\ links = IF file = None THEN <<>> ELSE <<file>>
  BY Zenon DEF Init
<1>2. PICK d : d = IF file = None THEN EmptyManifest ELSE Manifested(Built[file])
  OBVIOUS
<1>3. /\ running = Keys(d)
      /\ profile = [t \in Target |-> IF t \in DOMAIN d.profiles THEN <<d.profiles[t]>> ELSE <<>>]
      /\ store = [t \in Target |-> IF t \in DOMAIN d.profiles THEN {d.profiles[t]} ELSE {}]
      /\ links = IF file = None THEN <<>> ELSE <<file>>
  BY <1>1, <1>2, Zenon
<1>4. OnTargets(d) /\ \A mapping \in d.service_mappings : mapping.target \in DOMAIN d.targets
  <2>1. CASE file = None
    <3>1. d = EmptyManifest
      BY <1>2, <2>1
    <3>2. DOMAIN d.targets = {} /\ DOMAIN d.profiles = {} /\ d.service_mappings = {}
      BY <3>1 DEF EmptyManifest, Manifest, NoTable
    <3> QED BY <3>2 DEF OnTargets
  <2>2. CASE file # None
    <3>1. OnTargets(d) /\ check_manifest(d)
      BY <1>2, <2>2, BuiltOK
    <3> QED BY <3>1 DEF check_manifest, check_mapping_references
  <2> QED BY <2>1, <2>2
<1>5. RunningOK(running)
  BY <1>3, <1>4 DEF RunningOK, Keys, ServiceKey, OnTargets
<1>6. IsSeq(<<>>) /\ Progresses(<<>>) /\ Range(<<>>) = {}
  <2>1. <<>> \in Seq({}) /\ Len(<<>>) = 0 /\ DOMAIN <<>> = {}
    OBVIOUS
  <2>2. 1 .. 0 - 1 = {}
    OBVIOUS
  <2> QED BY <2>1, <2>2 DEF IsSeq, Progresses, Range
<1>7. ASSUME NEW x
      PROVE  IsSeq(<<x>>) /\ Progresses(<<x>>) /\ Range(<<x>>) = {x}
  <2>1. <<x>> \in Seq({x}) /\ Len(<<x>>) = 1
    OBVIOUS
  <2>2. Range(<<x>>) = {x}
    BY DEF Range
  <2> QED BY <2>1, <2>2 DEF IsSeq, Progresses
<1>8. GenerationsOK(profile, store)
  <2>1. ASSUME NEW t \in Target
        PROVE  /\ IsSeq(profile[t]) /\ Progresses(profile[t])
               /\ \A path \in Range(profile[t]) \cup store[t] : path[2] = t
    <3>1. CASE t \in DOMAIN d.profiles
      <4>1. PICK path : path = d.profiles[t] /\ profile[t] = <<path>> /\ store[t] = {path}
        BY <1>3, <3>1
      <4>2. path[2] = t
        BY <1>4, <3>1, <4>1 DEF OnTargets
      <4> QED BY <1>7, <4>1, <4>2
    <3>2. CASE t \notin DOMAIN d.profiles
      <4>1. profile[t] = <<>> /\ store[t] = {}
        BY <1>3, <3>2
      <4> QED BY <1>6, <4>1
    <3> QED BY <3>1, <3>2
  <2>2. DOMAIN profile = Target /\ DOMAIN store = Target
    BY <1>3
  <2> QED BY <2>1, <2>2 DEF GenerationsOK
<1>9. LinksOK(links)
  <2>1. CASE file = None
    BY <1>3, <1>6, <2>1 DEF LinksOK
  <2>2. CASE file # None
    <3>1. file \in DOMAIN Built /\ links = <<file>>
      BY <1>3, <2>2, BuiltOK
    <3> QED BY <1>7, <3>1, BuiltFiles DEF LinksOK
  <2> QED BY <2>1, <2>2
<1>10. /\ lock = [t \in Target |-> None] /\ job = [u \in User |-> NoJob] /\ advice = [u \in User |-> <<>>]
       /\ left = MaxRequests
  BY DEF Init
<1>11. JobType(NoJob)
  <2>1. NoJob.exit = "0" /\ NoJob.phases = <<>> /\ "file" \notin DOMAIN NoJob
    BY DEF NoJob
  <2>2. <<>> \in Seq(Phase) /\ "file" \in JobFields /\ "0" \in Exits
    BY DEF JobFields, Exits
  <2> QED BY <2>1, <2>2 DEF JobType
<1>12. CommandsOK(job, advice)
  BY <1>10, <1>11, CallsGoOn DEF CommandsOK
<1>13. LocksOK(lock) /\ left \in 0 .. MaxRequests
  <2>1. MaxRequests \in Nat
    BY RequestsOK
  <2> QED BY <1>10, <2>1 DEF LocksOK
<1> QED BY <1>5, <1>8, <1>9, <1>12, <1>13, TypeParts

LEMMA NextTyped == DeployInv /\ TypeInv /\ [Next]_vars => TypeInv'
<1> SUFFICES ASSUME DeployInv, TypeInv, [Next]_vars PROVE TypeInv'
  OBVIOUS
<1>1. CASE UNCHANGED vars
  BY <1>1, TypeParts, TypePartsNext DEF vars
<1>2. ASSUME NEW u \in User, Step(u)
      PROVE  TypeInv'
  <2>1. CASE Request(u) \/ ForgetGenerations(u) \/ FollowAdvice(u) \/ NextCall(u)
    BY <2>1, RequestTyped, ForgetTyped, FollowAdviceTyped, NextCallTyped
  <2>2. CASE Distribute(u) \/ Deactivate(u) \/ Activate(u) \/ MigrateData(u) \/ SetCoordinator(u)
    BY <2>2, WorkTyped
  <2>3. CASE ConvertManifest(u) \/ CompareManifest(u) \/ Elsewhere(u) \/ Crash(u)
    BY <2>3, EndTyped
  <2>4. CASE VisitNobody(u)
    BY <2>4, NobodyTyped
  <2>5. ASSUME NEW t \in Target,
               \/ LockTarget(u, t) \/ UnlockTarget(u, t) \/ SetTarget(u, t) \/ CollectGarbage(u, t)
               \/ CaptureTarget(u, t)
        PROVE  TypeInv'
    BY <2>5, LockingTyped, VisitTyped
  <2> QED BY <1>2, <2>1, <2>2, <2>3, <2>4, <2>5 DEF Step
<1>3. CASE Late
  <2>1. /\ running' = running /\ profile' = profile /\ store' = store /\ links' = links
        /\ job' = job /\ advice' = advice /\ left' = left
    BY <1>3, LateChanges
  <2>2. LocksOK(lock')
    <3>1. LocksOK(lock)
      BY TypeParts
    <3>2. ASSUME NEW u \in User, NEW t \in Target, lock' = [lock EXCEPT ![t] = u]
          PROVE  LocksOK(lock')
      BY <3>1, <3>2 DEF LocksOK
    <3>3. ASSUME NEW t \in Target, Release(t, {})
          PROVE  LocksOK(lock')
      BY <3>1, <3>3 DEF LocksOK, Release
    <3>4. lock' = lock \/ (\E u \in User, t \in Target : lock' = [lock EXCEPT ![t] = u])
          \/ \E t \in Target : Release(t, {})
      BY <1>3, LateChanges
    <3> QED BY <3>1, <3>2, <3>3, <3>4
  <2> QED BY <2>1, <2>2, TypeParts, TypePartsNext
<1> QED BY <1>1, <1>2, <1>3 DEF Next

\* Requests are under way for users, to targets.
LateType == late \subseteq {"lock", "unlock"} \X User \X Target

LEMMA NextLate == DeployInv /\ TypeInv /\ LateType /\ [Next]_vars => LateType'
<1> SUFFICES ASSUME DeployInv, TypeInv, LateType, [Next]_vars PROVE LateType'
  OBVIOUS
<1>1. ASSUME NEW u \in User, Crash(u)
      PROVE  LateType'
  <2>1. PICK asked \in SUBSET {t \in job[u].todo : At(u, "lock") \/ At(u, "unlock")} :
          late' = late \cup {<<Head(job[u].phases), u, t>> : t \in asked}
    BY <1>1 DEF Crash
  <2>2. job[u].todo \subseteq Target
    BY <1>1, JobNow DEF Crash, Working
  <2>3. asked # {} => Head(job[u].phases) \in {"lock", "unlock"}
    BY <2>1 DEF At
  <2> QED BY <2>1, <2>2, <2>3 DEF LateType
<1>2. ASSUME NEW u \in User, NEW t \in Target, LockTarget(u, t) \/ UnlockTarget(u, t)
      PROVE  LateType'
  <2>1. late' \in {late, late \cup {<<"lock", u, t>>}, late \cup {<<"unlock", u, t>>}}
    BY <1>2 DEF LockTarget, UnlockTarget
  <2> QED BY <2>1 DEF LateType
<1>3. ASSUME late' \subseteq late
      PROVE  LateType'
  BY <1>3 DEF LateType
<1>4. ASSUME NEW u \in User, Step(u)
      PROVE  late' = late \/ Crash(u) \/ \E t \in Target : LockTarget(u, t) \/ UnlockTarget(u, t)
  BY <1>4, WhoAsks
<1> QED BY <1>1, <1>2, <1>3, <1>4, LateChanges DEF Next, vars

\* nix-env --set, lock(), unlock(), deploy(): whatever users ask for, and whatever
\* fails, no generation of a profile is like the one before it, a machine is only
\* given profiles of its own, the coordinator's profile never refers to itself or
\* to nothing, and commands visit, lock and leave locked only machines there are.
THEOREM TypeCorrect == Spec => []TypeOK
<1>1. DeployInv /\ TypeInv /\ LateType => TypeOK
  <2> SUFFICES ASSUME DeployInv, TypeInv, LateType PROVE TypeOK
    OBVIOUS
  <2>1. None \notin Range(links) /\ Link \notin Range(links) /\ Progresses(links)
    BY DEF TypeInv, LinksOK
  <2>2. ASSUME NEW u \in User
        PROVE  /\ Range(job[u].phases) \subseteq Phase
               /\ job[u].exit \in {"none", "0", "1", "2", "crashed"}
               /\ Running(u) => job[u].todo \cup job[u].acquired \cup job[u].astray \subseteq Target
    <3>1. job[u].exit \in Exits /\ job[u].phases \in Seq(Phase)
      BY DEF TypeInv, JobType
    <3>2. \A p \in Seq(Phase) : Range(p) \subseteq Phase
      BY DEF Range
    <3>3. Running(u) => Working(job[u])
      BY JobNow
    <3> QED BY <3>1, <3>2, <3>3 DEF Exits, Working
  <2> QED BY <2>1, <2>2 DEF TypeInv, TypeOK, LateType
<1>2. Init => TypeInv /\ LateType
  BY InitTyped DEF Init, LateType
<1>3. DeployInv /\ TypeInv /\ LateType /\ [Next]_vars => TypeInv' /\ LateType'
  BY NextTyped, NextLate
<1> QED BY <1>1, <1>2, <1>3, DeployInvariance, PTL DEF Spec

-----------------------------------------------------------------------------
(* What is printed describes what was deployed. *)

\* A command that printed for the script that goes on.
LEMMA PrintedNow ==
  ASSUME DeployInv, TypeInv, NEW u \in User, NEW command, GoingOn(u, command)
  PROVE  Captured(job[u].profiles) /\ PrintedOK(job[u]) /\ (job[u].file = None \/ FileOK(job[u].file))
<1>1. job[u].calls # <<>> /\ job[u].exit = "0"
  BY DEF GoingOn
<1>2. DOMAIN job[u] = JobFields /\ JobType(job[u])
  BY <1>1 DEF DeployInv, UserOK, Formed, TypeInv
<1> QED BY <1>1, <1>2 DEF JobType

\* The coordinator's profile is a file that is read.
LEMMA LastDescribed ==
  ASSUME TypeInv, links # <<>>, NEW file, file = Last(links)
  PROVE  FileOK(file) /\ Described(file) = Manifested(Contents(file))
<1>1. FileOK(file) /\ file \notin {None, Link}
  BY InRange DEF TypeInv, LinksOK
<1>2. Resolve(file) = file
  BY <1>1 DEF Resolve
<1>3. create_manifest(file, AllParts) = parse_manifest(Contents(file), AllParts, Missing, Missing, "localhost")
  BY <1>1, <1>2 DEF create_manifest
<1> QED BY <1>1, <1>3 DEF Described, Manifested

\* The manifest that is captured from the profiles that were deployed last.
LEMMA LastCaptured ==
  ASSUME DeployInv, TypeInv, NEW u \in User, GoingOn(u, "capture_manifest"), CapturedLast(job[u]),
         OnlyMapped(Described(Last(links)))
  PROVE  compare_manifests(Reread(job[u]), Described(Last(links)))
<1>1. PICK profiles, targets, m : profiles = job[u].profiles /\ targets = job[u].new.targets /\ m = Described(Last(links))
  OBVIOUS
<1>2. Gathered(profiles) /\ \A t \in DOMAIN profiles : Contents(profiles[t].profile[1]).version = 2
  BY <1>1, PrintedNow DEF Captured
<1>3. links # <<>> /\ m.targets = targets /\ m.profiles = [t \in DOMAIN profiles |-> profiles[t].profile]
  BY <1>1 DEF CapturedLast
<1>4. PICK doc : AsCaptured(doc) /\ m = Manifested(doc)
  BY <1>1, <1>3, LastDescribed DEF FileOK
<1>5. \A t \in DOMAIN m.profiles : Contents(m.profiles[t][1]).version = 2
  BY <1>2, <1>3
<1>6. SameAs(Again(m.profiles), m)
  BY <1>4, <1>5 DEF AsCaptured
<1>7. PICK n : n = parse_manifest(Document(aggregate_manifest(profiles, targets)), AllParts, Missing, Missing, "localhost")
  OBVIOUS
<1>8. n = Reread(job[u])
  BY <1>1, <1>7 DEF Reread, Printed, GoingOn
<1>9. /\ n.profiles = [t \in DOMAIN profiles |-> profiles[t].profile]
      /\ n.targets = [name \in DOMAIN targets |-> parse_target(targets[name])]
      /\ Alike(Again(n.profiles), n)
  BY <1>2, <1>7, CapturedReread
<1>10. n.profiles = m.profiles
  BY <1>3, <1>9
<1>11. SameAs(n, m)
  <2>1. PICK again : again = Again(m.profiles)
    OBVIOUS
  <2>2. SameAs(again, m) /\ Alike(again, n)
    BY <1>6, <1>9, <1>10, <2>1
  <2> QED BY <2>2 DEF Alike, SameAs
<1>12. compare_tables(n.targets, m.targets, compare_targets)
  <2>1. \A name \in DOMAIN targets : parse_target(targets[name]) = targets[name]
    BY <1>3, <1>4, TargetsParsed
  <2>2. PICK again : again = n.targets
    OBVIOUS
  <2>3. again = [name \in DOMAIN targets |-> parse_target(targets[name])]
    BY <1>9, <2>2
  <2>4. compare_tables(again, targets, compare_targets)
    BY <2>1, <2>3, TargetsReread
  <2> QED BY <1>3, <2>2, <2>4
<1>13. OnlyMapped(m)
  BY <1>1
<1> QED BY <1>1, <1>8, <1>10, <1>11, <1>12, <1>13, ComparedWithLast

\* The manifest that the last one, an old one, was converted to.
LEMMA LastConverted ==
  ASSUME DeployInv, TypeInv, NEW u \in User, GoingOn(u, "convert_manifest"), links # <<>>,
         running = Keys(Described(Last(links))), job[u].file = Last(links)
  PROVE  /\ Keys(Reread(job[u])) = running
         /\ check_targets_table(Infrastructure) => check_manifest(Reread(job[u]))
<1>1. PICK file, doc, c, n :
        /\ file = job[u].file /\ doc = Contents(file) /\ c = convert_manifest(doc, Infrastructure)
        /\ n = parse_manifest(Document(c), AllParts, Missing, Missing, "localhost")
  OBVIOUS
<1>2. check_old_manifest(doc) /\ Convertible(doc, Infrastructure)
  BY <1>1, PrintedNow DEF PrintedOK, GoingOn
<1>3. doc.version = 1
  BY <1>2 DEF check_old_manifest
<1>4. FileOK(file)
  BY <1>1, LastDescribed
<1>5. OldModel(doc)
  <2>1. file \in DOMAIN Built
    BY <1>1, <1>3, <1>4 DEF FileOK
  <2>2. doc \in Range(Built)
    BY <1>1, <2>1 DEF Contents, Range
  <2> QED BY <1>3, <2>2, ModelsOK DEF Written
<1>6. n = Reread(job[u])
  BY <1>1 DEF Reread, Printed, GoingOn
<1>7. running = Keys(c)
  BY <1>1, <1>3 DEF Described
<1>8. Keys(n) = Keys(c) /\ (check_targets_table(Infrastructure) => check_manifest(n))
  BY <1>1, <1>2, <1>5, ConvertedWell
<1> QED BY <1>6, <1>7, <1>8

\* capture_manifest() and convert_manifest() describe the system: the manifest
\* that is captured from the profiles that were deployed last is the one that was
\* deployed last, unless that has services that are on no machine; the one that
\* an old manifest is converted to names the services that are active, and passes
\* the checks that a deployment makes if the infrastructure model does.
THEOREM SystemIsDescribed == Spec => DescribesSystem
<1>1. Init => TypeInv
  BY InitTyped
<1>2. DeployInv /\ TypeInv /\ [Next]_vars => TypeInv'
  BY NextTyped
<1> DEFINE Describes ==
             \A u \in User :
               LET last == Described(Last(links))
               IN  /\ (GoingOn(u, "capture_manifest") /\ CapturedLast(job[u]) /\ OnlyMapped(last)) =>
                         compare_manifests(Reread(job[u]), last)
                   /\ (/\ GoingOn(u, "convert_manifest") /\ links # <<>>
                       /\ running = Keys(last) /\ job[u].file = Last(links)) =>
                         /\ Keys(Reread(job[u])) = running
                         /\ check_targets_table(Infrastructure) => check_manifest(Reread(job[u]))
<1>3. DeployInv /\ TypeInv /\ [Next]_vars => [Describes]_vars
  BY LastCaptured, LastConverted
<1>4. QED
  BY <1>1, <1>2, <1>3, DeployInvariance, PTL DEF Spec, DescribesSystem

-----------------------------------------------------------------------------
(* What options are in effect. *)

\* The options that an argument list gives, whichever way they are spelled.
Names(spellings) == {Option(spelling) : spelling \in spellings}

\* The options that do not have to arrive.
Excepted(command, option) ==
    \/ option \in {"target-property", "old-manifest"}
    \/ command = "convert_manifest" /\ option = "coordinator-profile-path"

\* What reaches a command: the options that the user asked for and it knows.
Arrives(command, args, asked) ==
    \A option \in Names(DOMAIN asked) \cap Names(Commands[command].options) :
      ~Excepted(command, option) => Given(args, option) = Given(asked, option)

LEMMA OptionIs ==
  /\ Option("h") = "help" /\ Option("v") = "version" /\ Option("m") = "max-concurrent-transfers"
  /\ Option("p") = "profile" /\ Option("o") = "old-manifest" /\ Option("u") = "unlock"
  /\ Option("d") = "delete-old" /\ Option("i") = "infrastructure"
  /\ \A spelling : spelling \notin {"h", "v", "m", "p", "o", "C", "c", "u", "f", "d", "S", "t", "i"} =>
       Option(spelling) = spelling
<1>1. DOMAIN Letters = {"h", "v", "m", "p", "o", "C", "c", "u", "f", "d", "S", "t", "i"}
  BY DEF Letters
<1>2. /\ Letters["h"] = "help" /\ Letters["v"] = "version" /\ Letters["m"] = "max-concurrent-transfers"
      /\ Letters["p"] = "profile" /\ Letters["o"] = "old-manifest" /\ Letters["u"] = "unlock"
      /\ Letters["d"] = "delete-old" /\ Letters["i"] = "infrastructure"
  BY DEF Letters
<1> QED BY <1>1, <1>2 DEF Option

LEMMA GivenValue ==
  ASSUME NEW args, Valued(args), NEW option, option # "old-manifest"
  PROVE  /\ option \in Names(DOMAIN args) => Given(args, option) # None
         /\ option = "delete-state" => Given(args, option) \in {None, "yes"}
<1>1. PICK spellings : spellings = {spelling \in DOMAIN args : Option(spelling) = option}
  OBVIOUS
<1>2. CASE spellings = {}
  BY <1>1, <1>2 DEF Given, Names
<1>3. CASE spellings # {}
  <2>1. PICK one \in spellings : one = CHOOSE spelling \in spellings : TRUE
    BY <1>3
  <2>2. Given(args, option) = args[one]
    BY <1>1, <1>3, <2>1 DEF Given
  <2> QED BY <1>1, <2>1, <2>2 DEF Valued
<1> QED BY <1>2, <1>3

\* Of values in order of preference one that is given is taken.
LEMMA FirstIsGiven ==
  /\ \A a, b, c : a # None => FirstGiven(<<a, b, c>>) = a
  /\ \A a, b, c : c # None => FirstGiven(<<a, b, c>>) # None
<1>1. ASSUME NEW a, NEW b, NEW c, a # None
      PROVE  FirstGiven(<<a, b, c>>) = a
  <2>1. PICK s : s = <<a, b, c>>
    OBVIOUS
  <2>2. DOMAIN s = 1 .. 3 /\ s[1] = a
    BY <2>1
  <2>3. 1 .. 1 - 1 = {}
    OBVIOUS
  <2>4. ASSUME NEW n \in DOMAIN s, \A m \in 1 .. n - 1 : s[m] = None
        PROVE  n = 1
    <3>1. n = 1 \/ 1 \in 1 .. n - 1
      BY <2>2
    <3> QED BY <1>1, <2>2, <2>4, <3>1
  <2>5. 1 \in DOMAIN s /\ s[1] # None /\ \A m \in 1 .. 1 - 1 : s[m] = None
    BY <1>1, <2>2, <2>3
  <2>6. (CHOOSE n \in DOMAIN s : s[n] # None /\ \A m \in 1 .. n - 1 : s[m] = None) = 1
    BY <2>4, <2>5
  <2> QED BY <2>1, <2>2, <2>6 DEF FirstGiven
<1>2. ASSUME NEW a, NEW b, NEW c, c # None
      PROVE  FirstGiven(<<a, b, c>>) # None
  <2>1. PICK s : s = <<a, b, c>>
    OBVIOUS
  <2>2. DOMAIN s = {1, 2, 3} /\ s[1] = a /\ s[2] = b /\ s[3] = c
    BY <2>1
  <2>3. 1 .. 1 - 1 = {} /\ 1 .. 2 - 1 = {1} /\ 1 .. 3 - 1 = {1, 2}
    OBVIOUS
  <2>4. \E n \in DOMAIN s : s[n] # None /\ \A m \in 1 .. n - 1 : s[m] = None
    <3>1. CASE a # None
      BY <2>2, <2>3, <3>1
    <3>2. CASE a = None /\ b # None
      BY <2>2, <2>3, <3>2
    <3>3. CASE a = None /\ b = None
      BY <1>2, <2>2, <2>3, <3>3
    <3> QED BY <3>1, <3>2, <3>3
  <2>5. PICK n \in DOMAIN s : /\ n = CHOOSE k \in DOMAIN s : s[k] # None /\ \A m \in 1 .. k - 1 : s[m] = None
                              /\ s[n] # None
    BY <2>4
  <2> QED BY <2>1, <2>5 DEF FirstGiven
<1> QED BY <1>1, <1>2

LEMMA GivenIsInEffect ==
  ASSUME NEW args, NEW env, NEW option, option # "target-property", Given(args, option) # None,
         option = "delete-state" => Given(args, option) = "yes"
  PROVE  InEffect(option, args, env) = Given(args, option)
<1>1. CASE option = "interface"
  BY <1>1, FirstIsGiven DEF InEffect, check_interface_option
<1>2. CASE option = "profile"
  BY <1>2, FirstIsGiven DEF InEffect, check_profile_option
<1>3. CASE option = "delete-state"
  BY <1>3 DEF InEffect
<1>4. CASE option \notin {"interface", "profile", "delete-state"}
  BY <1>4 DEF InEffect
<1> QED BY <1>1, <1>2, <1>3, <1>4

\* An option passed on under one spelling.
LEMMA PassedOn ==
  ASSUME NEW asked, NEW spellings, NEW spelling \in spellings,
         \A other \in spellings : Option(other) = Option(spelling) => other = spelling
  PROVE  Given(Pass(asked, spellings), Option(spelling)) = Given(asked, Option(spelling))
<1>1. PICK f, option : f = Pass(asked, spellings) /\ option = Option(spelling)
  OBVIOUS
<1>2. /\ DOMAIN f = {s \in spellings : Given(asked, Option(s)) # None}
      /\ \A s \in DOMAIN f : f[s] = Given(asked, Option(s))
  BY <1>1 DEF Pass
<1>3. PICK found : found = {s \in DOMAIN f : Option(s) = option}
  OBVIOUS
<1>4. CASE Given(asked, option) = None
  <2>1. found = {}
    BY <1>1, <1>2, <1>3, <1>4
  <2> QED BY <1>1, <1>3, <1>4, <2>1 DEF Given
<1>5. CASE Given(asked, option) # None
  <2>1. found = {spelling}
    BY <1>1, <1>2, <1>3, <1>5
  <2>2. (CHOOSE s \in found : TRUE) = spelling
    BY <2>1
  <2>3. Given(f, option) = f[spelling]
    BY <1>3, <2>1, <2>2 DEF Given
  <2> QED BY <1>1, <1>2, <1>5, <2>3
<1> QED BY <1>4, <1>5

\* Options put before others leave the others as they are.
LEMMA PutOver ==
  ASSUME NEW f, NEW g, NEW option
  PROVE  /\ option \notin Names(DOMAIN g) => Given(Over(f, g), option) = Given(f, option)
         /\ option \notin Names(DOMAIN f) => Given(Over(f, g), option) = Given(g, option)
<1>1. PICK h : h = Over(f, g)
  OBVIOUS
<1>2. /\ DOMAIN h = DOMAIN f \cup DOMAIN g
      /\ \A x \in DOMAIN f : h[x] = f[x]
      /\ \A x \in DOMAIN g \ DOMAIN f : h[x] = g[x]
  BY <1>1 DEF Over
<1>3. ASSUME NEW k, {s \in DOMAIN h : Option(s) = option} = {s \in DOMAIN k : Option(s) = option},
             \A s \in DOMAIN k : Option(s) = option => h[s] = k[s]
      PROVE  Given(h, option) = Given(k, option)
  <2>1. PICK found : found = {s \in DOMAIN k : Option(s) = option}
    OBVIOUS
  <2>2. CASE found = {}
    BY <1>3, <2>1, <2>2 DEF Given
  <2>3. CASE found # {}
    <3>1. PICK one \in found : one = CHOOSE s \in found : TRUE
      BY <2>3
    <3>2. Given(h, option) = h[one] /\ Given(k, option) = k[one]
      BY <1>3, <2>1, <2>3, <3>1 DEF Given
    <3> QED BY <1>3, <2>1, <3>1, <3>2
  <2> QED BY <2>2, <2>3
<1>4. ASSUME option \notin Names(DOMAIN g)
      PROVE  Given(h, option) = Given(f, option)
  <2>1. {s \in DOMAIN h : Option(s) = option} = {s \in DOMAIN f : Option(s) = option}
    BY <1>2, <1>4 DEF Names
  <2> QED BY <1>2, <1>3, <2>1
<1>5. ASSUME option \notin Names(DOMAIN f)
      PROVE  Given(h, option) = Given(g, option)
  <2>1. {s \in DOMAIN h : Option(s) = option} = {s \in DOMAIN g : Option(s) = option}
    BY <1>2, <1>5 DEF Names
  <2>2. \A s \in DOMAIN g : Option(s) = option => h[s] = g[s]
    BY <1>2, <1>5 DEF Names
  <2> QED BY <1>3, <2>1, <2>2
<1> QED BY <1>1, <1>4, <1>5

LEMMA ValuedArgs ==
  /\ Valued(NoTable)
  /\ \A spelling, value : (Option(spelling) = "old-manifest" \/ (value # None /\ (Option(spelling) = "delete-state" => value = "yes"))) =>
       Valued(Only(spelling, value))
  /\ \A f, g : Valued(f) /\ Valued(g) => Valued(Over(f, g))
  /\ \A asked, spellings : Valued(asked) => Valued(Pass(asked, spellings))
<1>1. Valued(NoTable)
  BY DEF Valued, NoTable
<1>2. \A spelling, value : (Option(spelling) = "old-manifest" \/ (value # None /\ (Option(spelling) = "delete-state" => value = "yes"))) =>
        Valued(Only(spelling, value))
  BY DEF Valued, Only
<1>3. ASSUME NEW f, NEW g, Valued(f), Valued(g)
      PROVE  Valued(Over(f, g))
  <2>1. PICK h : h = Over(f, g)
    OBVIOUS
  <2>2. /\ DOMAIN h = DOMAIN f \cup DOMAIN g
        /\ \A x \in DOMAIN f : h[x] = f[x]
        /\ \A x \in DOMAIN g \ DOMAIN f : h[x] = g[x]
    BY <2>1 DEF Over
  <2> QED BY <1>3, <2>1, <2>2 DEF Valued
<1>4. ASSUME NEW asked, NEW spellings, Valued(asked)
      PROVE  Valued(Pass(asked, spellings))
  <2>1. PICK f : f = Pass(asked, spellings)
    OBVIOUS
  <2>2. \A s \in DOMAIN f : Given(asked, Option(s)) # None /\ f[s] = Given(asked, Option(s))
    BY <2>1 DEF Pass
  <2> QED BY <1>4, <2>1, <2>2, GivenValue DEF Valued
<1> QED BY <1>1, <1>2, <1>3, <1>4


\* The options that a script and a command it calls both know: those that it
\* passes on, but for --target-property and one of disnix-convert.
LEMMA ScriptOptions ==
  /\ Names(env_options) \cap Names(Commands["deploy"].options) \subseteq
       {"max-concurrent-transfers", "profile", "coordinator-profile-path", "depth-first", "keep", "no-upgrade",
        "no-migration", "no-lock", "delete-state"}
  /\ Names(delegate_options) \cap Names(Commands["build"].options) \subseteq {"max-concurrent-transfers"}
  /\ Names(reconstruct_options) \cap Names(Commands["capture_manifest"].options) \subseteq
       {"profile", "interface", "target-property", "max-concurrent-transfers"}
  /\ Names(reconstruct_options) \cap Names(Commands["compare_manifest"].options) \subseteq
       {"profile", "coordinator-profile-path"}
  /\ Names(reconstruct_options) \cap Names(Commands["set"].options) \subseteq
       {"profile", "coordinator-profile-path", "no-coordinator-profile"}
  /\ Names(convert_options) \cap Names(Commands["convert_manifest"].options) \subseteq
       {"profile", "interface", "infrastructure", "target-property", "coordinator-profile-path"}
  /\ Names(convert_options) \cap Names(Commands["set"].options) \subseteq
       {"profile", "coordinator-profile-path", "no-coordinator-profile"}
<1>1. \A A, B : Names(A \cup B) = Names(A) \cup Names(B)
  BY DEF Names
<1>2. /\ Names(script_options) = {"interface", "target-property", "show-trace"}
      /\ Names(model_options) = {"services", "infrastructure", "distribution", "packages", "architecture", "extra-params"}
  BY OptionIs DEF Names, script_options, model_options
<1>3. Names(env_options) =
        {"s", "infrastructure", "delete-old", "P", "A", "D", "profile", "max-concurrent-transfers"}
          \cup Names(script_options) \cup Names(model_options)
          \cup {"deployment", "rollback", "undeploy", "switch-to-generation", "list-generations",
                "delete-generations", "delete-all-generations", "deploy-state", "profile",
                "max-concurrent-transfers", "build-on-targets", "coordinator-profile-path", "no-upgrade",
                "no-lock", "no-coordinator-profile", "no-target-profiles", "no-migration", "delete-state",
                "depth-first", "keep"}
  <2>1. Names({"s", "i", "d", "P", "A", "D", "p", "m"}) =
          {"s", "infrastructure", "delete-old", "P", "A", "D", "profile", "max-concurrent-transfers"}
    BY OptionIs DEF Names
  <2>2. Names({"deployment", "rollback", "undeploy", "switch-to-generation", "list-generations",
               "delete-generations", "delete-all-generations", "deploy-state", "profile",
               "max-concurrent-transfers", "build-on-targets", "coordinator-profile-path", "no-upgrade",
               "no-lock", "no-coordinator-profile", "no-target-profiles", "no-migration", "delete-state",
               "depth-first", "keep"}) =
          {"deployment", "rollback", "undeploy", "switch-to-generation", "list-generations",
           "delete-generations", "delete-all-generations", "deploy-state", "profile",
           "max-concurrent-transfers", "build-on-targets", "coordinator-profile-path", "no-upgrade",
           "no-lock", "no-coordinator-profile", "no-target-profiles", "no-migration", "delete-state",
           "depth-first", "keep"}
    BY OptionIs DEF Names
  <2>3. PICK a, b : /\ a = {"s", "i", "d", "P", "A", "D", "p", "m"}
                    /\ b = {"deployment", "rollback", "undeploy", "switch-to-generation", "list-generations",
                             "delete-generations", "delete-all-generations", "deploy-state", "profile",
                             "max-concurrent-transfers", "build-on-targets", "coordinator-profile-path", "no-upgrade",
                             "no-lock", "no-coordinator-profile", "no-target-profiles", "no-migration", "delete-state",
                             "depth-first", "keep"}
    OBVIOUS
  <2>4. env_options = a \cup script_options \cup model_options \cup b
    BY <2>3, Zenon DEF env_options
  <2>5. Names(env_options) = Names(a) \cup Names(script_options) \cup Names(model_options) \cup Names(b)
    BY <2>4 DEF Names
  <2> QED BY <2>1, <2>2, <2>3, <2>5
<1>4. Names(delegate_options) =
        {"s", "infrastructure", "delete-old", "P", "A", "B", "max-concurrent-transfers"}
          \cup Names(script_options) \cup Names(model_options) \cup {"build", "max-concurrent-transfers"}
  <2>1. Names({"s", "i", "d", "P", "A", "B", "m"}) =
          {"s", "infrastructure", "delete-old", "P", "A", "B", "max-concurrent-transfers"}
    BY OptionIs DEF Names
  <2>2. Names({"build", "max-concurrent-transfers"}) = {"build", "max-concurrent-transfers"}
    BY OptionIs DEF Names
  <2>3. PICK a, b : /\ a = {"s", "i", "d", "P", "A", "B", "m"}
                    /\ b = {"build", "max-concurrent-transfers"}
    OBVIOUS
  <2>4. delegate_options = a \cup script_options \cup model_options \cup b
    BY <2>3, Zenon DEF delegate_options
  <2>5. Names(delegate_options) = Names(a) \cup Names(script_options) \cup Names(model_options) \cup Names(b)
    BY <2>4 DEF Names
  <2> QED BY <2>1, <2>2, <2>3, <2>5
<1>5. Names(reconstruct_options) =
        {"profile", "max-concurrent-transfers"} \cup Names(script_options)
          \cup {"deploy-state", "profile", "max-concurrent-transfers", "coordinator-profile-path",
                "no-coordinator-profile"}
  <2>1. Names({"p", "m"}) = {"profile", "max-concurrent-transfers"}
    BY OptionIs DEF Names
  <2>2. Names({"deploy-state", "profile", "max-concurrent-transfers", "coordinator-profile-path",
               "no-coordinator-profile"}) =
          {"deploy-state", "profile", "max-concurrent-transfers", "coordinator-profile-path",
           "no-coordinator-profile"}
    BY OptionIs DEF Names
  <2>3. PICK a, b : /\ a = {"p", "m"}
                    /\ b = {"deploy-state", "profile", "max-concurrent-transfers", "coordinator-profile-path",
                             "no-coordinator-profile"}
    OBVIOUS
  <2>4. reconstruct_options = a \cup script_options \cup b
    BY <2>3, Zenon DEF reconstruct_options
  <2>5. Names(reconstruct_options) = Names(a) \cup Names(script_options) \cup Names(b)
    BY <2>4 DEF Names
  <2> QED BY <2>1, <2>2, <2>3, <2>5
<1>6. Names(convert_options) =
        {"infrastructure", "profile"} \cup Names(script_options)
          \cup {"profile", "coordinator-profile-path", "no-coordinator-profile"}
  <2>1. Names({"i", "p"}) = {"infrastructure", "profile"}
    BY OptionIs DEF Names
  <2>2. Names({"profile", "coordinator-profile-path", "no-coordinator-profile"}) =
          {"profile", "coordinator-profile-path", "no-coordinator-profile"}
    BY OptionIs DEF Names
  <2>3. PICK a, b : /\ a = {"i", "p"}
                    /\ b = {"profile", "coordinator-profile-path", "no-coordinator-profile"}
    OBVIOUS
  <2>4. convert_options = a \cup script_options \cup b
    BY <2>3, Zenon DEF convert_options
  <2>5. Names(convert_options) = Names(a) \cup Names(script_options) \cup Names(b)
    BY <2>4 DEF Names
  <2> QED BY <2>1, <2>2, <2>3, <2>5
<1>7. \A letters, options, required, operands :
        Names(Command(letters, options, required, operands).options) =
          Names(letters) \cup Names(options) \cup {"help", "version"}
  <2>1. Names({"h", "v", "help"}) = {"help", "version"}
    BY OptionIs DEF Names
  <2>2. PICK e : e = {"h", "v", "help"}
    OBVIOUS
  <2>3. ASSUME NEW letters, NEW options, NEW required, NEW operands
        PROVE  Names(Command(letters, options, required, operands).options) =
                 Names(letters) \cup Names(options) \cup {"help", "version"}
    <3>1. Command(letters, options, required, operands).options = letters \cup options \cup e
      BY <2>2, Zenon DEF Command
    <3>2. Names(letters \cup options \cup e) = Names(letters) \cup Names(options) \cup Names(e)
      BY DEF Names
    <3> QED BY <2>1, <2>2, <3>1, <3>2, Zenon
  <2> QED BY <2>3
<1>8. /\ Commands["deploy"] = disnix_deploy /\ Commands["build"] = disnix_build
      /\ Commands["capture_manifest"] = disnix_capture_manifest
      /\ Commands["compare_manifest"] = disnix_compare_manifest
      /\ Commands["set"] = disnix_set /\ Commands["convert_manifest"] = disnix_convert_manifest
  BY DEF Commands
<1>9. /\ Names(Profiles) = {"coordinator-profile-path", "profile"}
      /\ Names(Connection) = {"interface", "target-property"}
      /\ Names(Transfers) = {"transfer-only", "depth-first", "all", "keep", "max-concurrent-transfers"}
  BY OptionIs DEF Names, Profiles, Connection, Transfers
<1>10. Names(env_options) \cap Names(Commands["deploy"].options) \subseteq
         {"max-concurrent-transfers", "profile", "coordinator-profile-path", "depth-first", "keep", "no-upgrade",
          "no-migration", "no-lock", "delete-state"}
  <2>1. Names({"m", "o", "p"}) = {"max-concurrent-transfers", "old-manifest", "profile"}
    BY OptionIs DEF Names
  <2>2. Names({"old-manifest", "no-upgrade", "no-migration", "no-lock", "delete-state", "version"}) =
          {"old-manifest", "no-upgrade", "no-migration", "no-lock", "delete-state", "version"}
    BY OptionIs DEF Names
  <2>3. Names(disnix_deploy.options) =
          {"max-concurrent-transfers", "old-manifest", "profile"}
            \cup {"coordinator-profile-path", "profile"}
            \cup {"transfer-only", "depth-first", "all", "keep", "max-concurrent-transfers"}
            \cup {"old-manifest", "no-upgrade", "no-migration", "no-lock", "delete-state", "version"}
            \cup {"help", "version"}
    <3>1. PICK a, b : /\ a = {"m", "o", "p"}
                      /\ b = {"old-manifest", "no-upgrade", "no-migration", "no-lock", "delete-state", "version"}
      OBVIOUS
    <3>2. disnix_deploy = Command(a, Profiles \cup Transfers \cup b, {}, 0)
      BY <3>1 DEF disnix_deploy
    <3>3. Names(disnix_deploy.options) = Names(a) \cup Names(Profiles \cup Transfers \cup b) \cup {"help", "version"}
      <4>1. Names((Command(a, Profiles \cup Transfers \cup b, {}, 0)).options) = Names(a) \cup Names(Profiles \cup Transfers \cup b) \cup {"help", "version"}
        BY <1>7
      <4> QED BY <3>2, <4>1
    <3>4. Names(Profiles \cup Transfers \cup b) = Names(Profiles) \cup Names(Transfers) \cup Names(b)
      BY DEF Names
    <3> QED BY <1>9, <2>1, <2>2, <3>1, <3>3, <3>4
  <2> QED BY <1>2, <1>3, <1>8, <2>3
<1>11. Names(delegate_options) \cap Names(Commands["build"].options) \subseteq {"max-concurrent-transfers"}
  <2>1. Names({"m"}) = {"max-concurrent-transfers"} /\ Names({"max-concurrent-transfers", "version"}) = {"max-concurrent-transfers", "version"}
    BY OptionIs DEF Names
  <2>2. Names(disnix_build.options) = {"max-concurrent-transfers"} \cup {"max-concurrent-transfers", "version"} \cup {"help", "version"}
    BY <1>7, <2>1 DEF disnix_build
  <2> QED BY <1>2, <1>4, <1>8, <2>2
<1>12. Names(reconstruct_options) \cap Names(Commands["capture_manifest"].options) \subseteq
         {"profile", "interface", "target-property", "max-concurrent-transfers"}
  <2>1. /\ Names({"p", "m"}) = {"profile", "max-concurrent-transfers"}
        /\ Names({"profile", "max-concurrent-transfers", "xml", "version"}) =
             {"profile", "max-concurrent-transfers", "xml", "version"}
    BY OptionIs DEF Names
  <2>2. Names(disnix_capture_manifest.options) =
          {"profile", "max-concurrent-transfers"} \cup {"interface", "target-property"}
            \cup {"profile", "max-concurrent-transfers", "xml", "version"} \cup {"help", "version"}
    <3>1. PICK a, b : /\ a = {"p", "m"}
                      /\ b = {"profile", "max-concurrent-transfers", "xml", "version"}
      OBVIOUS
    <3>2. disnix_capture_manifest = Command(a, Connection \cup b, {}, 1)
      BY <3>1 DEF disnix_capture_manifest
    <3>3. Names(disnix_capture_manifest.options) = Names(a) \cup Names(Connection \cup b) \cup {"help", "version"}
      <4>1. Names((Command(a, Connection \cup b, {}, 1)).options) = Names(a) \cup Names(Connection \cup b) \cup {"help", "version"}
        BY <1>7
      <4> QED BY <3>2, <4>1
    <3>4. Names(Connection \cup b) = Names(Connection) \cup Names(b)
      BY <1>1
    <3> QED BY <1>9, <2>1, <3>1, <3>3, <3>4
  <2> QED BY <1>2, <1>5, <1>8, <2>2
<1>13. Names(reconstruct_options) \cap Names(Commands["compare_manifest"].options) \subseteq
         {"profile", "coordinator-profile-path"}
  <2>1. Names({"o", "p"}) = {"old-manifest", "profile"} /\ Names({"old-manifest"}) = {"old-manifest"}
    BY OptionIs DEF Names
  <2>2. Names(disnix_compare_manifest.options) =
          {"old-manifest", "profile"} \cup {"coordinator-profile-path", "profile"} \cup {"old-manifest"}
            \cup {"help", "version"}
    <3>1. PICK a, b : /\ a = {"o", "p"}
                      /\ b = {"old-manifest"}
      OBVIOUS
    <3>2. disnix_compare_manifest = Command(a, Profiles \cup b, {}, 0)
      BY <3>1 DEF disnix_compare_manifest
    <3>3. Names(disnix_compare_manifest.options) = Names(a) \cup Names(Profiles \cup b) \cup {"help", "version"}
      <4>1. Names((Command(a, Profiles \cup b, {}, 0)).options) = Names(a) \cup Names(Profiles \cup b) \cup {"help", "version"}
        BY <1>7
      <4> QED BY <3>2, <4>1
    <3>4. Names(Profiles \cup b) = Names(Profiles) \cup Names(b)
      BY <1>1
    <3> QED BY <1>9, <2>1, <3>1, <3>3, <3>4
  <2> QED BY <1>2, <1>5, <1>8, <2>2
<1>14. Names(disnix_set.options) =
         {"coordinator-profile-path", "profile", "no-coordinator-profile", "no-target-profiles", "help", "version"}
  <2>1. /\ Names({"p"}) = {"profile"}
        /\ Names({"no-coordinator-profile", "no-target-profiles", "version"}) =
             {"no-coordinator-profile", "no-target-profiles", "version"}
    BY OptionIs DEF Names
  <2>2. Names(disnix_set.options) =
          {"profile"} \cup {"coordinator-profile-path", "profile"}
            \cup {"no-coordinator-profile", "no-target-profiles", "version"} \cup {"help", "version"}
    <3>1. PICK a, b : /\ a = {"p"}
                      /\ b = {"no-coordinator-profile", "no-target-profiles", "version"}
      OBVIOUS
    <3>2. disnix_set = Command(a, Profiles \cup b, {}, 1)
      BY <3>1 DEF disnix_set
    <3>3. Names(disnix_set.options) = Names(a) \cup Names(Profiles \cup b) \cup {"help", "version"}
      <4>1. Names((Command(a, Profiles \cup b, {}, 1)).options) = Names(a) \cup Names(Profiles \cup b) \cup {"help", "version"}
        BY <1>7
      <4> QED BY <3>2, <4>1
    <3> QED BY <1>1, <1>9, <2>1, <3>1, <3>3
  <2> QED BY <2>2
<1>15. Names(disnix_convert_manifest.options) =
         {"profile", "infrastructure", "interface", "target-property", "coordinator-profile-path", "help", "version"}
  <2>1. Names({"p", "i"}) = {"profile", "infrastructure"} /\ Names({"infrastructure"}) = {"infrastructure"}
    BY OptionIs DEF Names
  <2>2. Names(disnix_convert_manifest.options) =
          {"profile", "infrastructure"} \cup {"interface", "target-property"}
            \cup {"coordinator-profile-path", "profile"} \cup {"infrastructure"} \cup {"help", "version"}
    <3>1. PICK a, b : /\ a = {"p", "i"}
                      /\ b = {"infrastructure"}
      OBVIOUS
    <3>2. disnix_convert_manifest = Command(a, Connection \cup Profiles \cup b, b, 0)
      BY <3>1 DEF disnix_convert_manifest
    <3>3. Names(disnix_convert_manifest.options) = Names(a) \cup Names(Connection \cup Profiles \cup b) \cup {"help", "version"}
      <4>1. Names((Command(a, Connection \cup Profiles \cup b, b, 0)).options) = Names(a) \cup Names(Connection \cup Profiles \cup b) \cup {"help", "version"}
        BY <1>7
      <4> QED BY <3>2, <4>1
    <3>4. Names(Connection \cup Profiles \cup b) = Names(Connection) \cup Names(Profiles) \cup Names(b)
      BY DEF Names
    <3> QED BY <1>9, <2>1, <3>1, <3>3, <3>4
  <2> QED BY <2>2
<1>16. Names(reconstruct_options) \cap Names(Commands["set"].options) \subseteq
         {"profile", "coordinator-profile-path", "no-coordinator-profile"}
  BY <1>2, <1>5, <1>8, <1>14
<1>17. Names(convert_options) \cap Names(Commands["convert_manifest"].options) \subseteq
         {"profile", "interface", "infrastructure", "target-property", "coordinator-profile-path"}
  BY <1>2, <1>6, <1>8, <1>15
<1>18. Names(convert_options) \cap Names(Commands["set"].options) \subseteq
         {"profile", "coordinator-profile-path", "no-coordinator-profile"}
  BY <1>2, <1>6, <1>8, <1>14
<1> QED BY <1>10, <1>11, <1>12, <1>13, <1>16, <1>17, <1>18


\* A command line that has what the user asked for, and those of the calls to come.
AskedFor(c, asked) == Valued(c.args) /\ Arrives(c.command, c.args, asked)
CallsAskedFor(calls, asked) == \E S : calls \in Seq(S) /\ \A c \in S : AskedFor(c, asked)

LEMMA CallsToCome ==
  ASSUME NEW asked
  PROVE  /\ CallsAskedFor(<<>>, asked)
         /\ \A a : CallsAskedFor(Tail(<<a>>), asked) /\ Head(<<a>>) = a
         /\ \A a, b : AskedFor(b, asked) => CallsAskedFor(Tail(<<a, b>>), asked) /\ Head(<<a, b>>) = a
         /\ \A a, b, c : AskedFor(b, asked) /\ AskedFor(c, asked) =>
              CallsAskedFor(Tail(<<a, b, c>>), asked) /\ Head(<<a, b, c>>) = a
         /\ \A calls : CallsAskedFor(calls, asked) /\ calls # <<>> =>
              AskedFor(Head(calls), asked) /\ CallsAskedFor(Tail(calls), asked)
<1>1. CallsAskedFor(<<>>, asked)
  <2>1. PICK S : S = {}
    OBVIOUS
  <2>2. <<>> \in Seq(S) /\ \A c \in S : AskedFor(c, asked)
    BY <2>1
  <2> QED BY <2>2 DEF CallsAskedFor
<1>2. ASSUME NEW a
      PROVE  CallsAskedFor(Tail(<<a>>), asked) /\ Head(<<a>>) = a
  <2>1. Tail(<<a>>) = <<>> /\ Head(<<a>>) = a
    OBVIOUS
  <2> QED BY <1>1, <2>1
<1>3. ASSUME NEW a, NEW b, AskedFor(b, asked)
      PROVE  CallsAskedFor(Tail(<<a, b>>), asked) /\ Head(<<a, b>>) = a
  <2>1. PICK S : S = {b}
    OBVIOUS
  <2>2. Tail(<<a, b>>) \in Seq(S) /\ Head(<<a, b>>) = a /\ \A x \in S : AskedFor(x, asked)
    BY <1>3, <2>1
  <2> QED BY <2>2 DEF CallsAskedFor
<1>4. ASSUME NEW a, NEW b, NEW c, AskedFor(b, asked), AskedFor(c, asked)
      PROVE  CallsAskedFor(Tail(<<a, b, c>>), asked) /\ Head(<<a, b, c>>) = a
  <2>1. PICK S : S = {b, c}
    OBVIOUS
  <2>2. Tail(<<a, b, c>>) \in Seq(S) /\ Head(<<a, b, c>>) = a /\ \A x \in S : AskedFor(x, asked)
    BY <1>4, <2>1
  <2> QED BY <2>2 DEF CallsAskedFor
<1>5. ASSUME NEW calls, CallsAskedFor(calls, asked), calls # <<>>
      PROVE  AskedFor(Head(calls), asked) /\ CallsAskedFor(Tail(calls), asked)
  <2>1. PICK S : calls \in Seq(S) /\ \A c \in S : AskedFor(c, asked)
    BY <1>5 DEF CallsAskedFor
  <2>2. Head(calls) \in S /\ Tail(calls) \in Seq(S)
    BY <1>5, <2>1
  <2> QED BY <2>1, <2>2 DEF CallsAskedFor
<1> QED BY <1>1, <1>2, <1>3, <1>4, <1>5

LEMMA PassArrives ==
  ASSUME NEW command, NEW asked, NEW options, DOMAIN asked \subseteq options, NEW spellings,
         \A option \in Names(options) \cap Names(Commands[command].options) :
           Excepted(command, option) \/ \E spelling \in spellings : Option(spelling) = option,
         \A s1, s2 \in spellings : Option(s1) = Option(s2) => s1 = s2
  PROVE  Arrives(command, Pass(asked, spellings), asked)
<1>1. SUFFICES ASSUME NEW option \in Names(DOMAIN asked) \cap Names(Commands[command].options),
                      ~Excepted(command, option)
               PROVE  Given(Pass(asked, spellings), option) = Given(asked, option)
  BY DEF Arrives
<1>2. Names(DOMAIN asked) \subseteq Names(options)
  BY DEF Names
<1>3. PICK spelling \in spellings : Option(spelling) = option
  BY <1>1, <1>2
<1>4. Given(Pass(asked, spellings), Option(spelling)) = Given(asked, Option(spelling))
  BY PassedOn
<1> QED BY <1>3, <1>4

\* What is put before, or after, the options that are passed on.
LEMMA OverArrives ==
  ASSUME NEW command, NEW f, NEW g, NEW asked
  PROVE  /\ Arrives(command, f, asked) /\ Names(DOMAIN g) = {"old-manifest"} => Arrives(command, Over(f, g), asked)
         /\ Arrives(command, g, asked) /\ Names(DOMAIN asked) \cap Names(DOMAIN f) = {} =>
              Arrives(command, Over(f, g), asked)
<1>1. ASSUME Arrives(command, f, asked), Names(DOMAIN g) = {"old-manifest"}
      PROVE  Arrives(command, Over(f, g), asked)
  <2>1. \A option : option # "old-manifest" => Given(Over(f, g), option) = Given(f, option)
    BY <1>1, PutOver
  <2> QED BY <1>1, <2>1 DEF Arrives, Excepted
<1>2. ASSUME Arrives(command, g, asked), Names(DOMAIN asked) \cap Names(DOMAIN f) = {}
      PROVE  Arrives(command, Over(f, g), asked)
  <2>1. \A option \in Names(DOMAIN asked) : Given(Over(f, g), option) = Given(g, option)
    BY <1>2, PutOver
  <2> QED BY <1>2, <2>1 DEF Arrives
<1> QED BY <1>1, <1>2

\* The names that scripts pass options on by.
LEMMA PassedSpellings ==
  /\ \A s1, s2 \in {"m", "profile", "no-lock", "no-upgrade", "delete-state", "no-coordinator-profile",
                    "coordinator-profile-path", "no-target-profiles", "no-migration", "depth-first", "keep"} :
       Option(s1) = Option(s2) => s1 = s2
  /\ \A s1, s2 \in {"profile", "target-property", "interface", "m", "i", "coordinator-profile-path",
                    "no-coordinator-profile"} :
       Option(s1) = Option(s2) => s1 = s2
  /\ Option("m") = "max-concurrent-transfers" /\ Option("i") = "infrastructure"
  /\ \A spelling \in {"profile", "no-lock", "no-upgrade", "delete-state", "no-coordinator-profile",
                      "coordinator-profile-path", "no-target-profiles", "no-migration", "depth-first", "keep",
                      "target-property", "interface"} : Option(spelling) = spelling
<1>1. Option("m") = "max-concurrent-transfers" /\ Option("i") = "infrastructure"
  BY OptionIs
<1>2. \A spelling \in {"profile", "no-lock", "no-upgrade", "delete-state", "no-coordinator-profile",
                       "coordinator-profile-path", "no-target-profiles", "no-migration", "depth-first", "keep",
                       "target-property", "interface"} : Option(spelling) = spelling
  BY OptionIs
<1>3. \A s1, s2 \in {"profile", "no-lock", "no-upgrade", "delete-state", "no-coordinator-profile",
                     "coordinator-profile-path", "no-target-profiles", "no-migration", "depth-first", "keep",
                     "target-property", "interface", "m", "i"} : Option(s1) = Option(s2) => s1 = s2
  BY <1>1, <1>2
<1> QED BY <1>1, <1>2, <1>3


\* What the scripts pass on is what was asked for.
LEMMA ScriptsArrive ==
  ASSUME NEW r \in Requests, Calls(r) # <<>>
  PROVE  /\ Valued(r.asked) /\ AskedFor(Head(Calls(r)), r.asked) /\ CallsAskedFor(Tail(Calls(r)), r.asked)
<1>1. PICK asked : asked = r.asked
  OBVIOUS
<1>2. Valued(asked)
  BY <1>1, RequestsOK
<1>3. \A command, args : Call(command, args).command = command /\ Call(command, args).args = args
  BY DEF Call
<1>4. ASSUME NEW command, NEW options, DOMAIN asked \subseteq options, NEW spellings,
             \A option \in Names(options) \cap Names(Commands[command].options) :
               Excepted(command, option) \/ \E spelling \in spellings : Option(spelling) = option,
             \A s1, s2 \in spellings : Option(s1) = Option(s2) => s1 = s2
      PROVE  /\ Valued(Pass(asked, spellings)) /\ Arrives(command, Pass(asked, spellings), asked)
             /\ AskedFor(Call(command, Pass(asked, spellings)), asked)
  <2>1. PICK passed : passed = Pass(asked, spellings)
    OBVIOUS
  <2>2. Valued(passed)
    BY <1>2, <2>1, ValuedArgs
  <2>3. Arrives(command, passed, asked)
    BY <1>4, <2>1, PassArrives
  <2>4. AskedFor(Call(command, passed), asked)
    BY <1>3, <2>2, <2>3 DEF AskedFor
  <2> QED BY <2>1, <2>2, <2>3, <2>4
<1>5. CASE r.script = "disnix-env"
  <2>1. PICK passing : passing = {"m", "profile", "no-lock", "no-upgrade", "delete-state",
                               "no-coordinator-profile", "coordinator-profile-path",
                               "no-target-profiles", "no-migration", "depth-first", "keep"}
    OBVIOUS
  <2>2. PICK state : state = Only("delete-state", "yes")
    OBVIOUS
  <2>3. PICK given : given = IF check_global_delete_state(r.env) THEN Over(asked, state) ELSE asked
    OBVIOUS
  <2>4. PICK previous : previous = IF links = <<>> THEN None ELSE Last(links)
    OBVIOUS
  <2>5. PICK args : args = IF previous = None THEN Pass(given, passing) ELSE Over(Pass(given, passing), Only("o", previous))
    OBVIOUS
  <2>6. Calls(r) = <<Call("deploy", args)>> /\ DOMAIN asked \subseteq env_options
    BY <1>1, <1>5, <2>1, <2>2, <2>3, <2>4, <2>5 DEF Calls, disnix_env, Script
  <2>7. Valued(state) /\ Names(DOMAIN state) = {"delete-state"} /\ DOMAIN state \subseteq env_options
    <3>1. Option("delete-state") = "delete-state"
      BY OptionIs
    <3>2. None # "yes"
      BY NoneIsNoValue
    <3>3. DOMAIN state = {"delete-state"}
      BY <2>2 DEF Only
    <3>4. Valued(state)
      BY <2>2, <3>2, ValuedArgs
    <3> QED BY <3>1, <3>3, <3>4 DEF Names, env_options
  <2>8. /\ Valued(given) /\ DOMAIN given \subseteq env_options
        /\ \A option \in Names(DOMAIN asked) : option # "old-manifest" => Given(given, option) = Given(asked, option)
    <3>1. CASE given = asked
      BY <1>2, <2>6, <3>1
    <3>2. CASE given = Over(asked, state)
      <4>1. Valued(given) /\ DOMAIN given = DOMAIN asked \cup DOMAIN state
        BY <1>2, <2>7, <3>2, ValuedArgs DEF Over
      <4>2. ASSUME NEW option \in Names(DOMAIN asked), option # "old-manifest"
            PROVE  Given(given, option) = Given(asked, option)
        <5>1. CASE option = "delete-state"
          <6>1. option \in Names(DOMAIN given)
            BY <4>1 DEF Names
          <6>2. Given(given, option) \in {None, "yes"} /\ Given(given, option) # None
            BY <4>1, <4>2, <5>1, <6>1, GivenValue
          <6>3. Given(asked, option) \in {None, "yes"} /\ Given(asked, option) # None
            BY <1>2, <4>2, <5>1, GivenValue
          <6> QED BY <6>2, <6>3
        <5>2. CASE option # "delete-state"
          BY <2>7, <3>2, <5>2, PutOver
        <5> QED BY <5>1, <5>2
      <4> QED BY <2>6, <2>7, <4>1, <4>2
    <3> QED BY <2>3, <3>1, <3>2
  <2>9. Arrives("deploy", Pass(given, passing), given)
    <3>1. \A option \in Names(env_options) \cap Names(Commands["deploy"].options) :
            \E spelling \in passing : Option(spelling) = option
      BY <2>1, ScriptOptions, PassedSpellings
    <3>2. \A s1, s2 \in passing : Option(s1) = Option(s2) => s1 = s2
      BY <2>1, PassedSpellings
    <3> QED BY <2>8, <3>1, <3>2, PassArrives
  <2>10. Arrives("deploy", Pass(given, passing), asked)
    <3>1. Names(DOMAIN asked) \subseteq Names(DOMAIN given)
      BY <2>3 DEF Names, Over
    <3> QED BY <2>8, <2>9, <3>1 DEF Arrives, Excepted
  <2>11. Valued(args) /\ Arrives("deploy", args, asked)
    <3>1. Valued(Pass(given, passing))
      BY <2>8, ValuedArgs
    <3>2. Valued(Only("o", previous)) /\ Names(DOMAIN Only("o", previous)) = {"old-manifest"}
      <4>1. Option("o") = "old-manifest"
        BY OptionIs
      <4>2. DOMAIN Only("o", previous) = {"o"}
        BY DEF Only
      <4> QED BY <4>1, <4>2, ValuedArgs DEF Names
    <3>3. Valued(Over(Pass(given, passing), Only("o", previous)))
      BY <3>1, <3>2, ValuedArgs
    <3>4. Arrives("deploy", Over(Pass(given, passing), Only("o", previous)), asked)
      BY <2>10, <3>2, OverArrives
    <3> QED BY <2>5, <2>10, <3>1, <3>3, <3>4
  <2>12. AskedFor(Call("deploy", args), asked)
    BY <1>3, <2>11 DEF AskedFor
  <2> QED BY <1>1, <1>2, <2>6, <2>12, CallsToCome
<1>6. CASE r.script = "disnix-reconstruct"
  <2>1. PICK passing : passing = {"profile", "coordinator-profile-path", "no-coordinator-profile"}
    OBVIOUS
  <2>2. PICK a, b, c, untouched :
          /\ a = Call("capture_manifest", Pass(asked, {"profile", "target-property", "interface", "m"}))
          /\ b = Call("compare_manifest", Pass(asked, {"profile", "coordinator-profile-path"}))
          /\ c = Call("set", Over(untouched, Pass(asked, passing)))
          /\ untouched = Only("no-target-profiles", "yes")
    OBVIOUS
  <2>3. Calls(r) = <<a, b, c>> /\ DOMAIN asked \subseteq reconstruct_options
    BY <1>1, <1>6, <2>1, <2>2 DEF Calls, disnix_reconstruct, Script
  <2>4. AskedFor(a, asked)
    <3>1. PICK spellings : spellings = {"profile", "target-property", "interface", "m"}
      OBVIOUS
    <3>2. \A option \in Names(reconstruct_options) \cap Names(Commands["capture_manifest"].options) :
            \E spelling \in spellings : Option(spelling) = option
      BY <3>1, ScriptOptions, PassedSpellings
    <3>3. \A s1, s2 \in spellings : Option(s1) = Option(s2) => s1 = s2
      BY <3>1, PassedSpellings
    <3> QED BY <1>4, <2>2, <2>3, <3>1, <3>2, <3>3
  <2>5. AskedFor(b, asked)
    <3>1. PICK spellings : spellings = {"profile", "coordinator-profile-path"}
      OBVIOUS
    <3>2. \A option \in Names(reconstruct_options) \cap Names(Commands["compare_manifest"].options) :
            \E spelling \in spellings : Option(spelling) = option
      BY <3>1, ScriptOptions, PassedSpellings
    <3>3. \A s1, s2 \in spellings : Option(s1) = Option(s2) => s1 = s2
      BY <3>1, PassedSpellings
    <3> QED BY <1>4, <2>2, <2>3, <3>1, <3>2, <3>3
  <2>6. Valued(Pass(asked, passing)) /\ Arrives("set", Pass(asked, passing), asked)
    <3>1. \A option \in Names(reconstruct_options) \cap Names(Commands["set"].options) :
            \E spelling \in passing : Option(spelling) = option
      BY <2>1, ScriptOptions, PassedSpellings
    <3>2. \A s1, s2 \in passing : Option(s1) = Option(s2) => s1 = s2
      BY <2>1, PassedSpellings
    <3> QED BY <1>4, <2>3, <3>1, <3>2
  <2>7. Valued(untouched) /\ Names(DOMAIN untouched) = {"no-target-profiles"}
    <3>1. Option("no-target-profiles") = "no-target-profiles"
      BY OptionIs
    <3>2. DOMAIN untouched = {"no-target-profiles"}
      BY <2>2 DEF Only
    <3> QED BY <2>2, <3>1, <3>2, NoneIsNoValue, ValuedArgs DEF Names
  <2>8. "no-target-profiles" \notin Names(DOMAIN asked)
    <3>1. "no-target-profiles" \in Names(Commands["set"].options)
      <4>1. Commands["set"] = disnix_set
        BY DEF Commands
      <4>2. "no-target-profiles" \in disnix_set.options
        BY DEF disnix_set, Command
      <4> QED BY <4>1, <4>2, OptionIs DEF Names
    <3>2. Names(DOMAIN asked) \subseteq Names(reconstruct_options)
      BY <2>3 DEF Names
    <3> QED BY <3>1, <3>2, ScriptOptions
  <2>9. AskedFor(c, asked)
    <3>1. Valued(Over(untouched, Pass(asked, passing)))
      BY <2>6, <2>7, ValuedArgs
    <3>2. Arrives("set", Over(untouched, Pass(asked, passing)), asked)
      BY <2>6, <2>7, <2>8, OverArrives
    <3> QED BY <1>3, <2>2, <3>1, <3>2 DEF AskedFor
  <2>10. Head(<<a, b, c>>) = a /\ CallsAskedFor(Tail(<<a, b, c>>), asked)
    BY <2>5, <2>9, CallsToCome
  <2> QED BY <1>1, <1>2, <2>3, <2>4, <2>10
<1>7. CASE r.script = "disnix-convert"
  <2>1. PICK a, b : /\ a = Call("convert_manifest", Pass(asked, {"profile", "target-property", "interface", "i"}))
                    /\ b = Call("set", Pass(asked, {"profile", "coordinator-profile-path", "no-coordinator-profile"}))
    OBVIOUS
  <2>2. Calls(r) = <<a, b>> /\ DOMAIN asked \subseteq convert_options
    BY <1>1, <1>7, <2>1 DEF Calls, disnix_convert, Script
  <2>3. AskedFor(a, asked)
    <3>1. PICK passing : passing = {"profile", "target-property", "interface", "i"}
      OBVIOUS
    <3>2. \A option \in Names(convert_options) \cap Names(Commands["convert_manifest"].options) :
            Excepted("convert_manifest", option) \/ \E spelling \in passing : Option(spelling) = option
      BY <3>1, ScriptOptions, PassedSpellings DEF Excepted
    <3>3. \A s1, s2 \in passing : Option(s1) = Option(s2) => s1 = s2
      BY <3>1, PassedSpellings
    <3> QED BY <1>4, <2>1, <2>2, <3>1, <3>2, <3>3
  <2>4. AskedFor(b, asked)
    <3>1. PICK spellings : spellings = {"profile", "coordinator-profile-path", "no-coordinator-profile"}
      OBVIOUS
    <3>2. \A option \in Names(convert_options) \cap Names(Commands["set"].options) :
            \E spelling \in spellings : Option(spelling) = option
      BY <3>1, ScriptOptions, PassedSpellings
    <3>3. \A s1, s2 \in spellings : Option(s1) = Option(s2) => s1 = s2
      BY <3>1, PassedSpellings
    <3> QED BY <1>4, <2>1, <2>2, <3>1, <3>2, <3>3
  <2> QED BY <1>1, <1>2, <2>2, <2>3, <2>4, CallsToCome
<1>8. CASE r.script = "disnix-delegate"
  <2>1. PICK a : a = Call("build", Pass(asked, {"m"}))
    OBVIOUS
  <2>2. Calls(r) = <<a>> /\ DOMAIN asked \subseteq delegate_options
    BY <1>1, <1>8, <2>1 DEF Calls, disnix_delegate, Script
  <2>3. AskedFor(a, asked)
    <3>1. PICK spellings : spellings = {"m"}
      OBVIOUS
    <3>2. \A option \in Names(delegate_options) \cap Names(Commands["build"].options) :
            \E spelling \in spellings : Option(spelling) = option
      BY <3>1, ScriptOptions, PassedSpellings
    <3>3. \A s1, s2 \in spellings : Option(s1) = Option(s2) => s1 = s2
      BY <3>1, PassedSpellings
    <3> QED BY <1>4, <2>1, <2>2, <3>1, <3>2, <3>3
  <2> QED BY <1>1, <1>2, <2>2, <2>3, CallsToCome
<1>9. CASE r.script \notin {"disnix-env", "disnix-reconstruct", "disnix-convert", "disnix-delegate"}
  <2>1. PICK a : a = Call(r.script, asked)
    OBVIOUS
  <2>2. Calls(r) = <<a>>
    BY <1>1, <1>9, <2>1 DEF Calls
  <2>3. AskedFor(a, asked)
    BY <1>2, <1>3, <2>1 DEF AskedFor, Arrives
  <2> QED BY <1>1, <1>2, <2>2, <2>3, CallsToCome
<1> QED BY <1>5, <1>6, <1>7, <1>8, <1>9

\* What a command tells its user to run has values.
LEMMA AdviceValued ==
  ASSUME NEW j, Valued(j.args)
  PROVE  \E S : Advice(j) \in Seq(S) /\ \A a \in S : Valued(a.args)
<1>1. \A value : Valued(Only("o", value))
  BY OptionIs, ValuedArgs
<1>2. Valued(Only("no-rollback", "yes")) /\ Valued(Only("no-upgrade", "yes")) /\ Valued(NoTable)
  BY NoneIsNoValue, OptionIs, ValuedArgs
<1>3. ASSUME NEW always
      PROVE  Valued(ProfileArgs(j, always))
  <2>1. PICK name : name = InEffect("profile", j.args, j.env)
    OBVIOUS
  <2>2. name # None
    BY <2>1, FirstIsGiven, NoneIsNoValue DEF InEffect, check_profile_option
  <2>3. Valued(Only("p", name))
    BY <2>2, OptionIs, ValuedArgs
  <2>4. Valued(Pass(j.args, {"coordinator-profile-path"}))
    BY ValuedArgs
  <2> QED BY <1>2, <2>1, <2>3, <2>4, ValuedArgs DEF ProfileArgs
<1>4. ASSUME NEW args, Valued(args)
      PROVE  Valued(NoRollback(j, args))
  BY <1>2, <1>3, <1>4, ValuedArgs DEF NoRollback
<1>5. CASE j.status = "state"
  <2>1. PICK a, b :
          /\ a = Told("migrate",
                  Over(Over(ProfileArgs(j, FALSE), Pass(j.args, {"no-upgrade", "delete-state"})),
                       IF j.oldFile = None THEN NoTable ELSE Only("o", j.oldFile)), j.file)
          /\ b = Told("set", ProfileArgs(j, FALSE), j.file)
    OBVIOUS
  <2>2. Advice(j) = <<a, b>>
    BY <1>5, <2>1 DEF Advice
  <2>3. Valued(b.args)
    <3>1. PICK y : y = ProfileArgs(j, FALSE)
      OBVIOUS
    <3>2. b = [command |-> "set", args |-> y, file |-> j.file]
      BY <2>1, <3>1 DEF Told
    <3> QED BY <1>3, <3>1, <3>2
  <2>4. Valued(a.args)
    <3>1. PICK x, y : /\ x = Over(ProfileArgs(j, FALSE), Pass(j.args, {"no-upgrade", "delete-state"}))
                      /\ y = IF j.oldFile = None THEN NoTable ELSE Only("o", j.oldFile)
      OBVIOUS
    <3>2. Valued(x) /\ Valued(y)
      BY <1>1, <1>2, <1>3, <3>1, ValuedArgs
    <3>3. PICK z : z = Over(x, y)
      OBVIOUS
    <3>4. a = [command |-> "migrate", args |-> z, file |-> j.file]
      BY <2>1, <3>1, <3>3 DEF Told
    <3>5. Valued(z)
      BY <3>2, <3>3, ValuedArgs
    <3> QED BY <3>4, <3>5
  <2>5. PICK S : S = {a, b}
    OBVIOUS
  <2>6. Advice(j) \in Seq(S) /\ \A x \in S : Valued(x.args)
    BY <2>2, <2>3, <2>4, <2>5
  <2> QED BY <2>6
<1>6. ASSUME NEW a, Valued(a.args), Advice(j) = <<a>>
      PROVE  \E S : Advice(j) \in Seq(S) /\ \A x \in S : Valued(x.args)
  <2>1. PICK S : S = {a}
    OBVIOUS
  <2>2. Advice(j) \in Seq(S) /\ \A x \in S : Valued(x.args)
    BY <1>6, <2>1
  <2> QED BY <2>2
<1>7. CASE j.status = "new mappings" /\ j.oldFile # None
  <2>1. PICK args : args = NoRollback(j, Only("o", j.file))
    OBVIOUS
  <2>2. PICK a : a = [command |-> "activate", args |-> args, file |-> j.oldFile]
    OBVIOUS
  <2>3. Advice(j) = <<a>>
    BY <1>7, <2>1, <2>2 DEF Advice, Told
  <2>4. Valued(a.args)
    BY <1>1, <1>4, <2>1, <2>2
  <2> QED BY <1>6, <2>3, <2>4
<1>8. CASE j.status = "obsolete mappings" /\ j.oldFile # None
  <2>1. PICK args : args = NoRollback(j, Only("no-upgrade", "yes"))
    OBVIOUS
  <2>2. PICK a : a = [command |-> "activate", args |-> args, file |-> j.oldFile]
    OBVIOUS
  <2>3. Advice(j) = <<a>>
    BY <1>8, <2>1, <2>2 DEF Advice, Told
  <2>4. Valued(a.args)
    BY <1>2, <1>4, <2>1, <2>2
  <2> QED BY <1>6, <2>3, <2>4
<1>9. CASE j.status # "state" /\ (j.status \notin {"new mappings", "obsolete mappings"} \/ j.oldFile = None)
  <2>1. Advice(j) = <<>>
    BY <1>9 DEF Advice
  <2>2. PICK S : S = {}
    OBVIOUS
  <2>3. Advice(j) \in Seq(S) /\ \A x \in S : Valued(x.args)
    BY <2>1, <2>2
  <2> QED BY <2>3
<1> QED BY <1>5, <1>7, <1>8, <1>9


-----------------------------------------------------------------------------
(* The steps keep what was asked for. *)

ToldValued(told) == \E S : told \in Seq(S) /\ \A a \in S : Valued(a.args)

\* A command, and those that its script calls after it, have what was asked for;
\* nothing is known of the options of one that has ended.
CommandAsked(j) ==
    IF DOMAIN j = JobFields
    THEN /\ Valued(j.asked) /\ Valued(j.args) /\ Arrives(j.command, j.args, j.asked)
         /\ CallsAskedFor(j.calls, j.asked)
    ELSE j.parsed = "help"

OptionsInv == \A u \in User : CommandAsked(job[u]) /\ ToldValued(advice[u])

LEMMA OpenedLine ==
  ASSUME NEW command, NEW args, NEW file, NEW env, NEW asked, NEW calls
  PROVE  LET j == Open(command, args, file, env, asked, calls)
         IN  /\ DOMAIN j = JobFields /\ j.command = command /\ j.args = args /\ j.asked = asked
             /\ j.calls = calls
  BY DEF Open, Exit, Enter, JobFields

LEMMA EndedAsked ==
  ASSUME NEW j, DOMAIN j = JobFields, CommandAsked(j)
  PROVE  CommandAsked(Ended(j))
<1>1. PICK i : i = [NoJob EXCEPT !.command = j.command, !.exit = j.exit, !.env = j.env, !.astray = j.astray]
  OBVIOUS
<1>2. DOMAIN i = EndedFields /\ i.parsed = "help"
  BY <1>1 DEF NoJob, EndedFields
<1>3. "args" \in JobFields /\ "args" \notin EndedFields
  BY DEF JobFields, EndedFields
<1>4. CommandAsked(i)
  BY <1>2, <1>3 DEF CommandAsked
<1> QED BY <1>1, <1>4 DEF Ended

LEMMA SetAsked ==
  ASSUME DeployInv, OptionsInv, NEW u \in User, NEW k, Set(u, k), DOMAIN k = JobFields, CommandAsked(k)
  PROVE  OptionsInv'
<1>1. CommandAsked(Ended(k))
  BY EndedAsked
<1>2. ToldValued(Advice(k))
  BY AdviceValued DEF CommandAsked, ToldValued
<1>3. DOMAIN job = User /\ DOMAIN advice = User
  BY DEF DeployInv
<1>4. \A v \in User : job'[v] \in {job[v], Ended(k)} /\ advice'[v] \in {advice[v], Advice(k)}
  BY <1>3 DEF Set
<1>5. \A v \in User : (job'[v] = job[v] \/ job'[v] = Ended(k)) /\ (advice'[v] = advice[v] \/ advice'[v] = Advice(k))
  BY <1>4
<1> QED BY <1>1, <1>2, <1>5 DEF OptionsInv

LEMMA RequestAsked ==
  ASSUME DeployInv, OptionsInv, NEW u \in User, Request(u)
  PROVE  OptionsInv'
<1>1. PICK r, file :
        /\ r \in Requests /\ Calls(r) # <<>>
        /\ Begins(u, Open(Head(Calls(r)).command, Head(Calls(r)).args, file, r.env, r.asked, Tail(Calls(r))))
  BY DEF Request
<1>2. PICK c, rest : c = Head(Calls(r)) /\ rest = Tail(Calls(r))
  OBVIOUS
<1>3. Valued(r.asked) /\ AskedFor(c, r.asked) /\ CallsAskedFor(rest, r.asked)
  BY <1>1, <1>2, ScriptsArrive
<1>4. PICK j : j = Open(c.command, c.args, file, r.env, r.asked, rest)
  OBVIOUS
<1>5. DOMAIN j = JobFields /\ CommandAsked(j)
  BY <1>3, <1>4, OpenedLine DEF CommandAsked, AskedFor
<1>6. job' = [job EXCEPT ![u] = Ended(j)] /\ advice' = [advice EXCEPT ![u] = <<>>]
  BY <1>1, <1>2, <1>4 DEF Begins
<1>7. ToldValued(<<>>)
  <2>1. PICK S : S = {}
    OBVIOUS
  <2>2. <<>> \in Seq(S) /\ \A a \in S : Valued(a.args)
    BY <2>1
  <2> QED BY <2>2 DEF ToldValued
<1>8. CommandAsked(Ended(j))
  BY <1>5, EndedAsked
<1>9. ASSUME NEW v \in User
      PROVE  CommandAsked(job'[v]) /\ ToldValued(advice'[v])
  BY <1>6, <1>7, <1>8 DEF DeployInv, OptionsInv
<1> QED BY <1>9 DEF OptionsInv

LEMMA FollowAdviceAsked ==
  ASSUME DeployInv, OptionsInv, NEW u \in User, FollowAdvice(u)
  PROVE  OptionsInv'
<1>1. PICK S : advice[u] \in Seq(S) /\ \A a \in S : Valued(a.args)
  BY DEF OptionsInv, ToldValued
<1>2. PICK a, rest : a = Head(advice[u]) /\ rest = Tail(advice[u])
  OBVIOUS
<1>3. a \in S /\ rest \in Seq(S)
  BY <1>1, <1>2 DEF FollowAdvice
<1>4. PICK j : j = Open(a.command, a.args, a.file, job[u].env, a.args, <<>>)
  OBVIOUS
<1>5. DOMAIN j = JobFields /\ CommandAsked(j)
  <2>1. DOMAIN j = JobFields /\ j.args = a.args /\ j.asked = a.args /\ j.calls = <<>>
    BY <1>4, OpenedLine
  <2>2. CallsAskedFor(<<>>, a.args)
    BY CallsToCome
  <2>3. Arrives(j.command, a.args, a.args)
    BY DEF Arrives
  <2> QED BY <1>1, <1>3, <2>1, <2>2, <2>3 DEF CommandAsked
<1>6. job' = [job EXCEPT ![u] = Ended(j)] /\ advice' = [advice EXCEPT ![u] = rest]
  BY <1>2, <1>4 DEF FollowAdvice
<1>7. ToldValued(rest)
  BY <1>1, <1>3 DEF ToldValued
<1>8. CommandAsked(Ended(j))
  BY <1>5, EndedAsked
<1>9. ASSUME NEW v \in User
      PROVE  CommandAsked(job'[v]) /\ ToldValued(advice'[v])
  BY <1>6, <1>7, <1>8 DEF DeployInv, OptionsInv
<1> QED BY <1>9 DEF OptionsInv

LEMMA NextCallAsked ==
  ASSUME DeployInv, OptionsInv, NEW u \in User, NextCall(u)
  PROVE  OptionsInv'
<1> DEFINE i == job[u]
<1>1. i.calls # <<>> /\ DOMAIN i = JobFields /\ CommandAsked(i)
  BY DEF NextCall, DeployInv, UserOK, Formed, OptionsInv
<1>2. PICK c, rest : c = Head(i.calls) /\ rest = Tail(i.calls)
  OBVIOUS
<1>3. Valued(i.asked) /\ AskedFor(c, i.asked) /\ CallsAskedFor(rest, i.asked) /\ CallsAskedFor(<<>>, i.asked)
  BY <1>1, <1>2, CallsToCome DEF CommandAsked
<1>4. CASE GoesOn(i)
  <2>1. PICK j : j = Open(c.command, c.args, Printed(i), i.env, i.asked, rest)
    OBVIOUS
  <2>2. Set(u, j)
    BY <1>2, <1>4, <2>1 DEF NextCall
  <2>3. DOMAIN j = JobFields /\ CommandAsked(j)
    BY <1>3, <2>1, OpenedLine DEF CommandAsked, AskedFor
  <2> QED BY <2>2, <2>3, SetAsked
<1>5. CASE ~GoesOn(i)
  <2>1. PICK j : j = [i EXCEPT !.calls = <<>>]
    OBVIOUS
  <2>2. Set(u, j)
    BY <1>5, <2>1 DEF NextCall
  <2>3. DOMAIN j = JobFields /\ j.command = i.command /\ j.args = i.args /\ j.asked = i.asked /\ j.calls = <<>>
    BY <1>1, <2>1 DEF JobFields
  <2>4. CommandAsked(j)
    BY <1>1, <1>3, <2>3 DEF CommandAsked
  <2> QED BY <2>2, <2>3, <2>4, SetAsked
<1> QED BY <1>4, <1>5

LEMMA NextAsked == DeployInv /\ OptionsInv /\ [Next]_vars => OptionsInv'
<1> SUFFICES ASSUME DeployInv, OptionsInv, [Next]_vars PROVE OptionsInv'
  OBVIOUS
<1>1. CASE UNCHANGED vars
  BY <1>1 DEF vars, OptionsInv
<1>2. ASSUME NEW u \in User, Step(u)
      PROVE  OptionsInv'
  <2>1. CASE Request(u) \/ FollowAdvice(u) \/ NextCall(u)
    BY <2>1, RequestAsked, FollowAdviceAsked, NextCallAsked
  <2>2. CASE ForgetGenerations(u)
    BY <2>2 DEF ForgetGenerations, OptionsInv
  <2>3. CASE Running(u)
    <3>1. PICK k : Set(u, k) /\ KeepsLine(k, job[u])
      BY <1>2, <2>3, StepKeepsLine
    <3>2. DOMAIN job[u] = JobFields /\ CommandAsked(job[u])
      BY <2>3 DEF DeployInv, UserOK, Running, Runs, OptionsInv
    <3>3. CallsAskedFor(k.calls, k.asked)
      BY <3>1, <3>2, CallsToCome DEF KeepsLine, CommandAsked
    <3>4. DOMAIN k = JobFields /\ CommandAsked(k)
      BY <3>1, <3>2, <3>3 DEF KeepsLine, CommandAsked
    <3> QED BY <3>1, <3>4, SetAsked
  <2>4. Request(u) \/ FollowAdvice(u) \/ NextCall(u) \/ ForgetGenerations(u) \/ Running(u)
    BY <1>2 DEF Step, At, Distribute, Deactivate, Activate, MigrateData, SetCoordinator, ConvertManifest,
                CompareManifest, Elsewhere, Crash, VisitNobody, LockTarget, UnlockTarget, SetTarget,
                CollectGarbage, CaptureTarget
  <2> QED BY <2>1, <2>2, <2>3, <2>4
<1>3. CASE Late
  BY <1>3, LateChanges DEF OptionsInv
<1> QED BY <1>1, <1>2, <1>3 DEF Next

\* disnix-env, disnix-delegate, disnix-reconstruct, disnix-convert and the commands
\* that they call: an option that a user gave, and that the command which runs
\* knows, is in effect there as it was given, however the environment and the other
\* options are; but for those that OptionsArrive excepts.
THEOREM OptionsReachCommands == Spec => []OptionsArrive
<1>1. OptionsInv => OptionsArrive
  <2> SUFFICES ASSUME OptionsInv, NEW u \in User, job[u].parsed = "runs",
                      NEW option \in Names(DOMAIN job[u].asked) \cap Names(Commands[job[u].command].options),
                      ~Excepted(job[u].command, option)
               PROVE  InEffect(option, job[u].args, job[u].env) = Given(job[u].asked, option)
    BY DEF OptionsArrive, Names, Excepted
  <2> DEFINE j == job[u]
  <2>1. Valued(j.asked) /\ Valued(j.args) /\ Arrives(j.command, j.args, j.asked)
    BY DEF OptionsInv, CommandAsked
  <2>2. Given(j.args, option) = Given(j.asked, option)
    BY <2>1 DEF Arrives
  <2>3. option # "old-manifest" /\ option # "target-property"
    BY DEF Excepted
  <2>4. Given(j.asked, option) # None /\ (option = "delete-state" => Given(j.asked, option) = "yes")
    BY <2>1, <2>3, GivenValue
  <2> QED BY <2>2, <2>3, <2>4, GivenIsInEffect
<1>2. Init => OptionsInv
  <2> SUFFICES ASSUME Init PROVE OptionsInv
    OBVIOUS
  <2>1. \A u \in User : job[u] = NoJob /\ advice[u] = <<>>
    BY DEF Init
  <2>2. NoJob.parsed = "help" /\ DOMAIN NoJob # JobFields
    <3>1. DOMAIN NoJob = EndedFields /\ NoJob.parsed = "help"
      BY DEF NoJob, EndedFields
    <3>2. "args" \in JobFields /\ "args" \notin EndedFields
      BY DEF JobFields, EndedFields
    <3> QED BY <3>1, <3>2
  <2>3. ToldValued(<<>>)
    <3>1. PICK S : S = {}
      OBVIOUS
    <3>2. <<>> \in Seq(S) /\ \A a \in S : Valued(a.args)
      BY <3>1
    <3> QED BY <3>2 DEF ToldValued
  <2> QED BY <2>1, <2>2, <2>3 DEF OptionsInv, CommandAsked
<1>3. DeployInv /\ OptionsInv /\ [Next]_vars => OptionsInv'
  BY NextAsked
<1> QED BY <1>1, <1>2, <1>3, DeployInvariance, PTL DEF Spec

-----------------------------------------------------------------------------
(* How the old configuration is brought back when a rollback failed.       *)

\* The manifest that is deployed, and the one that a file holds.
Current == create_manifest(Link, AllParts)
Held(file) == parse_manifest(Contents(file), AllParts, Missing, Missing, "localhost")

\* A manifest that was read is one: create_manifest returns NULL for none.
ReadIsNotNull == \A doc, parts : parse_manifest(doc, parts, Missing, Missing, "localhost") # None

\* A file with the manifest c, the current one.
Describes(file, c) == file = Link \/ (file # None /\ Held(file) = c)

\* What may be active after a transition from c to n that failed.
Remains(status, r, c, n) ==
    /\ status = "new mappings" => Keys(c) \cap Keys(n) \subseteq r /\ r \subseteq Keys(c) \cup Keys(n)
    /\ status = "obsolete mappings" => r \subseteq Keys(c)

NotRolledBack == {"new mappings", "obsolete mappings"}

\* A deployment that replaces the manifest c;
Replaces(j, c) ==
    /\ j.old = c /\ Describes(j.oldFile, c)
    /\ j.file \notin {None, Link} /\ j.new = Held(j.file)

\* ... that could not roll back;
LeavesRest(j, r, c) == j.status \in NotRolledBack => Replaces(j, c) /\ Remains(j.status, r, c, j.new)

\* ... and that runs.
Replacing(j, r, c) ==
    /\ LeavesRest(j, r, c)
    /\ j.status = "ok" /\ Head(j.phases) \in {"distribute", "lock", "deactivate", "activate"} =>
         Replaces(j, c) /\ r = IF Head(j.phases) = "activate" THEN Keys(c) \ Obsolete(j) ELSE Keys(c)

\* A disnix-activate that brings c back, or that may.
Restoring(j, r, c) ==
    /\ j.new.service_mappings = c.service_mappings /\ j.new.targets = c.targets
    /\ IF FromScratch(j) THEN r \subseteq Keys(c)
       ELSE /\ Keys(c) \cap Keys(j.old) \subseteq r
            /\ \A key \in r \ Keys(c) :
                 key \in Keys(j.old) /\ (Head(j.phases) = "activate" => key[1] \notin DOMAIN c.targets)

Restorable(a, r, c) ==
    /\ Describes(a.file, c)
    /\ \/ Given(a.args, "no-upgrade") # None /\ r \subseteq Keys(c)
       \/ \E file : /\ Given(a.args, "no-upgrade") = None
                    /\ file \notin {None, Link} /\ Given(a.args, "old-manifest") = file
                    /\ Remains("new mappings", r, c, Held(file))

\* The commands of a user whose deployment was sound.
Proper(j) ==
    \/ j.command = "deploy" /\ (j.status # "ok" => j.phases = <<"unlock">>)
    \/ /\ j.command = "activate" /\ j.status = "ok" /\ ~RollsBack(j) /\ ~Dry(j)
       /\ j.phases \in {<<"deactivate", "activate">>, <<"activate">>}

TellsActivate(told) == told # <<>> /\ Head(told).command = "activate"

Gentle(told) ==
    TellsActivate(told) =>
      /\ Tail(told) = <<>>
      /\ Given(Head(told).args, "no-rollback") # None /\ Given(Head(told).args, "dry-run") = None

RestoreOK(j, told, g, r, c) ==
    g.sound =>
         /\ Gentle(told) /\ j.calls = <<>>
         /\ Runs(j) => told = <<>> /\ Proper(j)
         /\ g.alone /\ c # None =>
              /\ Runs(j) /\ j.command = "deploy" => Replacing(j, r, c)
              /\ Runs(j) /\ j.command = "activate" => Restoring(j, r, c)
              /\ TellsActivate(told) => Restorable(Head(told), r, c)

RestoreInv == \A u \in User : RestoreOK(job[u], advice[u], ghost[u], running, Current)

\* The options of the disnix-activate that a user is told to run.
LEMMA ToldOptions ==
  ASSUME NEW j, NEW spelling, NEW value, spelling \in {"o", "no-upgrade"}
  PROVE  LET args == NoRollback(j, Only(spelling, value))
         IN  /\ Given(args, "no-rollback") = "yes" /\ Given(args, "dry-run") = None
             /\ spelling = "o" => Given(args, "old-manifest") = value /\ Given(args, "no-upgrade") = None
             /\ spelling = "no-upgrade" => Given(args, "no-upgrade") = value
<1>1. PICK name, pass : name = InEffect("profile", j.args, j.env) /\ pass = Pass(j.args, {"coordinator-profile-path"})
  OBVIOUS
<1>2. PICK p, q, s : p = Over(Only("p", name), pass) /\ q = Over(p, Only("no-rollback", "yes")) /\ s = Only(spelling, value)
  OBVIOUS
<1>3. NoRollback(j, Only(spelling, value)) = Over(q, s)
  BY <1>1, <1>2 DEF NoRollback, ProfileArgs
<1>4. /\ Option("p") = "profile" /\ Option("o") = "old-manifest" /\ Option("no-rollback") = "no-rollback"
      /\ Option("no-upgrade") = "no-upgrade" /\ Option("coordinator-profile-path") = "coordinator-profile-path"
  BY OptionIs
<1>5. \A x, y : DOMAIN Only(x, y) = {x} /\ Names(DOMAIN Only(x, y)) = {Option(x)}
  BY DEF Only, Names
<1>6. ASSUME NEW x, NEW y
      PROVE  Given(Only(x, y), Option(x)) = y
  <2>1. PICK f : f = Only(x, y)
    OBVIOUS
  <2>2. DOMAIN f = {x} /\ f[x] = y
    BY <2>1 DEF Only
  <2>3. {spelt \in DOMAIN f : Option(spelt) = Option(x)} = {x} /\ (CHOOSE spelt \in {x} : TRUE) = x
    BY <2>2
  <2> QED BY <2>1, <2>2, <2>3 DEF Given
<1>7. \A f, g : Names(DOMAIN Over(f, g)) = Names(DOMAIN f) \cup Names(DOMAIN g)
  BY DEF Over, Names
<1>8. Names(DOMAIN pass) \subseteq {"coordinator-profile-path"}
  BY <1>1, <1>4 DEF Pass, Names
<1>9. Names(DOMAIN p) \subseteq {"profile", "coordinator-profile-path"}
  BY <1>2, <1>4, <1>5, <1>7, <1>8
<1>10. Names(DOMAIN q) \subseteq {"profile", "coordinator-profile-path", "no-rollback"}
  BY <1>2, <1>4, <1>5, <1>7, <1>9
<1>11. Names(DOMAIN s) = {Option(spelling)} /\ Given(s, Option(spelling)) = value
  BY <1>2, <1>5, <1>6
<1>12. Given(q, "no-rollback") = "yes"
  BY <1>2, <1>4, <1>6, <1>9, PutOver
<1>13. \A option : option \notin Names(DOMAIN q) => Given(q, option) = None
  BY DEF Given, Names
<1>14. Given(Over(q, s), "no-rollback") = "yes"
  BY <1>4, <1>11, <1>12, PutOver
<1>15. Given(Over(q, s), "dry-run") = None
  BY <1>4, <1>10, <1>11, <1>13, PutOver
<1>16. spelling = "o" => Given(Over(q, s), "old-manifest") = value /\ Given(Over(q, s), "no-upgrade") = None
  BY <1>4, <1>10, <1>11, <1>13, PutOver
<1>17. spelling = "no-upgrade" => Given(Over(q, s), "no-upgrade") = value
  BY <1>4, <1>10, <1>11, PutOver
<1> QED BY <1>3, <1>14, <1>15, <1>16, <1>17

\* A deployment that could not roll back tells how to bring the old configuration back.
LEMMA AdviceGiven ==
  ASSUME NEW j
  PROVE  /\ Gentle(Advice(j))
         /\ TellsActivate(Advice(j)) => j.status \in NotRolledBack
         /\ \A r, c : LeavesRest(j, r, c) /\ TellsActivate(Advice(j)) => Restorable(Head(Advice(j)), r, c)
<1>1. ASSUME NEW a
      PROVE  Head(<<a>>) = a /\ Tail(<<a>>) = <<>> /\ <<a>> # <<>>
  OBVIOUS
<1>2. CASE j.status = "state"
  <2>1. PICK x, y, a, b : a = [command |-> "migrate", args |-> x, file |-> j.file] /\ Advice(j) = <<a, b>>
    BY <1>2 DEF Advice, Told
  <2>2. Head(Advice(j)).command = "migrate"
    BY <2>1
  <2> QED BY <2>2 DEF TellsActivate, Gentle
<1>3. CASE j.status = "new mappings" /\ j.oldFile # None
  <2>1. PICK args, a : args = NoRollback(j, Only("o", j.file)) /\ a = [command |-> "activate", args |-> args, file |-> j.oldFile]
    OBVIOUS
  <2>2. Advice(j) = <<a>>
    BY <1>3, <2>1 DEF Advice, Told
  <2>3. /\ Given(args, "no-rollback") = "yes" /\ Given(args, "dry-run") = None
        /\ Given(args, "old-manifest") = j.file /\ Given(args, "no-upgrade") = None
    BY <2>1, ToldOptions
  <2>4. a.args = args /\ a.file = j.oldFile /\ a.command = "activate"
    BY <2>1
  <2>5. Head(Advice(j)) = a /\ Tail(Advice(j)) = <<>>
    BY <1>1, <2>2
  <2>6. Gentle(Advice(j))
    BY <2>3, <2>4, <2>5, NoneIsNoValue DEF Gentle
  <2>7. ASSUME NEW r, NEW c, LeavesRest(j, r, c)
        PROVE  Restorable(a, r, c)
    <3>1. Describes(a.file, c) /\ j.file \notin {None, Link} /\ Remains("new mappings", r, c, Held(j.file))
      BY <1>3, <2>4, <2>7 DEF LeavesRest, Replaces, NotRolledBack
    <3> QED BY <2>3, <2>4, <3>1 DEF Restorable
  <2> QED BY <1>3, <2>5, <2>6, <2>7 DEF NotRolledBack
<1>4. CASE j.status = "obsolete mappings" /\ j.oldFile # None
  <2>1. PICK args, a : args = NoRollback(j, Only("no-upgrade", "yes")) /\ a = [command |-> "activate", args |-> args, file |-> j.oldFile]
    OBVIOUS
  <2>2. Advice(j) = <<a>>
    BY <1>4, <2>1 DEF Advice, Told
  <2>3. /\ Given(args, "no-rollback") = "yes" /\ Given(args, "dry-run") = None /\ Given(args, "no-upgrade") = "yes"
    BY <2>1, ToldOptions
  <2>4. a.args = args /\ a.file = j.oldFile /\ a.command = "activate"
    BY <2>1
  <2>5. Head(Advice(j)) = a /\ Tail(Advice(j)) = <<>>
    BY <1>1, <2>2
  <2>6. Gentle(Advice(j))
    BY <2>3, <2>4, <2>5, NoneIsNoValue DEF Gentle
  <2>7. ASSUME NEW r, NEW c, LeavesRest(j, r, c)
        PROVE  Restorable(a, r, c)
    <3>1. Describes(a.file, c) /\ r \subseteq Keys(c)
      BY <1>4, <2>4, <2>7 DEF LeavesRest, Replaces, NotRolledBack, Remains
    <3> QED BY <2>3, <2>4, <3>1, NoneIsNoValue DEF Restorable
  <2> QED BY <1>4, <2>5, <2>6, <2>7 DEF NotRolledBack
<1>5. CASE j.status # "state" /\ (j.status \notin NotRolledBack \/ j.oldFile = None)
  <2>1. Advice(j) = <<>>
    BY <1>5 DEF Advice, NotRolledBack
  <2> QED BY <2>1 DEF TellsActivate, Gentle
<1> QED BY <1>2, <1>3, <1>4, <1>5 DEF NotRolledBack


\* What a transition activates and deactivates.
LEMMA TransitionKeys ==
  ASSUME NEW j
  PROVE  /\ FromScratch(j) => Added(j) = Keys(j.new) /\ Obsolete(j) = {}
         /\ ~FromScratch(j) => /\ Added(j) = Keys(j.new) \ Keys(j.old)
                               /\ Obsolete(j) = {key \in Keys(j.old) \ Keys(j.new) : key[1] \in Targets(j)}
<1>1. ASSUME FromScratch(j)
      PROVE  Added(j) = Keys(j.new) /\ Obsolete(j) = {}
  BY <1>1 DEF Added, Obsolete, Keys
<1>2. ASSUME ~FromScratch(j)
      PROVE  /\ Added(j) = Keys(j.new) \ Keys(j.old)
             /\ Obsolete(j) = {key \in Keys(j.old) \ Keys(j.new) : key[1] \in Targets(j)}
  <2>1. PICK o, n : o = Keys(j.old) /\ n = Keys(j.new)
    OBVIOUS
  <2>2. Added(j) = n \ o
    BY <1>2, <2>1 DEF Added, Keys, subtract_service_mapping_array, find_service_mapping
  <2>3. Obsolete(j) = {key \in o \ n : key[1] \in Targets(j)}
    BY <1>2, <2>1 DEF Obsolete, Keys, subtract_service_mapping_array, find_service_mapping, ServiceKey
  <2> QED BY <2>1, <2>2, <2>3
<1> QED BY <1>1, <1>2

\* Whatever parts are read of a document, the parts that are read are the same.
LEMMA PartsRead ==
  ASSUME NEW doc, NEW parts, parts \subseteq AllParts
  PROVE  LET m == parse_manifest(doc, parts, Missing, Missing, "localhost")
             all == parse_manifest(doc, AllParts, Missing, Missing, "localhost")
         IN  /\ "serviceMappings" \in parts => m.service_mappings = all.service_mappings /\ Keys(m) = Keys(all)
             /\ "infrastructure" \in parts => m.targets = all.targets
<1>1. PICK m, all : /\ m = parse_manifest(doc, parts, Missing, Missing, "localhost")
                    /\ all = parse_manifest(doc, AllParts, Missing, Missing, "localhost")
  OBVIOUS
<1>2. CASE doc.version # 2
  <2>1. m = all
    BY <1>1, <1>2 DEF parse_manifest
  <2> QED BY <1>1, <2>1
<1>3. CASE doc.version = 2
  <2>1. "serviceMappings" \in parts => m.service_mappings = all.service_mappings
    BY <1>1, <1>3 DEF parse_manifest, Manifest, AllParts
  <2>2. "infrastructure" \in parts => m.targets = all.targets
    BY <1>1, <1>3 DEF parse_manifest, Manifest, AllParts
  <2> QED BY <1>1, <2>1, <2>2 DEF Keys
<1> QED BY <1>2, <1>3

\* A command keeps its arguments and what it works on.
KeepsWork(k, j) ==
    /\ DOMAIN k = JobFields /\ k.command = j.command /\ k.args = j.args /\ k.calls = j.calls
    /\ k.file = j.file /\ k.new = j.new /\ k.oldFile = j.oldFile /\ k.old = j.old

LEMMA SameWork ==
  ASSUME NEW k, NEW j, KeepsWork(k, j), NEW c
  PROVE  /\ Added(k) = Added(j) /\ Obsolete(k) = Obsolete(j) /\ FromScratch(k) = FromScratch(j)
         /\ Replaces(k, c) = Replaces(j, c)
         /\ RollsBack(k) = RollsBack(j) /\ Dry(k) = Dry(j)
<1>1. FromScratch(k) = FromScratch(j) /\ Targets(k) = Targets(j)
  BY DEF KeepsWork, FromScratch, Targets
<1>2. Added(k) = Added(j) /\ Obsolete(k) = Obsolete(j)
  BY <1>1 DEF KeepsWork, Added, Obsolete
<1> QED BY <1>1, <1>2 DEF KeepsWork, Replaces, RollsBack, Dry

LEMMA WorkKept ==
  ASSUME NEW j, DOMAIN j = JobFields
  PROVE  /\ LET k == Succeed(j)
            IN  /\ KeepsWork(k, j) /\ k.status = j.status
                /\ Runs(k) => Len(j.phases) # 1 /\ k.phases = Tail(j.phases)
         /\ LET k == Fail(j)
            IN  KeepsWork(k, j) /\ k.status = j.status /\ (Runs(k) => k.phases = <<"unlock">>)
         /\ \A status : LET k == Exit(j, status)
                        IN  KeepsWork(k, j) /\ k.status = j.status /\ ~Runs(k)
<1>1. ASSUME NEW status
      PROVE  LET k == Exit(j, status) IN KeepsWork(k, j) /\ k.status = j.status /\ ~Runs(k)
  BY DEF Exit, KeepsWork, JobFields, Runs
<1>2. ASSUME NEW phases
      PROVE  LET k == Enter(j, phases) IN KeepsWork(k, j) /\ k.status = j.status /\ k.phases = phases
  BY DEF Enter, KeepsWork, JobFields
<1>3. LET k == Succeed(j)
      IN  /\ KeepsWork(k, j) /\ k.status = j.status
          /\ Runs(k) => Len(j.phases) # 1 /\ k.phases = Tail(j.phases)
  BY <1>1, <1>2 DEF Succeed
<1>4. LET k == Fail(j)
      IN  KeepsWork(k, j) /\ k.status = j.status /\ (Runs(k) => k.phases = <<"unlock">>)
  <2>1. PICK e, k : e = Enter(j, <<"unlock">>) /\ k = [e EXCEPT !.ok = FALSE]
    OBVIOUS
  <2>2. KeepsWork(e, j) /\ e.status = j.status /\ e.phases = <<"unlock">>
    BY <1>2, <2>1
  <2>3. KeepsWork(k, j) /\ k.status = j.status /\ k.phases = <<"unlock">>
    BY <2>1, <2>2 DEF KeepsWork, JobFields
  <2>4. Fail(j) = k \/ Fail(j) = Exit(j, "1")
    BY <2>1 DEF Fail
  <2> QED BY <1>1, <2>3, <2>4
<1> QED BY <1>1, <1>3, <1>4

\* What a command of a user whose deployment was sound becomes.
Fine(k, g, r, c) ==
    /\ k.calls = <<>>
    /\ Runs(k) => Proper(k)
    /\ ~Runs(k) /\ k.command = "activate" => k.status \notin NotRolledBack
    /\ g.alone /\ c # None =>
         /\ k.command = "deploy" => LeavesRest(k, r, c)
         /\ Runs(k) /\ k.command = "deploy" => Replacing(k, r, c)
         /\ Runs(k) /\ k.command = "activate" => Restoring(k, r, c)

LEMMA SetRestores ==
  ASSUME DeployInv, RestoreInv, NEW u \in User, Running(u), NEW k, Set(u, k), k.command = job[u].command,
         ghost'[u] = ghost[u], ghost[u].sound => Fine(k, ghost[u], running', Current')
  PROVE  RestoreOK(job'[u], advice'[u], ghost'[u], running', Current')
<1>1. PICK r, c, g, told : r = running' /\ c = Current' /\ g = ghost[u] /\ told = advice'[u]
  OBVIOUS
<1>2. job'[u] = Ended(k) /\ told = IF k.exit # "none" /\ k.command \in {"deploy", "activate"} THEN Advice(k) ELSE advice[u]
  BY <1>1 DEF Set, DeployInv
<1>3. g.sound => Gentle(told)
  BY <1>1, <1>2, AdviceGiven DEF RestoreInv, RestoreOK
<1>4. ASSUME g.sound
      PROVE  /\ Ended(k).calls = <<>>
             /\ Runs(Ended(k)) => told = <<>> /\ Proper(Ended(k))
             /\ g.alone /\ c # None =>
                  /\ Runs(Ended(k)) /\ Ended(k).command = "deploy" => Replacing(Ended(k), r, c)
                  /\ Runs(Ended(k)) /\ Ended(k).command = "activate" => Restoring(Ended(k), r, c)
                  /\ TellsActivate(told) => Restorable(Head(told), r, c)
  <2>1. Fine(k, g, r, c)
    BY <1>1, <1>4
  <2>2. advice[u] = <<>> /\ k.command \in {"deploy", "activate"}
    BY <1>1, <1>4 DEF RestoreInv, RestoreOK, Running, Runs, Proper
  <2>3. CASE k.exit = "none"
    <3>1. Ended(k) = k /\ told = <<>>
      BY <1>2, <2>2, <2>3 DEF Ended
    <3> QED BY <2>1, <3>1 DEF Fine, TellsActivate
  <2>4. CASE k.exit # "none"
    <3>1. Ended(k).calls = <<>> /\ Ended(k).exit = k.exit
      BY <2>1, <2>4 DEF Ended, NoJob, Fine
    <3>2. ~Runs(k) /\ ~Runs(Ended(k))
      BY <2>4, <3>1 DEF Runs
    <3>3. told = Advice(k)
      BY <1>2, <2>2, <2>4
    <3>4. TellsActivate(told) => k.command = "deploy"
      BY <2>1, <2>2, <3>2, <3>3, AdviceGiven DEF Fine
    <3>5. g.alone /\ c # None /\ TellsActivate(told) => Restorable(Head(told), r, c)
      BY <2>1, <3>3, <3>4, AdviceGiven DEF Fine
    <3> QED BY <3>1, <3>2, <3>5
  <2> QED BY <2>3, <2>4
<1> QED BY <1>1, <1>2, <1>3, <1>4 DEF RestoreOK


\* A phase of a deployment that does not touch what is active, nor the
\* coordinator's profile, or that fails.
LEMMA OtherPhaseFine ==
  ASSUME NEW j, NEW k, KeepsWork(k, j), NEW g, NEW r, NEW c, j.command = "deploy", Fine(j, g, r, c), Runs(j),
         Chained(j.phases), Head(j.phases) \notin {"deactivate", "activate"},
         \/ k.status \notin {"ok"} \cup NotRolledBack /\ (Runs(k) => k.phases = <<"unlock">>)
         \/ /\ k.status = j.status
            /\ Runs(k) => \/ k.phases \in {j.phases, <<"unlock">>}
                          \/ Len(j.phases) # 1 /\ k.phases = Tail(j.phases)
  PROVE  Fine(k, g, r, c)
<1>1. k.calls = <<>> /\ k.command = "deploy" /\ (j.status # "ok" => j.phases = <<"unlock">>)
  BY DEF Fine, KeepsWork, Proper
<1>2. CASE k.status \notin {"ok"} \cup NotRolledBack /\ (Runs(k) => k.phases = <<"unlock">>)
  BY <1>1, <1>2 DEF Fine, Proper, LeavesRest, Replacing
<1>3. CASE /\ k.status = j.status
           /\ Runs(k) => \/ k.phases \in {j.phases, <<"unlock">>}
                         \/ Len(j.phases) # 1 /\ k.phases = Tail(j.phases)
  <2>1. Len(<<"unlock">>) = 1
    OBVIOUS
  <2>2. Runs(k) => Proper(k)
    BY <1>1, <1>3, <2>1 DEF Proper
  <2>3. Runs(k) => k.phases = j.phases \/ Head(k.phases) \notin {"distribute", "activate"}
    <3>1. CASE k.phases = <<"unlock">>
      BY <3>1
    <3>2. CASE Len(j.phases) # 1 /\ k.phases = Tail(j.phases)
      <4>1. <<Head(j.phases), Head(k.phases)>> \in Follows
        BY <3>2, ChainGoesOn
      <4> QED BY <4>1 DEF Follows
    <3> QED BY <1>3, <3>1, <3>2
  <2>4. Runs(k) => k.phases = j.phases \/ Head(k.phases) = "unlock" \/ Head(k.phases) \notin {"lock", "deactivate"}
                     \/ Head(j.phases) \in {"distribute", "lock"}
    <3>1. CASE k.phases = <<"unlock">>
      BY <3>1
    <3>2. CASE Len(j.phases) # 1 /\ k.phases = Tail(j.phases)
      <4>1. <<Head(j.phases), Head(k.phases)>> \in Follows
        BY <3>2, ChainGoesOn
      <4> QED BY <4>1 DEF Follows
    <3> QED BY <1>3, <3>1, <3>2
  <2>5. ASSUME g.alone /\ c # None
        PROVE  LeavesRest(k, r, c) /\ (Runs(k) => Replacing(k, r, c))
    <3>1. Replacing(j, r, c)
      BY <2>5 DEF Fine
    <3>2. Replaces(k, c) = Replaces(j, c) /\ k.new = j.new /\ Obsolete(k) = Obsolete(j)
      BY SameWork DEF KeepsWork
    <3>3. LeavesRest(k, r, c)
      BY <1>3, <3>1, <3>2 DEF LeavesRest, Replacing
    <3>4. ASSUME Runs(k), k.status = "ok", Head(k.phases) \in {"distribute", "lock", "deactivate", "activate"}
          PROVE  Replaces(k, c) /\ r = IF Head(k.phases) = "activate" THEN Keys(c) \ Obsolete(k) ELSE Keys(c)
      <4>1. Head(j.phases) \in {"distribute", "lock", "deactivate", "activate"}
        BY <2>3, <2>4, <3>4
      <4>2. Replaces(j, c) /\ r = Keys(c)
        BY <1>3, <3>1, <3>4, <4>1 DEF Replacing
      <4>3. Head(k.phases) # "activate"
        BY <2>3, <3>4
      <4> QED BY <3>2, <4>2, <4>3
    <3> QED BY <3>3, <3>4 DEF Replacing
  <2> QED BY <1>1, <2>2, <2>5 DEF Fine
<1> QED BY <1>2, <1>3

\* Setting the coordinator's profile.
LEMMA CoordinatorFine ==
  ASSUME NEW j, NEW k, KeepsWork(k, j), NEW g, NEW r, NEW c, NEW d, j.command = "deploy", Fine(j, g, r, c), Runs(j),
         Chained(j.phases), Head(j.phases) = "coordinator",
         \/ k.status = "fail" /\ (Runs(k) => k.phases = <<"unlock">>)
         \/ k.status = j.status /\ (Runs(k) => Len(j.phases) # 1 /\ k.phases = Tail(j.phases))
  PROVE  Fine(k, g, r, d)
<1>1. k.calls = <<>> /\ k.command = "deploy" /\ j.status = "ok"
  <2>1. j.phases # <<"unlock">>
    BY HeadUnlock, Zenon
  <2> QED BY <2>1, Zenon DEF Fine, KeepsWork, Proper
<1>2. Runs(k) => Head(k.phases) = "unlock"
  <2>1. CASE Len(j.phases) # 1 /\ k.phases = Tail(j.phases)
    <3>1. <<Head(j.phases), Head(k.phases)>> \in Follows
      BY <2>1, ChainGoesOn
    <3> QED BY <3>1 DEF Follows
  <2> QED BY <2>1
<1>3. k.status \notin NotRolledBack
  BY <1>1 DEF NotRolledBack
<1> QED BY <1>1, <1>2, <1>3 DEF Fine, Proper, LeavesRest, Replacing

\* The transition of a deployment: what it leaves active.
LEMMA DeactivateFine ==
  ASSUME NEW j, NEW k, KeepsWork(k, j), NEW g, NEW r, NEW c, NEW q, j.command = "deploy", Fine(j, g, r, c), Runs(j),
         Chained(j.phases), Head(j.phases) = "deactivate",
         \/ /\ q = r \ Obsolete(j) /\ k.status = j.status
            /\ Runs(k) => Len(j.phases) # 1 /\ k.phases = Tail(j.phases)
         \/ /\ q \subseteq r /\ k.status \in {"fail", "obsolete mappings"}
            /\ Runs(k) => k.phases = <<"unlock">>
  PROVE  Fine(k, g, q, c)
<1>1. k.calls = <<>> /\ k.command = "deploy" /\ j.status = "ok"
  <2>1. j.phases # <<"unlock">>
    BY HeadUnlock, Zenon
  <2> QED BY <2>1, Zenon DEF Fine, KeepsWork, Proper
<1>2. Replaces(k, c) = Replaces(j, c) /\ k.new = j.new /\ Obsolete(k) = Obsolete(j)
  BY SameWork DEF KeepsWork
<1>3. g.alone /\ c # None => Replaces(j, c) /\ r = Keys(c)
  BY <1>1 DEF Fine, Replacing
<1>4. CASE /\ q = r \ Obsolete(j) /\ k.status = j.status
           /\ Runs(k) => Len(j.phases) # 1 /\ k.phases = Tail(j.phases)
  <2>1. Runs(k) => Head(k.phases) = "activate"
    <3>1. CASE Len(j.phases) # 1 /\ k.phases = Tail(j.phases)
      <4>1. <<Head(j.phases), Head(k.phases)>> \in Follows
        BY <3>1, ChainGoesOn
      <4> QED BY <4>1 DEF Follows
    <3> QED BY <1>4, <3>1
  <2>2. k.status = "ok" /\ k.status \notin NotRolledBack
    BY <1>1, <1>4 DEF NotRolledBack
  <2> QED BY <1>1, <1>2, <1>3, <1>4, <2>1, <2>2 DEF Fine, Proper, LeavesRest, Replacing
<1>5. CASE /\ q \subseteq r /\ k.status \in {"fail", "obsolete mappings"}
           /\ Runs(k) => k.phases = <<"unlock">>
  <2>1. g.alone /\ c # None => LeavesRest(k, q, c)
    BY <1>2, <1>3, <1>5 DEF LeavesRest, Remains, NotRolledBack
  <2> QED BY <1>1, <1>5, <2>1 DEF Fine, Proper, Replacing
<1> QED BY <1>4, <1>5

LEMMA ActivateFine ==
  ASSUME NEW j, NEW k, KeepsWork(k, j), NEW g, NEW r, NEW c, NEW q, j.command = "deploy", Fine(j, g, r, c), Runs(j),
         Chained(j.phases), Head(j.phases) = "activate",
         \/ k.status = j.status /\ (Runs(k) => Len(j.phases) # 1 /\ k.phases = Tail(j.phases))
         \/ /\ Runs(k) => k.phases = <<"unlock">>
            /\ \/ k.status = "fail"
               \/ k.status = "new mappings" /\ \E X \in SUBSET Added(j) : q = r \cup X
               \/ k.status = "obsolete mappings" /\ \E X \in SUBSET Obsolete(j) : q = r \cup (Obsolete(j) \ X)
  PROVE  Fine(k, g, q, c)
<1>1. k.calls = <<>> /\ k.command = "deploy" /\ j.status = "ok"
  <2>1. j.phases # <<"unlock">>
    BY HeadUnlock, Zenon
  <2> QED BY <2>1, Zenon DEF Fine, KeepsWork, Proper
<1>2. Replaces(k, c) = Replaces(j, c) /\ k.new = j.new /\ Obsolete(k) = Obsolete(j)
  BY SameWork DEF KeepsWork
<1>3. g.alone /\ c # None => Replaces(j, c) /\ r = Keys(c) \ Obsolete(j)
  BY <1>1 DEF Fine, Replacing
<1>4. CASE k.status = j.status /\ (Runs(k) => Len(j.phases) # 1 /\ k.phases = Tail(j.phases))
  <2>1. Runs(k) => Head(k.phases) \in {"migrate", "targets"}
    <3>1. CASE Len(j.phases) # 1 /\ k.phases = Tail(j.phases)
      <4>1. <<Head(j.phases), Head(k.phases)>> \in Follows
        BY <3>1, ChainGoesOn
      <4> QED BY <4>1 DEF Follows
    <3> QED BY <1>4, <3>1
  <2>2. k.status = "ok" /\ k.status \notin NotRolledBack
    BY <1>1, <1>4 DEF NotRolledBack
  <2> QED BY <1>1, <2>1, <2>2 DEF Fine, Proper, LeavesRest, Replacing
<1>5. CASE k.status = "fail" /\ (Runs(k) => k.phases = <<"unlock">>)
  BY <1>1, <1>5 DEF Fine, Proper, LeavesRest, Replacing, NotRolledBack
<1>6. PICK o, n, kept : o = Keys(c) /\ n = Keys(j.new) /\ kept = Obsolete(j)
  OBVIOUS
<1>7. g.alone /\ c # None =>
        /\ kept \subseteq o \ n \/ kept = {}
        /\ Added(j) \subseteq n /\ r = o \ kept
  <2>1. Replaces(j, c) => j.old = c
    BY DEF Replaces
  <2> QED BY <1>3, <1>6, <2>1, TransitionKeys
<1>8. ASSUME k.status = "new mappings", Runs(k) => k.phases = <<"unlock">>, NEW X \in SUBSET Added(j), q = r \cup X
      PROVE  Fine(k, g, q, c)
  <2>1. g.alone /\ c # None => o \cap n \subseteq q /\ q \subseteq o \cup n
    BY <1>7, <1>8
  <2>2. g.alone /\ c # None => LeavesRest(k, q, c)
    BY <1>2, <1>3, <1>6, <1>8, <2>1 DEF LeavesRest, Remains
  <2> QED BY <1>1, <1>8, <2>2 DEF Fine, Proper, Replacing
<1>9. ASSUME k.status = "obsolete mappings", Runs(k) => k.phases = <<"unlock">>,
             NEW X \in SUBSET Obsolete(j), q = r \cup (Obsolete(j) \ X)
      PROVE  Fine(k, g, q, c)
  <2>1. g.alone /\ c # None => q \subseteq o
    BY <1>6, <1>7, <1>9
  <2>2. g.alone /\ c # None => LeavesRest(k, q, c)
    BY <1>2, <1>3, <1>6, <1>9, <2>1 DEF LeavesRest, Remains
  <2> QED BY <1>1, <1>9, <2>2 DEF Fine, Proper, Replacing
<1> QED BY <1>4, <1>5, <1>8, <1>9

\* The transition that brings a configuration back.
LEMMA RestoringFine ==
  ASSUME NEW j, NEW k, KeepsWork(k, j), NEW g, NEW r, NEW c, NEW q, j.command = "activate", Fine(j, g, r, c), Runs(j),
         \/ /\ k.status = j.status
            /\ Runs(k) => /\ Len(j.phases) # 1 /\ k.phases = Tail(j.phases)
                          /\ Head(j.phases) = "deactivate" => q = r \ Obsolete(j)
         \/ k.status = "fail" /\ ~Runs(k)
         \/ k.status = j.status /\ ~Runs(k)
  PROVE  Fine(k, g, q, c)
<1>1. k.calls = <<>> /\ k.command = "activate" /\ j.status = "ok" /\ Proper(j)
  BY DEF Fine, KeepsWork, Proper
<1>2. k.status \notin NotRolledBack
  BY <1>1 DEF NotRolledBack
<1>3. CASE ~Runs(k)
  BY <1>1, <1>2, <1>3 DEF Fine
<1>4. ASSUME Runs(k)
      PROVE  Fine(k, g, q, c)
  <2>1. Len(j.phases) # 1 /\ k.phases = Tail(j.phases) /\ k.status = "ok"
    BY <1>1, <1>4
  <2>2. j.phases = <<"deactivate", "activate">>
    <3>1. Len(<<"activate">>) = 1
      OBVIOUS
    <3> QED BY <1>1, <2>1, <3>1 DEF Proper
  <2>3. k.phases = <<"activate">> /\ Head(j.phases) = "deactivate" /\ Head(k.phases) = "activate"
    BY <2>1, <2>2
  <2>4. q = r \ Obsolete(j)
    BY <1>1, <1>4, <2>3
  <2>5. Proper(k)
    BY <1>1, <2>1, <2>3, SameWork DEF Proper
  <2>6. ASSUME g.alone /\ c # None
        PROVE  Restoring(k, q, c)
    <3>1. Restoring(j, r, c)
      BY <2>6 DEF Fine
    <3>2. FromScratch(k) = FromScratch(j) /\ k.new = j.new /\ k.old = j.old
      BY SameWork DEF KeepsWork
    <3>3. Keys(j.new) = Keys(c) /\ Targets(j) = DOMAIN c.targets
      BY <3>1 DEF Restoring, Keys, Targets
    <3>4. PICK n, o, t : n = Keys(c) /\ o = Keys(j.old) /\ t = DOMAIN c.targets
      OBVIOUS
    <3>5. CASE FromScratch(j)
      BY <2>4, <3>1, <3>2, <3>5 DEF Restoring
    <3>6. CASE ~FromScratch(j)
      <4>1. Obsolete(j) = {key \in o \ n : key[1] \in t}
        BY <3>3, <3>4, <3>6, TransitionKeys
      <4>2. n \cap o \subseteq r /\ \A key \in r \ n : key \in o
        BY <3>1, <3>4, <3>6 DEF Restoring
      <4>3. n \cap o \subseteq q /\ \A key \in q \ n : key \in o /\ key[1] \notin t
        BY <2>4, <4>1, <4>2
      <4>4. k.new.service_mappings = c.service_mappings /\ k.new.targets = c.targets
        BY <3>1, <3>2 DEF Restoring
      <4> QED BY <3>2, <3>4, <3>6, <4>3, <4>4 DEF Restoring
    <3> QED BY <3>5, <3>6
  <2> QED BY <1>1, <1>4, <2>5, <2>6 DEF Fine
<1> QED BY <1>3, <1>4


-----------------------------------------------------------------------------
(* The steps of a user's own command. *)

LEMMA CurrentSame ==
  ASSUME links' = links
  PROVE  Current' = Current
  BY DEF Current, create_manifest, Resolve

LEMMA RunningGhost ==
  ASSUME DeployInv, NEW u \in User, Running(u), Step(u)
  PROVE  ghost'[u] = ghost[u]
<1>1. ~(Request(u) \/ FollowAdvice(u) \/ NextCall(u) \/ ForgetGenerations(u))
  BY DEF Request, FollowAdvice, NextCall, ForgetGenerations, Idle
<1>2. ASSUME NEW t \in Target, UnlockTarget(u, t)
      PROVE  ghost'[u] = ghost[u]
  <2>1. \/ ghost' = ghost
        \/ ghost' = [w \in User |-> IF w \notin {u} /\ lock[t] = w THEN [ghost[w] EXCEPT !.sound = FALSE, !.forced = TRUE]
                                   ELSE ghost[w]]
    BY <1>2 DEF UnlockTarget, Release
  <2> QED BY <2>1
<1>3. ASSUME ~\E t \in Target : UnlockTarget(u, t)
      PROVE  ghost'[u] = ghost[u]
  <2>1. Untouched \/ \E spared : Spoils(u, spared)
    BY <1>1, <1>3 DEF Step, Distribute, Deactivate, Activate, MigrateData, SetCoordinator, ConvertManifest, CompareManifest,
                Elsewhere, Crash, VisitNobody, LockTarget, SetTarget, CollectGarbage, CaptureTarget, Touches
  <2> QED BY <2>1, OwnGhost
<1> QED BY <1>2, <1>3

\* The end of a phase.
LEMMA PhaseWork ==
  ASSUME NEW u, NEW j, j = job[u], DOMAIN j = JobFields
  PROVE  /\ Succeeds(u) => \E k : /\ Set(u, k) /\ KeepsWork(k, j) /\ k.status = j.status
                                  /\ Runs(k) => Len(j.phases) # 1 /\ k.phases = Tail(j.phases)
         /\ \A status : Fails(u, status) =>
              \E k : /\ Set(u, k) /\ KeepsWork(k, j) /\ k.status = status
                     /\ Runs(k) => k.phases = <<"unlock">> /\ Last(j.phases) = "unlock"
<1>1. Succeeds(u) => \E k : /\ Set(u, k) /\ KeepsWork(k, j) /\ k.status = j.status
                            /\ Runs(k) => Len(j.phases) # 1 /\ k.phases = Tail(j.phases)
  BY WorkKept DEF Succeeds
<1>2. ASSUME NEW status, Fails(u, status)
      PROVE  \E k : /\ Set(u, k) /\ KeepsWork(k, j) /\ k.status = status
                    /\ Runs(k) => k.phases = <<"unlock">> /\ Last(j.phases) = "unlock"
  <2>1. PICK i, k : i = [j EXCEPT !.status = status] /\ k = Fail(i)
    OBVIOUS
  <2>2. KeepsWork(i, j) /\ i.status = status /\ i.phases = j.phases
    BY <2>1 DEF KeepsWork, JobFields
  <2>3. KeepsWork(k, i) /\ k.status = status /\ (Runs(k) => k.phases = <<"unlock">>)
    <3>1. DOMAIN i = JobFields
      BY <2>2 DEF KeepsWork
    <3>2. KeepsWork(k, i) /\ k.status = i.status /\ (Runs(k) => k.phases = <<"unlock">>)
      BY <2>1, <3>1, WorkKept
    <3> QED BY <2>2, <3>2
  <2>4. Last(j.phases) # "unlock" => k = Exit(i, "1")
    <3>1. PICK p : p = j.phases /\ i.phases = p
      BY <2>2
    <3> QED BY <2>1, <3>1 DEF Fail
  <2>5. Last(j.phases) # "unlock" => ~Runs(k)
    BY <2>2, <2>4, WorkKept DEF KeepsWork
  <2>6. KeepsWork(k, j)
    BY <2>2, <2>3 DEF KeepsWork
  <2>7. Set(u, k)
    BY <1>2, <2>1 DEF Fails
  <2> QED BY <2>3, <2>5, <2>6, <2>7
<1> QED BY <1>1, <1>2

\* The phases that visit targets.
QuietEnd(k, j) ==
    /\ KeepsWork(k, j) /\ k.status = j.status
    /\ Runs(k) => \/ k.phases \in {j.phases, <<"unlock">>}
                  \/ Len(j.phases) # 1 /\ k.phases = Tail(j.phases)

LEMMA QuietEnds ==
  ASSUME NEW j, NEW i, KeepsWork(i, j), i.status = j.status, i.phases = j.phases
  PROVE  /\ QuietEnd(i, j) /\ QuietEnd(EndVisits(i), j) /\ QuietEnd(AfterLocking(i), j)
         /\ \A status : QuietEnd(Exit(i, status), j)
<1>1. /\ KeepsWork(Succeed(i), i) /\ Succeed(i).status = i.status
      /\ Runs(Succeed(i)) => Len(i.phases) # 1 /\ Succeed(i).phases = Tail(i.phases)
      /\ KeepsWork(Fail(i), i) /\ Fail(i).status = i.status /\ (Runs(Fail(i)) => Fail(i).phases = <<"unlock">>)
      /\ \A status : KeepsWork(Exit(i, status), i) /\ Exit(i, status).status = i.status /\ ~Runs(Exit(i, status))
  BY WorkKept DEF KeepsWork
<1>2. ASSUME NEW k, KeepsWork(k, i)
      PROVE  KeepsWork(k, j)
  BY <1>2 DEF KeepsWork
<1>3. QuietEnd(i, j) /\ QuietEnd(Succeed(i), j) /\ QuietEnd(Fail(i), j) /\ \A status : QuietEnd(Exit(i, status), j)
  BY <1>1, <1>2 DEF QuietEnd
<1>4. PICK k : k = [i EXCEPT !.phases = <<"unlock">>, !.todo = i.acquired]
  OBVIOUS
<1>5. KeepsWork(k, j) /\ k.status = j.status /\ k.phases = <<"unlock">>
  BY <1>4 DEF KeepsWork, JobFields
<1>6. QuietEnd(k, j)
  BY <1>5 DEF QuietEnd
<1> QED BY <1>3, <1>4, <1>6 DEF EndVisits, AfterLocking

LEMMA QuietStep ==
  ASSUME NEW u, NEW j, j = job[u], DOMAIN j = JobFields, j.calls = <<>>,
         \/ VisitNobody(u) \/ Crash(u)
         \/ \E t \in Target : LockTarget(u, t) \/ UnlockTarget(u, t) \/ SetTarget(u, t)
  PROVE  \E k : Set(u, k) /\ QuietEnd(k, j)
<1>1. KeepsWork(j, j)
  BY DEF KeepsWork
<1>2. CASE VisitNobody(u)
  BY <1>1, <1>2, QuietEnds DEF VisitNobody
<1>3. CASE Crash(u)
  <2>1. PICK e, k : e = Exit(j, "crashed") /\ k = [e EXCEPT !.calls = <<>>]
    OBVIOUS
  <2>2. KeepsWork(e, j) /\ e.status = j.status /\ ~Runs(e)
    BY <2>1, WorkKept
  <2>3. KeepsWork(k, j) /\ k.status = j.status /\ ~Runs(k)
    BY <2>1, <2>2 DEF KeepsWork, JobFields, Runs
  <2>4. Set(u, k)
    BY <1>3, <2>1 DEF Crash
  <2> QED BY <2>3, <2>4 DEF QuietEnd
<1>4. ASSUME NEW i, KeepsWork(i, j), i.status = j.status, i.phases = j.phases, NEW t, NEW ok, Set(u, Visited(i, t, ok))
      PROVE  \E k : Set(u, k) /\ QuietEnd(k, j)
  <2>1. PICK k : k = [i EXCEPT !.todo = @ \ {t}, !.ok = @ /\ ok]
    OBVIOUS
  <2>2. KeepsWork(k, j) /\ k.status = j.status /\ k.phases = j.phases
    BY <1>4, <2>1 DEF KeepsWork, JobFields
  <2>3. Set(u, k) \/ Set(u, EndVisits(k))
    BY <1>4, <2>1 DEF Visited
  <2> QED BY <2>2, <2>3, QuietEnds
<1>5. ASSUME NEW t \in Target, LockTarget(u, t)
      PROVE  \E k : Set(u, k) /\ QuietEnd(k, j)
  <2>1. PICK k : Asks(u, t, k) /\ Set(u, AfterLocking(k))
    BY <1>5, LockOutcomes
  <2>2. KeepsWork(k, j) /\ k.status = j.status /\ k.phases = j.phases
    BY <2>1 DEF Asks, KeepsWork, JobFields
  <2> QED BY <2>1, <2>2, QuietEnds
<1>6. ASSUME NEW t \in Target, UnlockTarget(u, t)
      PROVE  \E k : Set(u, k) /\ QuietEnd(k, j)
  <2>1. PICK i : i = [j EXCEPT !.astray = @ \cup {t}]
    OBVIOUS
  <2>2. KeepsWork(i, j) /\ i.status = j.status /\ i.phases = j.phases
    BY <2>1 DEF KeepsWork, JobFields
  <2>3. Set(u, Visited(j, t, TRUE)) \/ Set(u, Visited(j, t, FALSE)) \/ Set(u, Visited(i, t, FALSE))
    BY <1>6, <2>1 DEF UnlockTarget
  <2> QED BY <1>1, <1>4, <2>2, <2>3
<1>7. ASSUME NEW t \in Target, SetTarget(u, t)
      PROVE  \E k : Set(u, k) /\ QuietEnd(k, j)
  <2>1. Set(u, Visited(j, t, TRUE)) \/ Set(u, Visited(j, t, FALSE))
    BY <1>7 DEF SetTarget
  <2> QED BY <1>1, <1>4, <2>1
<1> QED BY <1>2, <1>3, <1>5, <1>6, <1>7


\* The job of a user whose deployment was sound.
LEMMA FineNow ==
  ASSUME DeployInv, RestoreInv, NEW u \in User, Running(u), ghost[u].sound
  PROVE  /\ Fine(job[u], ghost[u], running, Current) /\ Runs(job[u]) /\ DOMAIN job[u] = JobFields
         /\ job[u].calls = <<>> /\ Proper(job[u])
<1>1. Runs(job[u]) /\ DOMAIN job[u] = JobFields /\ RestoreOK(job[u], advice[u], ghost[u], running, Current)
  BY DEF DeployInv, UserOK, Running, Runs, RestoreInv
<1>2. job[u].calls = <<>> /\ Proper(job[u])
  BY <1>1 DEF RestoreOK
<1>3. ghost[u].alone /\ Current # None /\ job[u].command = "deploy" => Replacing(job[u], running, Current)
  BY <1>1 DEF RestoreOK
<1>4. ghost[u].alone /\ Current # None /\ job[u].command = "activate" => Restoring(job[u], running, Current)
  BY <1>1 DEF RestoreOK
<1> QED BY <1>1, <1>2, <1>3, <1>4 DEF Fine, Replacing

LEMMA DeploymentRestores ==
  ASSUME DeployInv, PlanInv, RestoreInv, NEW u \in User, Running(u), Step(u), ghost[u].sound, job[u].command = "deploy"
  PROVE  \E k : Set(u, k) /\ k.command = "deploy" /\ Fine(k, ghost[u], running', Current')
<1> DEFINE j == job[u]
           h == Head(job[u].phases)
<1>1. /\ DOMAIN j = JobFields /\ Runs(j) /\ ~Dry(j) /\ Chained(j.phases) /\ h \in DeployPhase
      /\ j.calls = <<>> /\ Fine(j, ghost[u], running, Current)
  BY DeploymentNow, FineNow
<1>2. PICK g, r, c, q, d : g = ghost[u] /\ r = running /\ c = Current /\ q = running' /\ d = Current'
  OBVIOUS
<1>3. Fine(j, g, r, c)
  BY <1>1, <1>2
<1>4. Succeeds(u) => \E k : /\ Set(u, k) /\ KeepsWork(k, j) /\ k.status = j.status
                            /\ Runs(k) => Len(j.phases) # 1 /\ k.phases = Tail(j.phases)
  BY <1>1, PhaseWork
<1>5. \A status : Fails(u, status) =>
        \E k : /\ Set(u, k) /\ KeepsWork(k, j) /\ k.status = status
               /\ Runs(k) => k.phases = <<"unlock">> /\ Last(j.phases) = "unlock"
  BY <1>1, PhaseWork
<1>6. \A k : KeepsWork(k, j) => k.command = "deploy"
  BY DEF KeepsWork
<1>7. ASSUME h \notin {"deactivate", "activate"}, q = r, d = c,
             \/ \E k : Set(u, k) /\ QuietEnd(k, j)
             \/ Succeeds(u) \/ Fails(u, "fail") \/ Fails(u, "state")
      PROVE  \E k : Set(u, k) /\ k.command = "deploy" /\ Fine(k, g, q, d)
  <2>1. PICK k : /\ Set(u, k) /\ KeepsWork(k, j)
                 /\ \/ k.status \in {"fail", "state"} /\ (Runs(k) => k.phases = <<"unlock">>)
                    \/ /\ k.status = j.status
                       /\ Runs(k) => \/ k.phases \in {j.phases, <<"unlock">>}
                                     \/ Len(j.phases) # 1 /\ k.phases = Tail(j.phases)
    <3>1. CASE \E k : Set(u, k) /\ QuietEnd(k, j)
      BY <3>1 DEF QuietEnd
    <3>2. CASE Succeeds(u)
      BY <1>4, <3>2
    <3>3. CASE Fails(u, "fail") \/ Fails(u, "state")
      BY <1>5, <3>3
    <3> QED BY <1>7, <3>1, <3>2, <3>3
  <2>2. \/ k.status \notin {"ok"} \cup NotRolledBack /\ (Runs(k) => k.phases = <<"unlock">>)
        \/ /\ k.status = j.status
           /\ Runs(k) => \/ k.phases \in {j.phases, <<"unlock">>}
                         \/ Len(j.phases) # 1 /\ k.phases = Tail(j.phases)
    BY <2>1 DEF NotRolledBack
  <2>3. Fine(k, g, r, c)
    <3> HIDE DEF j
    <3> QED BY <1>1, <1>3, <1>6, <1>7, <2>1, <2>2, OtherPhaseFine DEF j
  <2> QED BY <1>6, <1>7, <2>1, <2>3
<1>8. ~\E t \in Target : CollectGarbage(u, t) \/ CaptureTarget(u, t)
  BY <1>1 DEF CollectGarbage, CaptureTarget, At, DeployPhase
<1>9. ~(ConvertManifest(u) \/ CompareManifest(u) \/ Elsewhere(u))
  BY <1>1 DEF ConvertManifest, CompareManifest, Elsewhere, At, DeployPhase
<1>10. ~(Request(u) \/ FollowAdvice(u) \/ NextCall(u) \/ ForgetGenerations(u))
  BY DEF Request, FollowAdvice, NextCall, ForgetGenerations, Idle
<1>11. CASE Distribute(u) \/ MigrateData(u)
  <2>1. h \notin {"deactivate", "activate"} /\ running' = running /\ links' = links
    BY <1>11 DEF Distribute, MigrateData, At, world
  <2>2. Succeeds(u) \/ Fails(u, "fail") \/ Fails(u, "state")
    BY <1>11 DEF Distribute, MigrateData
  <2> QED BY <1>2, <1>7, <2>1, <2>2, CurrentSame
<1>12. CASE \/ VisitNobody(u)
            \/ \E t \in Target : LockTarget(u, t) \/ UnlockTarget(u, t) \/ SetTarget(u, t)
  <2>1. h \notin {"deactivate", "activate"} /\ running' = running /\ links' = links
    BY <1>12 DEF VisitNobody, LockTarget, UnlockTarget, SetTarget, At, world
  <2>2. \E k : Set(u, k) /\ QuietEnd(k, j)
    BY <1>1, <1>12, QuietStep
  <2> QED BY <1>2, <1>7, <2>1, <2>2, CurrentSame
<1>13. CASE Crash(u)
  <2>1. running' = running /\ links' = links
    BY <1>13 DEF Crash, world
  <2>2. PICK e, k : e = Exit(j, "crashed") /\ k = [e EXCEPT !.calls = <<>>]
    OBVIOUS
  <2>3. KeepsWork(e, j) /\ e.status = j.status /\ ~Runs(e)
    BY <1>1, <2>2, WorkKept
  <2>4. KeepsWork(k, j) /\ k.status = j.status /\ ~Runs(k)
    BY <1>1, <2>2, <2>3 DEF KeepsWork, JobFields, Runs
  <2>5. k.command = "deploy" /\ Replaces(k, c) = Replaces(j, c) /\ k.new = j.new /\ k.calls = j.calls
    BY <2>4, SameWork DEF KeepsWork
  <2>6. Fine(k, g, r, c)
    BY <1>3, <2>4, <2>5 DEF Fine, LeavesRest
  <2>7. Set(u, k)
    BY <1>13, <2>2 DEF Crash
  <2> QED BY <1>2, <2>1, <2>5, <2>6, <2>7, CurrentSame
<1>14. CASE SetCoordinator(u)
  <2>1. h = "coordinator" /\ running' = running /\ (Succeeds(u) \/ Fails(u, "fail"))
    BY <1>14 DEF SetCoordinator, At
  <2>2. PICK k : /\ Set(u, k) /\ KeepsWork(k, j)
                 /\ \/ k.status = "fail" /\ (Runs(k) => k.phases = <<"unlock">>)
                    \/ k.status = j.status /\ (Runs(k) => Len(j.phases) # 1 /\ k.phases = Tail(j.phases))
    BY <1>4, <1>5, <2>1
  <2>3. Fine(k, g, r, d)
    <3> HIDE DEF j
    <3> QED BY <1>1, <1>3, <2>1, <2>2, CoordinatorFine DEF j
  <2> QED BY <1>2, <1>6, <2>1, <2>2, <2>3
<1>15. CASE Deactivate(u)
  <2>1. h = "deactivate" /\ links' = links
    BY <1>15 DEF Deactivate, At
  <2>2. PICK k : /\ Set(u, k) /\ KeepsWork(k, j)
                 /\ \/ /\ q = r \ Obsolete(j) /\ k.status = j.status
                       /\ Runs(k) => Len(j.phases) # 1 /\ k.phases = Tail(j.phases)
                    \/ /\ q \subseteq r /\ k.status \in {"fail", "obsolete mappings"}
                       /\ Runs(k) => k.phases = <<"unlock">>
    <3>1. \/ q = r \ Obsolete(j) /\ Succeeds(u)
          \/ q \subseteq r /\ \E status \in {"fail", "obsolete mappings"} : Fails(u, status)
      BY <1>1, <1>2, <1>15 DEF Deactivate
    <3> QED BY <1>4, <1>5, <3>1
  <2>3. Fine(k, g, q, c)
    <3> HIDE DEF j
    <3> QED BY <1>1, <1>3, <2>1, <2>2, DeactivateFine DEF j
  <2> QED BY <1>2, <1>6, <2>1, <2>2, <2>3, CurrentSame
<1>16. CASE Activate(u)
  <2>1. h = "activate" /\ links' = links
    BY <1>16 DEF Activate, At
  <2>2. \/ Succeeds(u)
        \/ Fails(u, "fail")
        \/ Fails(u, "new mappings") /\ \E X \in SUBSET Added(j) : q = r \cup X
        \/ Fails(u, "obsolete mappings") /\ \E X \in SUBSET Obsolete(j) : q = r \cup (Obsolete(j) \ X)
    <3>1. \/ Succeeds(u)
          \/ \E X \in SUBSET Added(j) :
               /\ running' = IF X = {} /\ RollsBack(j) THEN running \cup Obsolete(j) ELSE running \cup X
               /\ Fails(u, IF X = {} \/ ~RollsBack(j) THEN "fail" ELSE "new mappings")
          \/ /\ \E X \in SUBSET Obsolete(j) \ {{}} : running' = running \cup (Obsolete(j) \ X)
             /\ Fails(u, "obsolete mappings")
      BY <1>1, <1>16 DEF Activate
    <3>2. ASSUME NEW X \in SUBSET Added(j),
                 running' = IF X = {} /\ RollsBack(j) THEN running \cup Obsolete(j) ELSE running \cup X,
                 Fails(u, IF X = {} \/ ~RollsBack(j) THEN "fail" ELSE "new mappings")
          PROVE  Fails(u, "fail") \/ (Fails(u, "new mappings") /\ q = r \cup X)
      BY <1>2, <3>2
    <3> QED BY <1>2, <3>1, <3>2
  <2>3. PICK k : /\ Set(u, k) /\ KeepsWork(k, j)
                 /\ \/ k.status = j.status /\ (Runs(k) => Len(j.phases) # 1 /\ k.phases = Tail(j.phases))
                    \/ /\ Runs(k) => k.phases = <<"unlock">>
                       /\ \/ k.status = "fail"
                          \/ k.status = "new mappings" /\ \E X \in SUBSET Added(j) : q = r \cup X
                          \/ k.status = "obsolete mappings" /\ \E X \in SUBSET Obsolete(j) : q = r \cup (Obsolete(j) \ X)
    BY <1>4, <1>5, <2>2
  <2>4. Fine(k, g, q, c)
    <3> HIDE DEF j
    <3> QED BY <1>1, <1>3, <2>1, <2>3, ActivateFine DEF j
  <2> QED BY <1>2, <1>6, <2>1, <2>3, <2>4, CurrentSame
<1> QED BY <1>8, <1>9, <1>10, <1>11, <1>12, <1>13, <1>14, <1>15, <1>16 DEF Step

LEMMA RestoringPhases ==
  ASSUME NEW phases, phases \in {<<"deactivate", "activate">>, <<"activate">>}
  PROVE  Head(phases) \in {"deactivate", "activate"} /\ phases[Len(phases)] = "activate"
  OBVIOUS

LEMMA RestorationRestores ==
  ASSUME DeployInv, RestoreInv, NEW u \in User, Running(u), Step(u), ghost[u].sound, job[u].command = "activate"
  PROVE  \E k : Set(u, k) /\ k.command = "activate" /\ Fine(k, ghost[u], running', Current')
<1> DEFINE j == job[u]
<1>1. /\ DOMAIN j = JobFields /\ Runs(j) /\ j.calls = <<>> /\ Fine(j, ghost[u], running, Current)
      /\ ~Dry(j) /\ ~RollsBack(j) /\ j.phases \in {<<"deactivate", "activate">>, <<"activate">>}
  <2>1. /\ DOMAIN j = JobFields /\ Runs(j) /\ j.calls = <<>> /\ Fine(j, ghost[u], running, Current)
        /\ Proper(j) /\ j.command # "deploy"
    BY FineNow
  <2> HIDE DEF j
  <2> QED BY <2>1 DEF Proper
<1>2. PICK g, r, c, q : g = ghost[u] /\ r = running /\ c = Current /\ q = running'
  OBVIOUS
<1>3. Fine(j, g, r, c)
  BY <1>1, <1>2
<1>4. Head(j.phases) \in {"deactivate", "activate"} /\ Last(j.phases) = "activate"
  <2>1. PICK phases : phases = j.phases
    OBVIOUS
  <2>2. Head(phases) \in {"deactivate", "activate"} /\ phases[Len(phases)] = "activate"
    BY <1>1, <2>1, RestoringPhases
  <2> QED BY <2>1, <2>2, Zenon DEF Last
<1>5. Deactivate(u) \/ Activate(u) \/ Crash(u)
  <2>1. ~(Request(u) \/ FollowAdvice(u) \/ NextCall(u) \/ ForgetGenerations(u))
    BY DEF Request, FollowAdvice, NextCall, ForgetGenerations, Idle
  <2> QED BY <1>4, <2>1 DEF Step, At, Distribute, MigrateData, SetCoordinator, ConvertManifest, CompareManifest, Elsewhere,
                VisitNobody, LockTarget, UnlockTarget, SetTarget, CollectGarbage, CaptureTarget
<1>6. links' = links
  BY <1>5 DEF Deactivate, Activate, Crash, world
<1>7. PICK k : /\ Set(u, k) /\ KeepsWork(k, j)
               /\ \/ /\ k.status = j.status
                     /\ Runs(k) => /\ Len(j.phases) # 1 /\ k.phases = Tail(j.phases)
                                   /\ Head(j.phases) = "deactivate" => q = r \ Obsolete(j)
                  \/ k.status = "fail" /\ ~Runs(k)
                  \/ k.status = j.status /\ ~Runs(k)
  <2>1. Succeeds(u) => \E k : /\ Set(u, k) /\ KeepsWork(k, j) /\ k.status = j.status
                              /\ Runs(k) => Len(j.phases) # 1 /\ k.phases = Tail(j.phases)
    BY <1>1, PhaseWork
  <2>2. Fails(u, "fail") => \E k : Set(u, k) /\ KeepsWork(k, j) /\ k.status = "fail" /\ ~Runs(k)
    BY <1>1, <1>4, PhaseWork
  <2>3. CASE Deactivate(u)
    <3>1. (Succeeds(u) /\ q = r \ Obsolete(j)) \/ Fails(u, "fail")
      BY <1>1, <1>2, <2>3 DEF Deactivate
    <3> QED BY <2>1, <2>2, <3>1
  <2>4. CASE Activate(u)
    <3>1. Head(j.phases) = "activate" /\ (Succeeds(u) \/ Fails(u, "fail"))
      BY <1>1, <2>4 DEF Activate, At
    <3> QED BY <2>1, <2>2, <3>1
  <2>5. CASE Crash(u)
    <3>1. PICK e, k : e = Exit(j, "crashed") /\ k = [e EXCEPT !.calls = <<>>]
      OBVIOUS
    <3>2. KeepsWork(e, j) /\ e.status = j.status /\ ~Runs(e)
      BY <1>1, <3>1, WorkKept
    <3>3. KeepsWork(k, j) /\ k.status = j.status /\ ~Runs(k)
      BY <1>1, <3>1, <3>2 DEF KeepsWork, JobFields, Runs
    <3>4. Set(u, k)
      BY <2>5, <3>1 DEF Crash
    <3> QED BY <3>3, <3>4
  <2> QED BY <1>5, <2>3, <2>4, <2>5
<1>8. Fine(k, g, q, c)
  <2> HIDE DEF j
  <2> QED BY <1>1, <1>3, <1>7, RestoringFine DEF j
<1>9. k.command = "activate"
  BY <1>7 DEF KeepsWork
<1> QED BY <1>2, <1>6, <1>7, <1>8, <1>9, CurrentSame

LEMMA OwnRestores ==
  ASSUME DeployInv, PlanInv, RestoreInv, NEW u \in User, Running(u), Step(u)
  PROVE  RestoreOK(job'[u], advice'[u], ghost'[u], running', Current')
<1>1. ghost'[u] = ghost[u]
  BY RunningGhost
<1>2. CASE ~ghost[u].sound
  <2>1. PICK k : Set(u, k) /\ k.command = job[u].command
    BY StepKeepsLine DEF KeepsLine
  <2> QED BY <1>1, <1>2, <2>1, SetRestores
<1>3. CASE ghost[u].sound
  <2>1. job[u].command \in {"deploy", "activate"}
    BY <1>3, FineNow DEF Proper
  <2>2. PICK k : Set(u, k) /\ k.command = job[u].command /\ Fine(k, ghost[u], running', Current')
    BY <1>3, <2>1, DeploymentRestores, RestorationRestores
  <2> QED BY <1>1, <2>2, SetRestores
<1> QED BY <1>2, <1>3


-----------------------------------------------------------------------------
(* The steps of others, and those that begin a command.                    *)

LEMMA RestoreKept ==
  ASSUME NEW j, NEW told, NEW g, NEW r, NEW c, RestoreOK(j, told, g, r, c),
         NEW h, NEW q, NEW d, h.sound => g.sound,
         h.sound /\ h.alone /\ d # None => g.alone /\ q = r /\ d = c
  PROVE  RestoreOK(j, told, h, q, d)
<1>1. CASE ~h.sound
  BY <1>1 DEF RestoreOK
<1>2. ASSUME h.sound
      PROVE  /\ Gentle(told) /\ j.calls = <<>> /\ (Runs(j) => told = <<>> /\ Proper(j))
             /\ h.alone /\ d # None =>
                  /\ Runs(j) /\ j.command = "deploy" => Replacing(j, q, d)
                  /\ Runs(j) /\ j.command = "activate" => Restoring(j, q, d)
                  /\ TellsActivate(told) => Restorable(Head(told), q, d)
  BY <1>2 DEF RestoreOK
<1> QED BY <1>2 DEF RestoreOK

\* The coordinator's profile goes, and with it what describes the system.
LEMMA CurrentForgotten ==
  ASSUME links' = <<>>
  PROVE  Current' = None
  BY DEF Current, create_manifest, Resolve

\* Who changes what is active or what is deployed last, does so to everybody.
LEMMA NotAlone ==
  ASSUME DeployInv, NEW u \in User, NEW v \in User, u # v, Step(v), ghost'[u].alone
  PROVE  ghost[u].alone /\ running' = running /\ (links' = links \/ links' = <<>>)
<1>1. /\ DOMAIN ghost = User /\ DOMAIN ghost[u] = GhostFields
  BY DEF DeployInv
<1>2. ASSUME NEW spared, Spoils(v, spared)
      PROVE  FALSE
  <2>1. ghost'[u] = [ghost[u] EXCEPT !.sound = @ /\ u \in spared, !.alone = FALSE]
    BY <1>2 DEF Spoils
  <2>2. PICK g, s : g = ghost[u] /\ s = (g.sound /\ u \in spared)
    OBVIOUS
  <2>3. [g EXCEPT !.sound = s, !.alone = FALSE].alone = FALSE
    BY <1>1, <2>2 DEF GhostFields
  <2> QED BY <2>1, <2>2, <2>3
<1>3. CASE Deactivate(v) \/ Activate(v) \/ SetCoordinator(v) \/ \E t \in Target : SetTarget(v, t)
  BY <1>2, <1>3 DEF Deactivate, Activate, SetCoordinator, SetTarget, Touches
<1>4. ASSUME NEW t \in Target, UnlockTarget(v, t)
      PROVE  ghost[u].alone /\ running' = running /\ links' = links
  <2>1. \/ ghost' = ghost
        \/ ghost' = [w \in User |-> IF w \notin {v} /\ lock[t] = w THEN [ghost[w] EXCEPT !.sound = FALSE, !.forced = TRUE]
                                   ELSE ghost[w]]
    BY <1>4 DEF UnlockTarget, Release
  <2>2. ghost'[u] \in {ghost[u], [ghost[u] EXCEPT !.sound = FALSE, !.forced = TRUE]}
    BY <2>1
  <2>3. ghost[u].alone
    BY <1>1, <2>2 DEF GhostFields
  <2> QED BY <1>4, <2>3 DEF UnlockTarget
<1>5. CASE Request(v) \/ FollowAdvice(v)
  <2>1. \E g : ghost' = [ghost EXCEPT ![v] = g]
    <3>1. CASE Request(v)
      BY <3>1 DEF Request, Begins
    <3>2. CASE FollowAdvice(v)
      BY <3>2 DEF FollowAdvice
    <3> QED BY <1>5, <3>1, <3>2
  <2>2. ghost'[u] = ghost[u]
    BY <2>1
  <2> QED BY <1>5, <2>2 DEF Request, Begins, FollowAdvice, world
<1>6. CASE ForgetGenerations(v)
  BY <1>6 DEF ForgetGenerations
<1>7. CASE \/ NextCall(v) \/ Distribute(v) \/ MigrateData(v)
           \/ ConvertManifest(v) \/ CompareManifest(v) \/ Elsewhere(v) \/ Crash(v) \/ VisitNobody(v)
           \/ \E t \in Target : LockTarget(v, t) \/ CollectGarbage(v, t) \/ CaptureTarget(v, t)
  BY <1>7 DEF NextCall, Distribute, MigrateData, ConvertManifest, CompareManifest, Elsewhere, Crash, VisitNobody,
              LockTarget, CollectGarbage, CaptureTarget, Untouched, world
<1> QED BY <1>3, <1>4, <1>5, <1>6, <1>7 DEF Step

LEMMA OthersAdvice ==
  ASSUME NEW u, NEW v, u # v, Step(v)
  PROVE  advice'[u] = advice[u]
<1>1. ASSUME NEW told, advice' = [advice EXCEPT ![v] = told]
      PROVE  advice'[u] = advice[u]
  BY <1>1
<1>2. ASSUME NEW j, Set(v, j)
      PROVE  advice'[u] = advice[u]
  BY <1>1, <1>2 DEF Set
<1>3. CASE Request(v)
  BY <1>1, <1>3 DEF Request, Begins
<1>4. CASE ForgetGenerations(v)
  BY <1>4 DEF ForgetGenerations
<1>5. CASE FollowAdvice(v)
  BY <1>1, <1>5 DEF FollowAdvice
<1>6. CASE NextCall(v) \/ Distribute(v) \/ Deactivate(v) \/ Activate(v) \/ MigrateData(v) \/ SetCoordinator(v)
  BY <1>2, <1>6 DEF NextCall, Distribute, Deactivate, Activate, MigrateData, SetCoordinator, Succeeds, Fails
<1>7. CASE ConvertManifest(v) \/ CompareManifest(v) \/ Elsewhere(v) \/ Crash(v) \/ VisitNobody(v)
  <2>1. \E j : Set(v, j)
    BY <1>7 DEF ConvertManifest, CompareManifest, Elsewhere, Crash, VisitNobody
  <2> QED BY <1>2, <2>1
<1>8. ASSUME NEW t \in Target,
             \/ LockTarget(v, t) \/ UnlockTarget(v, t) \/ SetTarget(v, t) \/ CollectGarbage(v, t)
             \/ CaptureTarget(v, t)
      PROVE  advice'[u] = advice[u]
  <2>1. \E j : Set(v, j)
    BY <1>8 DEF LockTarget, UnlockTarget, SetTarget, CollectGarbage, CaptureTarget
  <2> QED BY <1>2, <2>1
<1> QED BY <1>3, <1>4, <1>5, <1>6, <1>7, <1>8 DEF Step

LEMMA OthersRestores ==
  ASSUME DeployInv, PlanInv, RestoreInv, NEW u \in User, NEW v \in User, u # v, Step(v)
  PROVE  RestoreOK(job'[u], advice'[u], ghost'[u], running', Current')
<1>1. job'[u] = job[u] /\ advice'[u] = advice[u]
  BY OthersKeepTheirJob, OthersAdvice
<1>2. ghost'[u].sound => ghost[u].sound
  BY NotSounder
<1>3. ghost'[u].alone /\ Current' # None => ghost[u].alone /\ running' = running /\ Current' = Current
  BY NotAlone, CurrentSame, CurrentForgotten
<1>4. RestoreOK(job[u], advice[u], ghost[u], running, Current)
  BY DEF RestoreInv
<1>5. PICK j, told, g, r, c, h, q, d : /\ j = job[u] /\ told = advice[u] /\ g = ghost[u] /\ r = running /\ c = Current
                                       /\ h = ghost'[u] /\ q = running' /\ d = Current'
  OBVIOUS
<1>6. RestoreOK(j, told, h, q, d)
  BY <1>2, <1>3, <1>4, <1>5, RestoreKept
<1> QED BY <1>1, <1>5, <1>6


\* What a deployment or a transition that begins works on.
LEMMA OpenWorks ==
  ASSUME NEW command \in {"deploy", "activate"}, NEW args, NEW file, NEW env, NEW asked, NEW calls,
         NEW j, j = Open(command, args, file, env, asked, calls), Runs(j)
  PROVE  LET given == Given(args, "old-manifest")
         IN  /\ j.command = command /\ j.args = args /\ j.status = "ok" /\ j.calls = calls
             /\ j.phases = Phases(command, args) /\ Well(j.new)
             /\ j.file = Resolve(file) /\ j.new = create_manifest(file, Parts(command))
             /\ j.oldFile = IF given # None THEN given ELSE IF links = <<>> THEN None ELSE Link
             /\ j.old = create_manifest(j.oldFile, PreviousParts(command))
<1>1. j.command = command /\ j.calls = calls /\ j.phases = Phases(command, args) /\ Well(j.new)
  BY OpenJob
<1>2. command \notin OpensPrevious
  BY DEF OpensPrevious
<1>3. \A phases, i : LET k == Enter(i, phases)
                     IN  DOMAIN i = JobFields =>
                           /\ k.args = i.args /\ k.status = i.status /\ k.file = i.file /\ k.new = i.new
                           /\ k.oldFile = i.oldFile /\ k.old = i.old
  BY DEF Enter, JobFields
<1>4. \A status, i : DOMAIN i = JobFields => ~Runs(Exit(i, status))
  BY WorkKept
<1>5. PICK given, oldFile, parsed, new, old, phases :
        /\ given = Given(args, "old-manifest")
        /\ oldFile = IF given # None THEN given ELSE IF links = <<>> THEN None ELSE Link
        /\ parsed = Parse(command, args, IF file = None THEN 0 ELSE 1)
        /\ new = IF parsed = "runs" THEN Opened(command, file, args, env) ELSE None
        /\ old = IF parsed = "runs" THEN OpenedPrevious(command, oldFile, args) ELSE None
        /\ phases = Phases(command, args)
  OBVIOUS
<1>6. PICK i : i = [command |-> command, args |-> args, env |-> env, asked |-> asked, calls |-> calls,
              parsed |-> parsed, file |-> Resolve(file), new |-> new,
              oldFile |-> oldFile, old |-> old, status |-> "ok",
              phases |-> phases, todo |-> {}, acquired |-> {}, ok |-> TRUE,
              profiles |-> NoTable, astray |-> {}, exit |-> "none"]
  OBVIOUS
<1>7. /\ DOMAIN i = JobFields /\ i.args = args /\ i.status = "ok" /\ i.file = Resolve(file) /\ i.new = new
      /\ i.oldFile = oldFile /\ i.old = old
  BY <1>6 DEF JobFields
<1>8. (\E status : j = Exit(i, status)) \/ j = Enter(i, phases)
  BY <1>2, <1>5, <1>6 DEF Open
<1>9. j = Enter(i, phases)
  BY <1>4, <1>7, <1>8
<1>10. j.args = args /\ j.status = "ok" /\ j.file = Resolve(file) /\ j.new = new /\ j.oldFile = oldFile /\ j.old = old
  BY <1>3, <1>7, <1>9
<1>11. new # None
  BY <1>1, <1>10 DEF Well
<1>12. parsed = "runs"
  BY <1>5, <1>11
<1>13. new = create_manifest(file, Parts(command))
  BY <1>5, <1>12 DEF Opened
<1>14. old = create_manifest(oldFile, PreviousParts(command))
  BY <1>5, <1>12 DEF OpenedPrevious
<1> QED BY <1>1, <1>5, <1>10, <1>13, <1>14

\* A deployment is the only call of its script.
LEMMA DeploysLast ==
  ASSUME NEW r, Calls(r) # <<>>, Head(Calls(r)).command = "deploy"
  PROVE  Tail(Calls(r)) = <<>>
<1>1. ASSUME NEW a
      PROVE  Tail(<<a>>) = <<>>
  OBVIOUS
<1>2. ASSUME NEW a, NEW b
      PROVE  Head(<<a, b>>) = a
  OBVIOUS
<1>3. ASSUME NEW a, NEW b, NEW c
      PROVE  Head(<<a, b, c>>) = a
  OBVIOUS
<1>4. ASSUME NEW command, NEW args
      PROVE  Call(command, args).command = command
  BY DEF Call
<1>5. CASE r.script = "disnix-env"
  BY <1>1, <1>5 DEF Calls, disnix_env, Script
<1>6. CASE r.script = "disnix-reconstruct"
  BY <1>3, <1>4, <1>6 DEF Calls, disnix_reconstruct, Script
<1>7. CASE r.script = "disnix-convert"
  BY <1>2, <1>4, <1>7 DEF Calls, disnix_convert, Script
<1>8. CASE r.script = "disnix-delegate"
  BY <1>1, <1>8 DEF Calls, disnix_delegate, Script
<1>9. CASE r.script \notin {"disnix-env", "disnix-reconstruct", "disnix-convert", "disnix-delegate"}
  BY <1>1, <1>9 DEF Calls
<1> QED BY <1>5, <1>6, <1>7, <1>8, <1>9

\* The first phase of a deployment and of a transition.
LEMMA FirstPhase ==
  ASSUME NEW args
  PROVE  /\ Head(Phases("deploy", args)) = "distribute"
         /\ Phases("activate", args) = <<"deactivate", "activate">>
<1>1. Phases("activate", args) = <<"deactivate", "activate">>
  BY Zenon DEF Phases
<1> QED BY <1>1, DeployChained

LEMMA RequestRestores ==
  ASSUME DeployInv, TypeInv, NEW u \in User, Request(u)
  PROVE  RestoreOK(job'[u], advice'[u], ghost'[u], running', Current')
<1>1. PICK q, file : Calls(q) # <<>> /\
        Begins(u, Open(Head(Calls(q)).command, Head(Calls(q)).args, file, q.env, q.asked, Tail(Calls(q))))
  BY DEF Request
<1>2. PICK command, args, calls, j : /\ command = Head(Calls(q)).command /\ args = Head(Calls(q)).args
                                     /\ calls = Tail(Calls(q)) /\ j = Open(command, args, file, q.env, q.asked, calls)
  OBVIOUS
<1>3. Begins(u, j)
  BY <1>1, <1>2
<1>4. job'[u] = Ended(j) /\ advice'[u] = <<>> /\ ghost'[u].sound = Sound(j) /\ running' = running /\ links' = links
  BY <1>3 DEF Begins, DeployInv
<1>5. Gentle(<<>>) /\ ~TellsActivate(<<>>)
  BY DEF Gentle, TellsActivate
<1>6. PICK r, c : r = running /\ c = Current
  OBVIOUS
<1>7. Current' = c
  BY <1>4, <1>6, CurrentSame
<1>8. ASSUME Sound(j)
      PROVE  /\ Ended(j).calls = <<>> /\ (Runs(Ended(j)) => Proper(Ended(j))) /\ Ended(j).command = "deploy"
             /\ c # None /\ Runs(Ended(j)) => Replacing(Ended(j), r, c)
  <2>1. j.command = "deploy" /\ j.exit = "none" /\ j.old = c /\ (c # None => r = Keys(c))
    <3>1. create_manifest(Link, AllParts) = c
      BY <1>6, Zenon DEF Current
    <3>2. j.old = c /\ running = IF c = None THEN {} ELSE Keys(c)
      BY <1>8, <3>1, Zenon DEF Sound
    <3> QED BY <1>6, <1>8, <3>2 DEF Sound
  <2>2. command = "deploy" /\ j.calls = calls
    <3>1. j.command = command /\ j.calls = calls
      <4>1. \A x, y : Open(command, args, file, x, y, calls).command = command
                       /\ Open(command, args, file, x, y, calls).calls = calls
        BY OpenJob
      <4> QED BY <1>2, <4>1, Zenon
    <3> QED BY <2>1, <3>1, Zenon
  <2>3. Ended(j) = j /\ j.calls = <<>>
    BY <1>1, <1>2, <2>1, <2>2, DeploysLast DEF Ended
  <2>4. ASSUME Runs(j)
        PROVE  /\ j.status = "ok" /\ Head(j.phases) = "distribute"
               /\ c # None => Replaces(j, c)
    <3>1. /\ j.status = "ok" /\ j.phases = Phases("deploy", args) /\ Well(j.new)
          /\ j.file = Resolve(file) /\ j.new = create_manifest(file, AllParts)
          /\ j.old = create_manifest(j.oldFile, AllParts)
      BY <1>2, <2>2, <2>4, OpenWorks DEF Parts, PreviousParts
    <3>2. j.file # None /\ j.new = Held(j.file)
      BY <3>1 DEF create_manifest, Well, Held
    <3>3. j.file # Link
      <4>1. links # <<>> => Last(links) # Link
        BY InRange DEF TypeInv, LinksOK
      <4> QED BY <3>1, <3>2, <4>1 DEF Resolve
    <3>4. c # None => Describes(j.oldFile, c)
      BY <2>1, <3>1 DEF create_manifest, Resolve, Describes, Held
    <3> QED BY <2>1, <3>1, <3>2, <3>3, <3>4, FirstPhase DEF Replaces
  <2>5. Runs(j) => Proper(j)
    BY <2>1, <2>4 DEF Proper
  <2>6. c # None /\ Runs(j) => Replacing(j, r, c)
    BY <2>1, <2>4 DEF Replacing, LeavesRest, NotRolledBack
  <2> QED BY <2>1, <2>3, <2>5, <2>6
<1> QED BY <1>4, <1>5, <1>6, <1>7, <1>8 DEF RestoreOK

\* The disnix-activate that a user is told to run begins to bring the old
\* configuration back.
LEMMA AdviceRuns ==
  ASSUME ReadIsNotNull, NEW a, a.command = "activate", NEW r, NEW c, c = Current, c # None, Restorable(a, r, c),
         NEW env, NEW j, j = Open("activate", a.args, a.file, env, a.args, <<>>), Runs(j)
  PROVE  Restoring(j, r, c)
<1>1. /\ j.args = a.args /\ j.phases = <<"deactivate", "activate">> /\ Well(j.new)
      /\ j.new = create_manifest(a.file, {"serviceMappings", "infrastructure"})
      /\ Given(a.args, "old-manifest") # None => j.oldFile = Given(a.args, "old-manifest")
      /\ j.old = create_manifest(j.oldFile, {"serviceMappings"})
  BY OpenWorks, FirstPhase DEF Parts, PreviousParts
<1>2. {"serviceMappings", "infrastructure"} \subseteq AllParts /\ {"serviceMappings"} \subseteq AllParts
  BY DEF AllParts
<1>3. PICK doc : /\ j.new = parse_manifest(doc, {"serviceMappings", "infrastructure"}, Missing, Missing, "localhost")
                 /\ c = parse_manifest(doc, AllParts, Missing, Missing, "localhost")
  <2>1. Resolve(a.file) # None
    BY <1>1 DEF create_manifest, Well
  <2>2. j.new = parse_manifest(Contents(Resolve(a.file)), {"serviceMappings", "infrastructure"}, Missing, Missing, "localhost")
    BY <1>1, <2>1 DEF create_manifest
  <2>3. CASE a.file = Link
    <3>1. c = parse_manifest(Contents(Resolve(a.file)), AllParts, Missing, Missing, "localhost")
      BY <2>1, <2>3 DEF Current, create_manifest
    <3> QED BY <2>2, <3>1
  <2>4. CASE a.file # Link
    <3>1. Held(a.file) = c /\ Resolve(a.file) = a.file
      BY <2>4 DEF Restorable, Describes, Resolve
    <3> QED BY <2>2, <3>1 DEF Held
  <2> QED BY <2>3, <2>4
<1>4. j.new.service_mappings = c.service_mappings /\ j.new.targets = c.targets
  BY <1>2, <1>3, PartsRead
<1>5. Head(<<"deactivate", "activate">>) # "activate"
  OBVIOUS
<1>6. CASE Given(a.args, "no-upgrade") # None /\ r \subseteq Keys(c)
  BY <1>1, <1>4, <1>6 DEF Restoring, FromScratch
<1>7. ASSUME NEW file, Given(a.args, "no-upgrade") = None,
             file \notin {None, Link}, Given(a.args, "old-manifest") = file,
             Remains("new mappings", r, c, Held(file))
      PROVE  Restoring(j, r, c)
  <2>1. j.old = parse_manifest(Contents(file), {"serviceMappings"}, Missing, Missing, "localhost")
    BY <1>1, <1>7 DEF create_manifest, Resolve
  <2>2. j.old # None
    BY <2>1 DEF ReadIsNotNull
  <2>3. Keys(j.old) = Keys(Held(file))
    BY <1>2, <2>1, PartsRead DEF Held
  <2>4. PICK o, n : o = Keys(c) /\ n = Keys(j.old)
    OBVIOUS
  <2>5. o \cap n \subseteq r /\ r \subseteq o \cup n
    BY <1>7, <2>3, <2>4 DEF Remains
  <2>6. o \cap n \subseteq r /\ \A key \in r \ o : key \in n
    BY <2>5
  <2>7. ~FromScratch(j)
    BY <1>1, <1>7, <2>2 DEF FromScratch
  <2> QED BY <1>1, <1>4, <1>5, <2>4, <2>6, <2>7 DEF Restoring
<1> QED BY <1>6, <1>7 DEF Restorable

LEMMA FollowAdviceRestores ==
  ASSUME ReadIsNotNull, DeployInv, PlanInv, RestoreInv, NEW u \in User, FollowAdvice(u)
  PROVE  RestoreOK(job'[u], advice'[u], ghost'[u], running', Current')
<1>1. PICK told, a, j : /\ told = advice[u] /\ a = Head(told) /\ told # <<>>
                        /\ j = Open(a.command, a.args, a.file, job[u].env, a.args, <<>>)
  BY DEF FollowAdvice
<1>2. job'[u] = Ended(j) /\ advice'[u] = Tail(told) /\ running' = running /\ links' = links
  BY <1>1 DEF FollowAdvice, DeployInv, world
<1>3. /\ ghost'[u].sound => ghost[u].sound /\ a.command = "activate"
      /\ ghost'[u].alone = ghost[u].alone
  <2>1. PICK g1, g2 : /\ g1 = [ghost EXCEPT ![u].sound = @ /\ Head(advice[u]).command = "activate"]
                      /\ g2 = [g1 EXCEPT ![u].forced = FALSE]
    OBVIOUS
  <2>2. ghost' = g2
    BY <2>1 DEF FollowAdvice
  <2>3. PICK g, s : g = ghost[u] /\ s = (g.sound /\ a.command = "activate")
    OBVIOUS
  <2>4. DOMAIN ghost = User /\ DOMAIN g = GhostFields
    BY <2>3 DEF DeployInv
  <2>5. g1[u] = [g EXCEPT !.sound = s]
    BY <1>1, <2>1, <2>3, <2>4
  <2>6. u \in DOMAIN g1 /\ DOMAIN g1[u] = GhostFields /\ g1[u].sound = s /\ g1[u].alone = g.alone
    BY <2>1, <2>4, <2>5 DEF GhostFields
  <2>7. g2[u].sound = s /\ g2[u].alone = g.alone
    BY <2>1, <2>6 DEF GhostFields
  <2> QED BY <2>2, <2>3, <2>7
<1>4. PICK g, r, c : g = ghost[u] /\ r = running /\ c = Current
  OBVIOUS
<1>5. Current' = c
  BY <1>2, <1>4, CurrentSame
<1>6. ASSUME g.sound, a.command = "activate"
      PROVE  /\ Tail(told) = <<>> /\ Ended(j).calls = <<>> /\ (Runs(Ended(j)) => Proper(Ended(j)))
             /\ Ended(j).command = "activate"
             /\ g.alone /\ c # None /\ Runs(Ended(j)) => Restoring(Ended(j), r, c)
  <2>1. RestoreOK(job[u], told, g, r, c)
    BY <1>1, <1>4 DEF RestoreInv
  <2>2. TellsActivate(told)
    BY <1>1, <1>6 DEF TellsActivate
  <2>3. /\ Tail(told) = <<>> /\ Given(a.args, "no-rollback") # None /\ Given(a.args, "dry-run") = None
        /\ g.alone /\ c # None => Restorable(a, r, c)
    BY <1>1, <1>6, <2>1, <2>2 DEF RestoreOK, Gentle
  <2>4. j.command = "activate" /\ j.calls = <<>> /\ DOMAIN j = JobFields
    BY <1>1, <1>6, OpenJob
  <2>5. /\ Ended(j).calls = <<>> /\ Ended(j).command = "activate"
        /\ Runs(Ended(j)) => Ended(j) = j
    <3>1. CASE j.exit = "none"
      BY <2>4, <3>1 DEF Ended
    <3>2. CASE j.exit # "none"
      <4>1. Ended(j) = [NoJob EXCEPT !.command = j.command, !.exit = j.exit, !.env = j.env, !.astray = j.astray]
        BY <2>4, <3>2 DEF Ended
      <4>2. Ended(j).calls = <<>> /\ Ended(j).command = j.command /\ Ended(j).exit = j.exit
        BY <4>1 DEF NoJob
      <4> QED BY <2>4, <3>2, <4>2 DEF Runs
    <3> QED BY <3>1, <3>2
  <2>6. ASSUME Runs(j)
        PROVE  Proper(j) /\ (g.alone /\ c # None => Restoring(j, r, c))
    <3>1. j.args = a.args /\ j.status = "ok" /\ j.phases = <<"deactivate", "activate">>
      BY <1>1, <1>6, <2>6, OpenWorks, FirstPhase
    <3>2. Proper(j)
      BY <2>3, <2>4, <3>1 DEF Proper, RollsBack, Dry
    <3>3. g.alone /\ c # None => Restoring(j, r, c)
      BY <1>1, <1>4, <1>6, <2>3, <2>6, AdviceRuns
    <3> QED BY <3>2, <3>3
  <2> QED BY <2>3, <2>5, <2>6
<1>7. ghost'[u].sound => g.sound /\ a.command = "activate"
  BY <1>3, <1>4
<1>8. ~TellsActivate(<<>>) /\ Gentle(<<>>)
  BY DEF TellsActivate, Gentle
<1>9. PICK h, k : h = ghost'[u] /\ k = Ended(j)
  OBVIOUS
<1>10. ASSUME h.sound
       PROVE  RestoreOK(k, <<>>, h, r, c)
  <2>1. g.sound /\ a.command = "activate" /\ h.alone = g.alone
    BY <1>3, <1>4, <1>7, <1>9, <1>10
  <2> QED BY <1>6, <1>8, <1>9, <2>1 DEF RestoreOK
<1>11. h.sound => Tail(told) = <<>>
  BY <1>6, <1>7, <1>9
<1>12. RestoreOK(k, Tail(told), h, r, c)
  <2>1. CASE h.sound
    BY <1>10, <1>11, <2>1
  <2>2. CASE ~h.sound
    BY <2>2 DEF RestoreOK
  <2> QED BY <2>1, <2>2
<1> QED BY <1>2, <1>4, <1>5, <1>9, <1>12


LEMMA StepRestores ==
  ASSUME ReadIsNotNull, DeployInv, PlanInv, TypeInv, RestoreInv, NEW u \in User, Step(u)
  PROVE  RestoreOK(job'[u], advice'[u], ghost'[u], running', Current')
<1>1. CASE Running(u)
  BY <1>1, OwnRestores
<1>2. CASE Request(u)
  BY <1>2, RequestRestores
<1>3. CASE FollowAdvice(u)
  BY <1>3, FollowAdviceRestores
<1>4. CASE ForgetGenerations(u)
  <2>1. PICK j, told, g, r, c : j = job[u] /\ told = advice[u] /\ g = ghost[u] /\ r = running /\ c = Current
    OBVIOUS
  <2>2. job' = job /\ advice' = advice /\ ghost' = ghost /\ running' = running /\ Current' = None
    BY <1>4, CurrentForgotten DEF ForgetGenerations
  <2>3. RestoreOK(j, told, g, r, c)
    BY <2>1 DEF RestoreInv
  <2>4. RestoreOK(j, told, g, r, None)
    BY <2>3, RestoreKept
  <2> QED BY <2>1, <2>2, <2>4
<1>5. CASE NextCall(u)
  <2>1. ghost'[u] = ghost[u] /\ job[u].calls # <<>>
    BY <1>5 DEF NextCall, Untouched
  <2>2. ~ghost[u].sound
    BY <2>1 DEF RestoreInv, RestoreOK
  <2> QED BY <2>1, <2>2 DEF RestoreOK
<1>6. CASE ~Running(u) /\ ~(Request(u) \/ FollowAdvice(u) \/ ForgetGenerations(u) \/ NextCall(u))
  BY <1>6 DEF Step, Distribute, Deactivate, Activate, MigrateData, SetCoordinator, ConvertManifest, CompareManifest,
              Elsewhere, Crash, VisitNobody, LockTarget, UnlockTarget, SetTarget, CollectGarbage, CaptureTarget, At
<1> QED BY <1>1, <1>2, <1>3, <1>4, <1>5, <1>6

LEMMA InitRestores == Init => RestoreInv
<1> SUFFICES ASSUME Init PROVE RestoreInv
  OBVIOUS
<1>1. \A u \in User : ghost[u].sound = FALSE
  BY DEF Init
<1> QED BY <1>1 DEF RestoreInv, RestoreOK

LEMMA NextRestores ==
  ASSUME ReadIsNotNull
  PROVE  DeployInv /\ PlanInv /\ TypeInv /\ RestoreInv /\ [Next]_vars => RestoreInv'
<1> SUFFICES ASSUME DeployInv, PlanInv, TypeInv, RestoreInv, [Next]_vars PROVE RestoreInv'
  OBVIOUS
<1>1. CASE UNCHANGED vars
  <2>1. job' = job /\ advice' = advice /\ ghost' = ghost /\ running' = running /\ Current' = Current
    BY <1>1, CurrentSame DEF vars
  <2> QED BY <2>1 DEF RestoreInv
<1>2. ASSUME NEW v \in User, Step(v)
      PROVE  RestoreInv'
  <2>1. ASSUME NEW u \in User
        PROVE  RestoreOK(job'[u], advice'[u], ghost'[u], running', Current')
    <3>1. CASE u = v
      BY <1>2, <3>1, StepRestores
    <3>2. CASE u # v
      BY <1>2, <3>2, OthersRestores
    <3> QED BY <3>1, <3>2
  <2> QED BY <2>1 DEF RestoreInv
<1>3. CASE Late
  <2>1. job' = job /\ advice' = advice /\ running' = running /\ Current' = Current
    BY <1>3, LateChanges, CurrentSame
  <2>2. ASSUME NEW u \in User
        PROVE  RestoreOK(job[u], advice[u], ghost'[u], running, Current)
    BY <1>3, <2>2, LateGhost DEF RestoreInv, RestoreOK
  <2> QED BY <2>1, <2>2 DEF RestoreInv
<1> QED BY <1>1, <1>2, <1>3 DEF Next

\* The transition that ends well has brought the old configuration back.
LEMMA Restored ==
  ASSUME NEW j, NEW r, NEW c, Restoring(j, r, c), Head(j.phases) = "activate", Refers(j)
  PROVE  {key \in r \cup Added(j) : key[1] \in DOMAIN c.targets} = Keys(c)
<1>1. j.new.service_mappings = c.service_mappings /\ j.new.targets = c.targets
  BY DEF Restoring
<1>2. Keys(j.new) = Keys(c)
  BY <1>1, Zenon DEF Keys
<1>3. PICK o, n, t, a : o = Keys(c) /\ n = Keys(j.old) /\ t = DOMAIN c.targets /\ a = Added(j)
  OBVIOUS
<1>4. \A key \in o : key[1] \in t
  BY <1>1, <1>3 DEF Refers, Targets, Keys, ServiceKey
<1>5. CASE FromScratch(j)
  <2>1. a = o /\ r \subseteq o
    BY <1>2, <1>3, <1>5, TransitionKeys DEF Restoring
  <2> QED BY <1>3, <1>4, <2>1
<1>6. CASE ~FromScratch(j)
  <2>1. a = o \ n
    BY <1>2, <1>3, <1>6, TransitionKeys
  <2>2. o \cap n \subseteq r /\ \A key \in r \ o : key[1] \notin t
    BY <1>3, <1>6 DEF Restoring
  <2> QED BY <1>3, <1>4, <2>1, <2>2
<1> QED BY <1>5, <1>6

LEMMA AdviceWorks ==
  ASSUME DeployInv, RestoreInv, NEW u \in User, NEW v \in User, Step(v), ghost[u].sound, ghost[u].alone,
         At(u, "activate"), job[u].command = "activate", ~Dry(job[u]), job'[u].exit = "0", Current # None
  PROVE  {key \in running' : key[1] \in DOMAIN Current.targets} = Keys(Current)
<1> DEFINE j == job[u]
<1>1. Running(u) /\ Head(j.phases) = "activate"
  BY DEF At
<1>2. /\ DOMAIN j = JobFields /\ Runs(j) /\ Fine(j, ghost[u], running, Current) /\ Proper(j)
  BY <1>1, FineNow
<1>3. Refers(j) /\ j.exit = "none"
  BY <1>2 DEF DeployInv, UserOK, Runs
<1>4. Restoring(j, running, Current)
  BY <1>2 DEF Fine
<1>5. u = v
  BY <1>3, OthersKeepTheirJob
<1>6. Activate(u) \/ Crash(u)
  <2>1. ~(Request(u) \/ FollowAdvice(u) \/ NextCall(u) \/ ForgetGenerations(u))
    BY <1>1 DEF Request, FollowAdvice, NextCall, ForgetGenerations, Idle
  <2> QED BY <1>1, <1>5, <2>1 DEF Step, At, Distribute, Deactivate, MigrateData, SetCoordinator, ConvertManifest,
            CompareManifest, Elsewhere, VisitNobody, LockTarget, UnlockTarget, SetTarget, CollectGarbage, CaptureTarget
<1>7. \A k : Set(u, k) => job'[u].exit = k.exit
  <2>1. \A k : Ended(k).exit = k.exit
    <3>1. ASSUME NEW k
          PROVE  [NoJob EXCEPT !.command = k.command, !.exit = k.exit, !.env = k.env, !.astray = k.astray].exit = k.exit
      BY DEF NoJob
    <3> QED BY <3>1 DEF Ended
  <2> QED BY <2>1 DEF Set, DeployInv
<1>8. ~Crash(u)
  <2>1. ASSUME Crash(u)
        PROVE  FALSE
    <3>1. PICK e, k : e = Exit(j, "crashed") /\ k = [e EXCEPT !.calls = <<>>]
      OBVIOUS
    <3>2. k.exit = "crashed"
      BY <1>2, <3>1 DEF Exit, JobFields
    <3>3. Set(u, k)
      BY <2>1, <3>1 DEF Crash
    <3> QED BY <1>7, <3>2, <3>3
  <2> QED BY <2>1
<1>9. \A status : ~Fails(u, status)
  <2>1. ASSUME NEW status, Fails(u, status)
        PROVE  FALSE
    <3>1. PICK i : i = [j EXCEPT !.status = status]
      OBVIOUS
    <3>2. Set(u, Fail(i)) /\ i.phases = j.phases /\ DOMAIN i = JobFields
      BY <1>2, <2>1, <3>1 DEF Fails, JobFields
    <3>3. Last(i.phases) # "unlock"
      <4>1. PICK phases : phases = j.phases
        OBVIOUS
      <4>2. phases \in {<<"deactivate", "activate">>, <<"activate">>}
        BY <1>2, <4>1 DEF Proper
      <4>3. phases[Len(phases)] = "activate"
        BY <4>2, RestoringPhases
      <4> QED BY <3>2, <4>1, <4>3, Zenon DEF Last
    <3>4. Fail(i) = Exit(i, "1")
      BY <3>3 DEF Fail
    <3>5. Fail(i).exit = "1"
      BY <3>2, <3>4 DEF Exit, JobFields
    <3> QED BY <1>7, <3>2, <3>5
  <2> QED BY <2>1
<1>10. running' = running \cup Added(j)
  BY <1>6, <1>8, <1>9 DEF Activate
<1>11. PICK r, c : r = running /\ c = Current
  OBVIOUS
<1>12. {key \in r \cup Added(j) : key[1] \in DOMAIN c.targets} = Keys(c)
  <2> HIDE DEF j
  <2> QED BY <1>1, <1>3, <1>4, <1>11, Restored
<1> QED BY <1>10, <1>11, <1>12

\* What a deployment that could not roll back tells its user to run brings the
\* old configuration back: print_transition_status names the manifests and the
\* options such that the second transition undoes what the first one left, if a
\* file that is read gives a manifest.
THEOREM AdviceRestoresOld == ASSUME ReadIsNotNull PROVE Spec => AdviceRestores
<1>1. Init => PlanInv /\ TypeInv /\ RestoreInv
  BY InitPlan, InitTyped, InitRestores
<1>2. DeployInv /\ PlanInv /\ TypeInv /\ RestoreInv /\ [Next]_vars => PlanInv' /\ TypeInv' /\ RestoreInv'
  BY NextPlan, NextTyped, NextRestores
<1> DEFINE Works ==
             \A u \in User :
               LET old == create_manifest(Link, AllParts)
               IN  (/\ ghost[u].sound /\ ghost[u].alone /\ At(u, "activate") /\ job[u].command = "activate"
                    /\ ~Dry(job[u]) /\ job'[u].exit = "0" /\ old # None) =>
                     {key \in running' : key[1] \in DOMAIN old.targets} = Keys(old)
<1>3. DeployInv /\ RestoreInv /\ [Next]_vars => [Works]_vars
  <2>1. ASSUME DeployInv, RestoreInv, NEW v \in User, Step(v), NEW u \in User, ghost[u].sound, ghost[u].alone,
               At(u, "activate"), job[u].command = "activate", ~Dry(job[u]), job'[u].exit = "0", Current # None
        PROVE  {key \in running' : key[1] \in DOMAIN Current.targets} = Keys(Current)
    BY <2>1, AdviceWorks
  <2>2. create_manifest(Link, AllParts) = Current
    BY DEF Current
  <2>3. ASSUME Late, NEW u \in User, At(u, "activate"), job'[u].exit = "0"
        PROVE  FALSE
    BY <2>3, LateChanges DEF At, Running
  <2> QED BY <2>1, <2>2, <2>3 DEF Next
<1>4. QED
  BY <1>1, <1>2, <1>3, DeployInvariance, PTL DEF Spec, AdviceRestores
=============================================================================
