---------------------------- MODULE MatrixRun_proofs ----------------------------
(***************************************************************************)
(* An invocation of the matrix runner rests on the files of earlier ones.  *)
(* The invariant says what admission established and why it still holds    *)
(* when a run ends: results are only ever appended, the evidence an        *)
(* invocation was admitted on has the very work it runs with, and its own  *)
(* runs are the last results, one per mode done, all of them complete but  *)
(* for the one not judged yet.                                             *)
(***************************************************************************)
EXTENDS MatrixRun, SequenceTheorems, TLAPS

LoopSet ==
    [int : Nat, bg : Nat, todo : Seq(Modes), exit : BOOLEAN, interrupted : BOOLEAN]

\* The evidence j is a complete and sound run of a mode in the configuration of o, and o has
\* taken its work over.
Backs(j, o, mode) ==
    /\ results[j].complete /\ results[j].sound /\ results[j].mode = mode
    /\ results[j].config = o.config /\ results[j].diagnostic = o.diagnostic
    /\ \A role \in Roles(mode) : o[role] = results[j][role]

\* What admission established and no later step can take back: results are only
\* ever appended, so the evidence stays what it was.
Justified(o) ==
    /\ o.trials > 1 =>
        /\ Len(o.modes) = 1
        /\ \E j \in DOMAIN results :
            /\ Backs(j, o, Head(o.modes)) /\ results[j].graph = o.graph
            /\ results[j].rows >= IF o.trials > 10 THEN 10 ELSE 1
    /\ o.graph =>
        \E j \in DOMAIN results :
            /\ Backs(j, o, results[j].mode) /\ ~ results[j].graph /\ results[j].rows >= 10
            /\ Active(o) \ {"timeslice"} \subseteq {results[j].mode}
    /\ IsGroup(o) =>
        /\ o.config = Plain
        /\ \E j \in DOMAIN results :
            Backs(j, o, "none") /\ ~ results[j].graph /\ results[j].rows = 1

\* The modes done, and the runs the invocation has: one more until it is judged.
Done == Len(options.modes) - Len(loop.todo)
Unjudged == pc \in {"recover", "judge"}
Ran == IF Unjudged THEN Done + 1 ELSE Done
First == Len(results) - Ran

\* The runs of the current invocation are the last ones, one per mode done, in the
\* order asked for, as it was asked for.
RunsInOrder ==
    /\ Done \in 0 .. Len(options.modes) /\ First \in Nat
    /\ pc \in {"preflight", "gate", "probes"} => Done = 0
    /\ pc = "running" \/ Unjudged => loop.todo # <<>>
    /\ \A m \in 1 .. Len(loop.todo) : loop.todo[m] = options.modes[Done + m]
    /\ RunsOf(invocation) = First + 1 .. Len(results)
    /\ \A m \in 1 .. Ran :
        /\ results[First + m].mode = options.modes[m]
        /\ m <= Done \/ loop.exit => results[First + m].complete

\* The frozen work is what was asked for and what the runs judged so far did.
WorkFrozen ==
    \A role \in {"bg", "int"} :
        /\ options[role] # 0 => loop[role] = options[role]
        /\ \A m \in 1 .. Ran : role \in Roles(results[First + m].mode) =>
            IF m <= Done THEN loop[role] = results[First + m][role]
            ELSE loop[role] # 0 => loop[role] = results[First + m][role]

InvocationOK ==
    pc # "idle" =>
        /\ invocation # 0 /\ summary = "none"
        /\ options \in Options(Nat) /\ Justified(options)
        /\ RunsInOrder /\ WorkFrozen
        /\ loop.interrupted => pc = "running" \/ (Unjudged /\ ~ loop.exit)

TypesOK ==
    /\ campaign \in Campaigns /\ invocation \in 0 .. campaign.invocations
    /\ results \in Seq(Results)
    /\ pc \in {"idle", "preflight", "gate", "probes", "loop", "running", "recover", "judge"}
    /\ summary \in {"none", "blocked", "skipped", "stopped", "completed"}
    /\ loop \in LoopSet

\* The results, whatever the current invocation is at.
ResultsOK ==
    /\ \A i \in DOMAIN results :
        /\ results[i].invocation <= invocation
        /\ \A j \in 1 .. i : results[j].invocation <= results[i].invocation
        /\ \A role \in {"bg", "int"} : results[i][role] # 0 <=> role \in Roles(results[i].mode)
    /\ SameWork /\ NothingAfterFailure /\ EvidenceFirst

MatrixInv == TypesOK /\ ResultsOK /\ InvocationOK

-----------------------------------------------------------------------------
(* Requests, roles and modes.                                                 *)
LEMMA RequestsTyped ==
    ASSUME NEW c \in Campaigns, NEW r \in c.requests
    PROVE  r \in Options({NoEvidence}) /\ r.modes # <<>> /\ r.config \in Configs
BY MatrixAssumption DEF MatrixAssumption, Requests, Configs

LEMMA RolesOfModes ==
    /\ \A mode : "int" \in Roles(mode) /\ Roles(mode) \subseteq {"bg", "int"}
    /\ \A mode : mode # "int-only" => Roles(mode) = {"bg", "int"}
    /\ Roles("int-only") = {"int"}
    /\ \A mode \in ActivePrimitives : mode # "int-only" /\ mode \notin Baselines \cup {"timeslice"}
BY DEF Roles, ActivePrimitives, Baselines

LEMMA RangeOfModes ==
    ASSUME NEW s \in Seq(Modes)
    PROVE  /\ \A i \in 1 .. Len(s) : s[i] \in Range(s) /\ s[i] \in Modes
           /\ s # <<>> => Head(s) = s[1] /\ 1 \in 1 .. Len(s)
           /\ s # <<>> => Tail(s) \in Seq(Modes) /\ Len(Tail(s)) = Len(s) - 1
                          /\ \A i \in 1 .. Len(s) - 1 : Tail(s)[i] = s[i + 1]
BY DEF Range

(* A record of options with other work is one.                                *)
LEMMA WorkTaken ==
    ASSUME results \in Seq(Results), NEW o \in Options(Nat), NEW e \in DOMAIN results
    PROVE  LET w == WithWorkOf(o, e) IN
           /\ w \in Options(Nat)
           /\ w.modes = o.modes /\ w.trials = o.trials /\ w.graph = o.graph
           /\ w.diagnostic = o.diagnostic /\ w.config = o.config
           /\ w.smoke = o.smoke /\ w.primitive = o.primitive /\ w.paired = o.paired
           /\ w.int = results[e].int
           /\ w.bg = IF results[e].mode = "int-only" THEN o.bg ELSE results[e].bg
<1>1. results[e] \in Results
  OBVIOUS
<1>2. results[e].int \in Nat /\ results[e].bg \in Nat
  BY <1>1 DEF Results
<1> QED BY <1>2 DEF WithWorkOf, Options

(* Evidence whose work was taken over backs what took it.                     *)
LEMMA TakenBacks ==
    ASSUME results \in Seq(Results), NEW o \in Options(Nat), NEW e, NEW mode, NEW minimum, NEW graph,
           ValidSmoke(e, mode, minimum, graph, o)
    PROVE  /\ e \in DOMAIN results /\ Backs(e, WithWorkOf(o, e), mode)
           /\ results[e].rows >= minimum /\ results[e].graph = graph /\ results[e].mode = mode
<1>1. e \in DOMAIN results /\ results[e].mode = mode
  BY DEF ValidSmoke
<1>2. \A role \in Roles(mode) : WithWorkOf(o, e)[role] = results[e][role]
  BY <1>1, WorkTaken, RolesOfModes
<1> QED BY <1>1, <1>2, WorkTaken DEF ValidSmoke, Backs

(* Work taken over later, from evidence that agrees, leaves the earlier       *)
(* evidence a backing.                                                        *)
LEMMA BackedStill ==
    ASSUME results \in Seq(Results), NEW o \in Options(Nat), NEW j \in DOMAIN results, NEW mode,
           Backs(j, o, mode),
           \A role \in Roles(mode) : results[j][role] # 0,
           NEW e, NEW minimum, NEW graph, NEW other, ValidSmoke(e, other, minimum, graph, o)
    PROVE  Backs(j, WithWorkOf(o, e), mode)
<1>1. e \in DOMAIN results /\ results[e].mode = other
  BY DEF ValidSmoke
<1>2. ASSUME NEW role \in Roles(mode) PROVE WithWorkOf(o, e)[role] = o[role]
  <2>1. o[role] # 0 /\ o[role] = results[j][role]
    BY DEF Backs
  <2>2. role \in Roles(other) => o[role] = results[e][role]
    BY <2>1 DEF ValidSmoke
  <2>3. role = "int" \/ (role = "bg" /\ (other # "int-only" => "bg" \in Roles(other)))
    BY RolesOfModes
  <2> QED BY <1>1, <2>2, <2>3, WorkTaken, RolesOfModes
<1> QED BY <1>1, <1>2, WorkTaken DEF Backs

(* What is admitted is justified by the evidence it names.                    *)
LEMMA AdmittedIsJustified ==
    ASSUME TypesOK, ResultsOK, NEW o \in Options(Nat), o.modes # <<>>, Admissible(o)
    PROVE  /\ Admitted(o) \in Options(Nat) /\ Justified(Admitted(o))
           /\ Admitted(o).modes = o.modes
<1> DEFINE o1 == AfterPaired(o)
           o2 == AfterSmoke(o)
           o3 == Admitted(o)
           Same(w) == /\ w \in Options(Nat)
                      /\ w.modes = o.modes /\ w.trials = o.trials /\ w.graph = o.graph
                      /\ w.diagnostic = o.diagnostic /\ w.config = o.config
                      /\ w.smoke = o.smoke /\ w.primitive = o.primitive /\ w.paired = o.paired
<1>1. results \in Seq(Results)
  BY DEF TypesOK
<1>2. Same(o1)
  <2>1. IsGroup(o) => o.paired \in DOMAIN results
    BY DEF Admissible, GroupAdmissible, ValidPaired, ValidSmoke
  <2> QED BY <1>1, <2>1, WorkTaken DEF AfterPaired
<1>3. o.trials > 1 => ValidSmoke(o.smoke, Head(o.modes), SmokeRows(o), o.graph, o1)
  BY DEF Admissible, StatisticsAdmissible
<1>4. Same(o2)
  <2>1. o.trials > 1 => o.smoke \in DOMAIN results
    BY <1>3 DEF ValidSmoke
  <2> HIDE DEF o1
  <2>2. o2 = IF o.trials > 1 THEN WithWorkOf(o1, o.smoke) ELSE o1
    BY DEF AfterSmoke, o1
  <2> HIDE DEF o2
  <2>3. CASE o.trials > 1
    BY <1>1, <1>2, <2>1, <2>2, <2>3, WorkTaken
  <2>4. CASE ~ (o.trials > 1)
    BY <1>2, <2>2, <2>4
  <2> QED BY <2>3, <2>4
<1>5. o.graph => /\ o.primitive \in DOMAIN results
                 /\ results[o.primitive].mode \in ActivePrimitives
                 /\ ValidSmoke(o.primitive, results[o.primitive].mode, 10, FALSE, o2)
                 /\ Active(o) \ {"timeslice"} \subseteq {results[o.primitive].mode}
  BY DEF Admissible, GraphAdmissible
<1>6. o3 = IF o.graph THEN WithWorkOf(o2, o.primitive) ELSE o2
  BY DEF Admitted
<1> HIDE DEF o1, o2, o3
<1>7. Same(o3)
  <2>1. CASE o.graph
    BY <1>1, <1>4, <1>5, <1>6, <2>1, WorkTaken
  <2>2. CASE ~ o.graph
    BY <1>4, <1>6, <2>2
  <2> QED BY <2>1, <2>2
<1>8. Active(o3) = Active(o) /\ IsGroup(o3) = IsGroup(o)
  BY <1>7 DEF Active, IsGroup
<1>9. ASSUME o.trials > 1
      PROVE  /\ Len(o.modes) = 1
             /\ Backs(o.smoke, o3, Head(o.modes)) /\ results[o.smoke].graph = o.graph
             /\ o.smoke \in DOMAIN results
             /\ results[o.smoke].rows >= IF o.trials > 10 THEN 10 ELSE 1
  <2>1. Len(o.modes) = 1
    BY <1>9 DEF Admissible, StatisticsAdmissible
  <2>2. o2 = WithWorkOf(o1, o.smoke)
    BY <1>9 DEF o2, o1, AfterSmoke
  <2>3. /\ o.smoke \in DOMAIN results /\ Backs(o.smoke, o2, Head(o.modes))
        /\ results[o.smoke].rows >= SmokeRows(o) /\ results[o.smoke].graph = o.graph
        /\ results[o.smoke].mode = Head(o.modes)
    BY <1>1, <1>2, <1>3, <1>9, <2>2, TakenBacks
  <2>4. \A role \in Roles(Head(o.modes)) : results[o.smoke][role] # 0
    BY <2>3, RolesOfModes DEF ResultsOK
  <2>5. Backs(o.smoke, o3, Head(o.modes))
    <3>1. CASE o.graph
      BY <1>1, <1>4, <1>5, <1>6, <2>3, <2>4, <3>1, BackedStill
    <3>2. CASE ~ o.graph
      BY <1>6, <2>3, <3>2
    <3> QED BY <3>1, <3>2
  <2> QED BY <2>1, <2>3, <2>5 DEF SmokeRows
<1>10. ASSUME o.graph
       PROVE  /\ o.primitive \in DOMAIN results
              /\ Backs(o.primitive, o3, results[o.primitive].mode)
              /\ ~ results[o.primitive].graph /\ results[o.primitive].rows >= 10
              /\ Active(o) \ {"timeslice"} \subseteq {results[o.primitive].mode}
  <2> DEFINE mode == results[o.primitive].mode
             plain == FALSE
             ten == 10
  <2>1. ValidSmoke(o.primitive, mode, ten, plain, o2) /\ o3 = WithWorkOf(o2, o.primitive)
    BY <1>5, <1>6, <1>10
  <2> HIDE DEF mode, plain, ten
  <2>2. /\ o.primitive \in DOMAIN results /\ Backs(o.primitive, o3, mode)
        /\ results[o.primitive].rows >= ten /\ results[o.primitive].graph = plain
    BY <1>1, <1>4, <2>1, TakenBacks
  <2> QED BY <1>5, <1>10, <2>2 DEF mode, plain, ten
<1>11. ASSUME IsGroup(o)
       PROVE  /\ o.config = Plain /\ o.paired \in DOMAIN results
              /\ Backs(o.paired, o3, "none")
              /\ ~ results[o.paired].graph /\ results[o.paired].rows = 1
  <2>1. /\ o.trials = 1 /\ ~ o.graph /\ o.config = Plain /\ ValidPaired(o)
    BY <1>11 DEF Admissible, GroupAdmissible, Forced
  <2>2. o3 = WithWorkOf(o, o.paired)
    BY <1>6, <1>11, <2>1 DEF o1, o2, AfterSmoke, AfterPaired
  <2>3. /\ o.paired \in DOMAIN results /\ Backs(o.paired, o3, "none")
        /\ results[o.paired].graph = FALSE
    BY <1>1, <2>1, <2>2, TakenBacks DEF ValidPaired
  <2> QED BY <2>1, <2>3 DEF ValidPaired
<1>12. Justified(o3)
  BY <1>7, <1>8, <1>9, <1>10, <1>11 DEF Justified
<1> QED BY <1>7, <1>12 DEF o3

-----------------------------------------------------------------------------
(* A run is what its invocation asked for, and does the frozen work.          *)
LEMMA RunTyped ==
    ASSUME MatrixInv, pc = "running", NEW r \in Leaves(Head(loop.todo))
    PROVE  /\ r \in Results /\ r.invocation = invocation
           /\ r.mode = options.modes[Done + 1] /\ r.mode = Head(loop.todo)
           /\ Done + 1 \in 1 .. Len(options.modes)
           /\ r.rows = options.trials /\ r.graph = options.graph
           /\ r.diagnostic = options.diagnostic /\ r.config = options.config
           /\ \A role \in {"bg", "int"} :
                /\ r[role] # 0 <=> role \in Roles(r.mode)
                /\ role \in Roles(r.mode) /\ loop[role] # 0 => r[role] = loop[role]
<1> DEFINE mode == Head(loop.todo)
<1>1. /\ r.invocation = invocation /\ r.mode = mode /\ r.rows = options.trials
      /\ r.graph = options.graph /\ r.diagnostic = options.diagnostic /\ r.config = options.config
      /\ r.int \in Work(mode, "int") /\ r.bg \in Work(mode, "bg")
      /\ r.complete \in BOOLEAN /\ r.sound \in BOOLEAN
      /\ r = [invocation |-> r.invocation, mode |-> r.mode, rows |-> r.rows, graph |-> r.graph,
              diagnostic |-> r.diagnostic, config |-> r.config, int |-> r.int, bg |-> r.bg,
              complete |-> r.complete, sound |-> r.sound]
  BY DEF Leaves
<1>2. /\ loop.todo # <<>> /\ loop.todo \in Seq(Modes) /\ options.modes \in Seq(Modes)
      /\ Done \in 0 .. Len(options.modes) /\ Done = Len(options.modes) - Len(loop.todo)
      /\ \A m \in 1 .. Len(loop.todo) : loop.todo[m] = options.modes[Done + m]
  BY DEF MatrixInv, InvocationOK, RunsInOrder, TypesOK, LoopSet, Options, Done
<1>3. mode = options.modes[Done + 1] /\ mode \in Modes /\ Done + 1 \in 1 .. Len(options.modes)
  <2>1. mode = loop.todo[1] /\ 1 \in 1 .. Len(loop.todo) /\ loop.todo[1] \in Modes
    BY <1>2, RangeOfModes
  <2>2. Len(options.modes) \in Nat /\ Len(loop.todo) \in Nat
    BY <1>2
  <2>3. Done + 1 \in 1 .. Len(options.modes)
    <3> DEFINE n == Len(options.modes)
               k == Len(loop.todo)
    <3>1. n \in Nat /\ k \in Nat /\ 1 \in 1 .. k
      BY <2>1, <2>2
    <3>2. Done = n - k /\ Done \in 0 .. n
      BY <1>2
    <3> HIDE DEF n, k
    <3>3. Done + 1 \in 1 .. n
      BY <3>1, <3>2
    <3> QED BY <3>3 DEF n
  <2> QED BY <1>2, <2>1, <2>3
<1> HIDE DEF mode
<1>4. options \in Options(Nat) /\ loop \in LoopSet
  BY DEF MatrixInv, InvocationOK, TypesOK
<1>5. ASSUME NEW role \in {"bg", "int"}
      PROVE  /\ r[role] \in Nat
             /\ r[role] # 0 <=> role \in Roles(mode)
             /\ role \in Roles(mode) /\ loop[role] # 0 => r[role] = loop[role]
  <2>1. r[role] \in Work(mode, role) /\ loop[role] \in Nat
    BY <1>1, <1>4 DEF LoopSet
  <2>2. Iterations \subseteq Nat \ {0}
    BY MatrixAssumption DEF MatrixAssumption
  <2>3. CASE role \notin Roles(mode)
    BY <2>1, <2>3 DEF Work
  <2>4. CASE role \in Roles(mode) /\ loop[role] # 0
    BY <2>1, <2>4 DEF Work
  <2>5. CASE role \in Roles(mode) /\ loop[role] = 0
    BY <2>1, <2>2, <2>5 DEF Work
  <2> QED BY <2>3, <2>4, <2>5
<1>6. invocation \in 1 .. campaign.invocations
  BY MatrixAssumption DEF MatrixAssumption, MatrixInv, TypesOK, InvocationOK
<1>7. /\ options.trials \in Nat \ {0} /\ options.config \in Configs
      /\ options.graph \in BOOLEAN /\ options.diagnostic \in BOOLEAN
  BY <1>4 DEF Options
<1>8. r \in Results
  BY <1>1, <1>3, <1>5, <1>6, <1>7 DEF Results
<1> QED BY <1>1, <1>3, <1>5, <1>8 DEF mode

LEMMA RunRepeats ==
    ASSUME MatrixInv, pc = "running", NEW r \in Leaves(Head(loop.todo)),
           NEW j \in DOMAIN results, NEW mode, Backs(j, options, mode)
    PROVE  SameWorkAs(results[j], r)
<1> SUFFICES ASSUME NEW role \in Roles(results[j].mode) \cap Roles(r.mode)
             PROVE  results[j][role] = r[role]
  BY DEF SameWorkAs
<1>1. role \in {"bg", "int"} /\ results[j].mode = mode
  BY RolesOfModes DEF Backs
<1>2. results[j][role] # 0 /\ options[role] = results[j][role]
  BY <1>1 DEF Backs, MatrixInv, ResultsOK
<1>3. loop[role] = options[role]
  BY <1>1, <1>2 DEF MatrixInv, InvocationOK, WorkFrozen
<1> QED BY <1>1, <1>2, <1>3, RunTyped

LEMMA RunFollows ==
    ASSUME MatrixInv, pc = "running", NEW r \in Leaves(Head(loop.todo)),
           NEW i \in DOMAIN results, results[i].invocation = invocation
    PROVE  results[i].complete /\ SameWorkAs(results[i], r) /\ SameWorkAs(r, results[i])
<1>1. Ran = Done /\ Done \in Nat /\ First \in Nat /\ Len(results) \in Nat
      /\ First = Len(results) - Done
  BY DEF Ran, First, Unjudged, MatrixInv, InvocationOK, RunsInOrder, TypesOK
<1>2. i \in First + 1 .. Len(results)
  BY DEF MatrixInv, InvocationOK, RunsInOrder, RunsOf
<1>3. PICK m \in 1 .. Done : i = First + m
  <2>1. i - First \in 1 .. Done /\ i = First + (i - First)
    BY <1>1, <1>2
  <2> QED BY <2>1
<1>4. results[i].complete
  <2>1. m \in 1 .. Ran /\ m <= Done /\ pc # "idle"
    BY <1>1
  <2> QED BY <1>3, <2>1 DEF MatrixInv, InvocationOK, RunsInOrder
<1>5. ASSUME NEW role \in Roles(results[i].mode) \cap Roles(r.mode)
      PROVE  results[i][role] = r[role]
  <2>1. role \in {"bg", "int"}
    BY RolesOfModes
  <2>2. m \in 1 .. Ran /\ m <= Done /\ pc # "idle" /\ role \in Roles(results[First + m].mode)
    BY <1>1, <1>3
  <2>3. loop[role] = results[i][role]
    BY <1>3, <2>1, <2>2 DEF MatrixInv, InvocationOK, WorkFrozen
  <2>4. results[i][role] # 0
    BY <2>1 DEF MatrixInv, ResultsOK
  <2> QED BY <2>1, <2>3, <2>4, RunTyped
<1> QED BY <1>4, <1>5 DEF SameWorkAs

LEMMA RunHasEvidence ==
    ASSUME MatrixInv, pc = "running", NEW r \in Leaves(Head(loop.todo))
    PROVE  /\ r.rows > 1 =>
                \E j \in DOMAIN results :
                    /\ SameKind(results[j], r) /\ results[j].graph = r.graph
                    /\ SameWorkAs(results[j], r)
                    /\ results[j].rows >= IF r.rows > 10 THEN 10 ELSE 1
           /\ r.graph /\ r.mode \in ActivePrimitives =>
                \E j \in DOMAIN results :
                    /\ SameKind(results[j], r) /\ ~ results[j].graph
                    /\ SameWorkAs(results[j], r) /\ results[j].rows >= 10
           /\ r.mode = "group-preempt-wait" =>
                \E j \in DOMAIN results :
                    /\ results[j].mode = "none" /\ results[j].rows = 1
                    /\ results[j].complete /\ results[j].sound
                    /\ ~ results[j].graph /\ results[j].config = Plain
                    /\ SameWorkAs(results[j], r)
<1>1. /\ Justified(options) /\ options.modes \in Seq(Modes)
      /\ r.mode = options.modes[Done + 1] /\ Done + 1 \in 1 .. Len(options.modes)
      /\ r.rows = options.trials /\ r.graph = options.graph
      /\ r.diagnostic = options.diagnostic /\ r.config = options.config
  BY RunTyped DEF MatrixInv, InvocationOK, Options
<1>2. r.mode \in Range(options.modes)
  BY <1>1, RangeOfModes
<1>3. ASSUME r.rows > 1
      PROVE  \E j \in DOMAIN results :
                /\ SameKind(results[j], r) /\ results[j].graph = r.graph
                /\ SameWorkAs(results[j], r)
                /\ results[j].rows >= IF r.rows > 10 THEN 10 ELSE 1
  <2>1. PICK j \in DOMAIN results :
            /\ Backs(j, options, Head(options.modes)) /\ results[j].graph = options.graph
            /\ results[j].rows >= IF options.trials > 10 THEN 10 ELSE 1
    BY <1>1, <1>3 DEF Justified
  <2>2. Len(options.modes) = 1
    BY <1>1, <1>3 DEF Justified
  <2>3. Head(options.modes) = r.mode
    BY <1>1, <2>2
  <2>4. SameKind(results[j], r) /\ SameWorkAs(results[j], r)
    BY <1>1, <2>1, <2>3, RunRepeats DEF Backs, SameKind
  <2> QED BY <1>1, <2>1, <2>4
<1>4. ASSUME r.graph, r.mode \in ActivePrimitives
      PROVE  \E j \in DOMAIN results :
                /\ SameKind(results[j], r) /\ ~ results[j].graph
                /\ SameWorkAs(results[j], r) /\ results[j].rows >= 10
  <2>1. PICK j \in DOMAIN results :
            /\ Backs(j, options, results[j].mode) /\ ~ results[j].graph /\ results[j].rows >= 10
            /\ Active(options) \ {"timeslice"} \subseteq {results[j].mode}
    BY <1>1, <1>4 DEF Justified
  <2>2. r.mode \in Active(options) \ {"timeslice"}
    BY <1>2, <1>4, RolesOfModes DEF Active
  <2>3. results[j].mode = r.mode
    BY <2>1, <2>2
  <2>4. SameKind(results[j], r) /\ SameWorkAs(results[j], r)
    BY <1>1, <2>1, <2>3, RunRepeats DEF Backs, SameKind
  <2> QED BY <2>1, <2>4
<1>5. ASSUME r.mode = "group-preempt-wait"
      PROVE  \E j \in DOMAIN results :
                /\ results[j].mode = "none" /\ results[j].rows = 1
                /\ results[j].complete /\ results[j].sound
                /\ ~ results[j].graph /\ results[j].config = Plain
                /\ SameWorkAs(results[j], r)
  <2>1. IsGroup(options)
    BY <1>2, <1>5 DEF IsGroup
  <2>2. PICK j \in DOMAIN results :
            Backs(j, options, "none") /\ ~ results[j].graph /\ results[j].rows = 1
    BY <1>1, <2>1 DEF Justified
  <2>3. SameWorkAs(results[j], r)
    BY <2>2, RunRepeats
  <2> QED BY <1>1, <2>1, <2>2, <2>3 DEF Justified, Backs
<1> QED BY <1>3, <1>4, <1>5

(* The runs in order, and what they did, when a run is added.                 *)
LEMMA RunAppended ==
    ASSUME MatrixInv, pc = "running", NEW r \in Leaves(Head(loop.todo)),
           results' = Append(results, r), UNCHANGED <<campaign, invocation>>
    PROVE  /\ results' \in Seq(Results) /\ ResultsOK'
           /\ Len(results') = Len(results) + 1 /\ results'[Len(results) + 1] = r
           /\ DOMAIN results' = 1 .. Len(results) + 1 /\ DOMAIN results = 1 .. Len(results)
           /\ \A i \in DOMAIN results : results'[i] = results[i]
<1> DEFINE n == Len(results)
<1>1. /\ results \in Seq(Results) /\ r \in Results /\ r.invocation = invocation
      /\ \A role \in {"bg", "int"} : r[role] # 0 <=> role \in Roles(r.mode)
  BY RunTyped DEF MatrixInv, TypesOK
<1>2. /\ n \in Nat /\ DOMAIN results = 1 .. n
      /\ Len(results') = n + 1 /\ results'[n + 1] = r /\ DOMAIN results' = 1 .. n + 1
      /\ \A i \in 1 .. n : results'[i] = results[i]
  BY <1>1
<1>3. Results' = Results
  BY DEF Results
<1>4. results' \in Seq(Results)
  BY <1>1
<1> HIDE DEF n
<1>5. \A i \in 1 .. n + 1 : i \in 1 .. n \/ i = n + 1
  BY <1>2
<1>6. ASSUME NEW i \in 1 .. n + 1
      PROVE  /\ results'[i].invocation <= invocation
             /\ \A j \in 1 .. i : results'[j].invocation <= results'[i].invocation
             /\ \A role \in {"bg", "int"} :
                    results'[i][role] # 0 <=> role \in Roles(results'[i].mode)
  <2>1. CASE i \in 1 .. n
    <3>1. \A j \in 1 .. i : results'[j] = results[j]
      BY <1>2, <2>1
    <3> QED BY <1>2, <2>1, <3>1 DEF MatrixInv, ResultsOK
  <2>2. CASE i = n + 1
    <3>1. invocation \in Nat
      BY MatrixAssumption DEF MatrixAssumption, MatrixInv, TypesOK
    <3>2. \A j \in 1 .. i : results'[j].invocation <= invocation
      BY <1>1, <1>2, <1>5, <2>2, <3>1 DEF MatrixInv, ResultsOK
    <3> QED BY <1>1, <1>2, <2>2, <3>1, <3>2
  <2> QED BY <1>5, <2>1, <2>2
<1>7. ASSUME NEW i \in 1 .. n + 1, NEW j \in 1 .. n + 1,
             results'[i].invocation = results'[j].invocation
      PROVE  SameWorkAs(results'[i], results'[j])
  <2>1. CASE i \in 1 .. n /\ j \in 1 .. n
    BY <1>2, <1>7, <2>1 DEF MatrixInv, ResultsOK, SameWork
  <2>2. CASE i = n + 1 /\ j \in 1 .. n
    BY <1>1, <1>2, <1>7, <2>2, RunFollows
  <2>3. CASE i \in 1 .. n /\ j = n + 1
    BY <1>1, <1>2, <1>7, <2>3, RunFollows
  <2>4. CASE i = n + 1 /\ j = n + 1
    BY <1>2, <2>4 DEF SameWorkAs
  <2> QED BY <1>5, <2>1, <2>2, <2>3, <2>4
<1>8. ASSUME NEW i \in 1 .. n + 1, NEW j \in 1 .. n + 1, i < j,
             results'[i].invocation = results'[j].invocation
      PROVE  results'[i].complete
  <2>1. i \in 1 .. n
    BY <1>2, <1>8
  <2>2. CASE j \in 1 .. n
    BY <1>2, <1>8, <2>1, <2>2 DEF MatrixInv, ResultsOK, NothingAfterFailure
  <2>3. CASE j = n + 1
    BY <1>1, <1>2, <1>8, <2>1, <2>3, RunFollows
  <2> QED BY <1>5, <2>2, <2>3
<1>9. EvidenceFirst'
  <2>1. ASSUME NEW i \in 1 .. n + 1
        PROVE  /\ results'[i].rows > 1 =>
                    \E j \in 1 .. i - 1 :
                        /\ SameKind(results'[j], results'[i])
                        /\ results'[j].graph = results'[i].graph
                        /\ SameWorkAs(results'[j], results'[i])
                        /\ results'[j].rows >= IF results'[i].rows > 10 THEN 10 ELSE 1
               /\ results'[i].graph /\ results'[i].mode \in ActivePrimitives =>
                    \E j \in 1 .. i - 1 :
                        /\ SameKind(results'[j], results'[i]) /\ ~ results'[j].graph
                        /\ SameWorkAs(results'[j], results'[i]) /\ results'[j].rows >= 10
               /\ results'[i].mode = "group-preempt-wait" =>
                    \E j \in 1 .. i - 1 :
                        /\ results'[j].mode = "none" /\ results'[j].rows = 1
                        /\ results'[j].complete /\ results'[j].sound
                        /\ ~ results'[j].graph /\ results'[j].config = Plain
                        /\ SameWorkAs(results'[j], results'[i])
    <3>1. CASE i \in 1 .. n
      <4>1. \A j \in 1 .. i - 1 : results'[j] = results[j]
        BY <1>2, <3>1
      <4>2. results'[i] = results[i] /\ i \in DOMAIN results
        BY <1>2, <3>1
      <4>3. EvidenceFirst
        BY DEF MatrixInv, ResultsOK
      <4>4. results'[i].rows > 1 =>
                \E j \in 1 .. i - 1 :
                    /\ SameKind(results'[j], results'[i])
                    /\ results'[j].graph = results'[i].graph
                    /\ SameWorkAs(results'[j], results'[i])
                    /\ results'[j].rows >= IF results'[i].rows > 10 THEN 10 ELSE 1
        BY <4>1, <4>2, <4>3 DEF EvidenceFirst, Ladder
      <4>5. results'[i].graph /\ results'[i].mode \in ActivePrimitives =>
                \E j \in 1 .. i - 1 :
                    /\ SameKind(results'[j], results'[i]) /\ ~ results'[j].graph
                    /\ SameWorkAs(results'[j], results'[i]) /\ results'[j].rows >= 10
        BY <4>1, <4>2, <4>3 DEF EvidenceFirst, GraphNeedsPrimitive
      <4>6. results'[i].mode = "group-preempt-wait" =>
                \E j \in 1 .. i - 1 :
                    /\ results'[j].mode = "none" /\ results'[j].rows = 1
                    /\ results'[j].complete /\ results'[j].sound
                    /\ ~ results'[j].graph /\ results'[j].config = Plain
                    /\ SameWorkAs(results'[j], results'[i])
        BY <4>1, <4>2, <4>3 DEF EvidenceFirst, GroupPaired
      <4> QED BY <4>4, <4>5, <4>6
    <3>2. CASE i = n + 1
      <4>1. 1 .. i - 1 = DOMAIN results /\ results'[i] = r
        BY <1>2, <3>2
      <4>2. \A j \in DOMAIN results : results'[j] = results[j]
        BY <1>2
      <4>3. r.rows > 1 =>
                \E j \in 1 .. i - 1 :
                    /\ SameKind(results'[j], r) /\ results'[j].graph = r.graph
                    /\ SameWorkAs(results'[j], r)
                    /\ results'[j].rows >= IF r.rows > 10 THEN 10 ELSE 1
        BY <4>1, <4>2, RunHasEvidence
      <4>4. r.graph /\ r.mode \in ActivePrimitives =>
                \E j \in 1 .. i - 1 :
                    /\ SameKind(results'[j], r) /\ ~ results'[j].graph
                    /\ SameWorkAs(results'[j], r) /\ results'[j].rows >= 10
        BY <4>1, <4>2, RunHasEvidence
      <4>5. r.mode = "group-preempt-wait" =>
                \E j \in 1 .. i - 1 :
                    /\ results'[j].mode = "none" /\ results'[j].rows = 1
                    /\ results'[j].complete /\ results'[j].sound
                    /\ ~ results'[j].graph /\ results'[j].config = Plain
                    /\ SameWorkAs(results'[j], r)
        BY <4>1, <4>2, RunHasEvidence
      <4> QED BY <4>1, <4>3, <4>4, <4>5
    <3> QED BY <1>5, <3>1, <3>2
  <2>2. DOMAIN results' = 1 .. n + 1
    BY <1>2
  <2>3. Ladder'
    BY <2>1, <2>2 DEF Ladder
  <2>4. GraphNeedsPrimitive'
    BY <2>1, <2>2 DEF GraphNeedsPrimitive
  <2>5. GroupPaired'
    BY <2>1, <2>2 DEF GroupPaired
  <2> QED BY <2>3, <2>4, <2>5 DEF EvidenceFirst
<1>10. ResultsOK'
  BY <1>2, <1>6, <1>7, <1>8, <1>9 DEF ResultsOK, SameWork, NothingAfterFailure
<1> QED BY <1>2, <1>4, <1>10 DEF n

(* Results that are still there still justify.                                *)
LEMMA JustifiedStays ==
    ASSUME MatrixInv, pc # "idle", options' = options,
           \A i \in DOMAIN results : i \in DOMAIN results' /\ results'[i] = results[i]
    PROVE  Justified(options)'
BY DEF MatrixInv, InvocationOK, Justified, Backs, Active, IsGroup

LEMMA ResultsStay ==
    ASSUME MatrixInv, results' = results, campaign' = campaign,
           invocation' \in 0 .. campaign.invocations, invocation <= invocation'
    PROVE  results' \in Seq(Results)' /\ ResultsOK'
<1>1. results' \in Seq(Results)'
  BY DEF MatrixInv, TypesOK, Results
<1>2. SameWork' /\ NothingAfterFailure'
  BY DEF MatrixInv, ResultsOK, SameWork, NothingAfterFailure
<1>3. EvidenceFirst'
  BY DEF MatrixInv, ResultsOK, EvidenceFirst, Ladder, GraphNeedsPrimitive, GroupPaired
<1>4. \A i \in DOMAIN results : results[i].invocation \in Nat
  <2> SUFFICES ASSUME NEW i \in DOMAIN results PROVE results[i].invocation \in Nat
    OBVIOUS
  <2>1. results[i] \in Results
    BY DEF MatrixInv, TypesOK
  <2> QED BY <2>1 DEF Results
<1>5. invocation \in Nat /\ invocation' \in Nat
  BY MatrixAssumption DEF MatrixAssumption, MatrixInv, TypesOK
<1>6. \A i \in DOMAIN results : results[i].invocation <= invocation'
  BY <1>4, <1>5 DEF MatrixInv, ResultsOK
<1> QED BY <1>1, <1>2, <1>3, <1>6 DEF MatrixInv, ResultsOK

-----------------------------------------------------------------------------
(* The end of an invocation, with or without a last run.                      *)
LEMMA ConcludePreserves ==
    ASSUME MatrixInv, NEW text \in {"none", "blocked", "skipped", "stopped", "completed"},
           Conclude(text), UNCHANGED <<campaign, invocation>>,
           results' = results \/
             (pc = "running" /\ \E r \in Leaves(Head(loop.todo)) : results' = Append(results, r))
    PROVE  MatrixInv'
<1>1. Results' = Results
  BY DEF Results
<1>2. results' \in Seq(Results) /\ ResultsOK'
  <2>1. CASE results' = results
    <3>1. invocation \in 0 .. campaign.invocations /\ invocation <= invocation
      BY MatrixAssumption DEF MatrixAssumption, MatrixInv, TypesOK
    <3> QED BY <1>1, <2>1, <3>1, ResultsStay
  <2>2. CASE pc = "running" /\ \E r \in Leaves(Head(loop.todo)) : results' = Append(results, r)
    BY <2>2, RunAppended
  <2> QED BY <2>1, <2>2
<1>3. loop' \in LoopSet
  BY DEF Conclude, NoLoop, LoopSet
<1>4. TypesOK'
  BY <1>1, <1>2, <1>3 DEF MatrixInv, TypesOK, Conclude
<1> QED BY <1>2, <1>4 DEF MatrixInv, InvocationOK, Conclude

(* From one place to the next without a run.                                  *)
LEMMA GotoPreserves ==
    ASSUME MatrixInv, NEW where \in {"gate", "probes", "loop", "running"}, Goto(where),
           UNCHANGED <<campaign, results, invocation>>,
           pc \in {"preflight", "gate", "probes"} \/ (pc = "loop" /\ where = "running"),
           where = "running" => loop.todo # <<>>
    PROVE  MatrixInv'
<1>1. pc # "idle" /\ pc' # "idle" /\ ~ Unjudged /\ ~ Unjudged' /\ pc # "running"
      /\ UNCHANGED <<options, loop, summary>> /\ pc' = where
  BY DEF Goto, Unjudged
<1>2. invocation \in 0 .. campaign.invocations /\ invocation <= invocation
  BY MatrixAssumption DEF MatrixAssumption, MatrixInv, TypesOK
<1>3. results' \in Seq(Results)' /\ ResultsOK'
  BY <1>2, ResultsStay
<1>4. TypesOK'
  BY <1>1, <1>3 DEF MatrixInv, TypesOK
<1>5. Justified(options)'
  BY <1>1, JustifiedStays
<1>6. Done' = Done /\ Ran' = Ran /\ First' = First /\ Ran = Done
  BY <1>1 DEF Done, Ran, First
<1>7. RunsInOrder'
  BY <1>1, <1>6 DEF MatrixInv, InvocationOK, RunsInOrder, RunsOf
<1>8. WorkFrozen'
  BY <1>1, <1>6 DEF MatrixInv, InvocationOK, WorkFrozen
<1> QED BY <1>1, <1>3, <1>4, <1>5, <1>7, <1>8 DEF MatrixInv, InvocationOK

-----------------------------------------------------------------------------
LEMMA MatrixInitEstablishes == Init => MatrixInv
<1> SUFFICES ASSUME Init PROVE MatrixInv
  OBVIOUS
<1>1. loop \in LoopSet
  BY DEF Init, NoLoop, LoopSet
<1>2. TypesOK
  BY <1>1, MatrixAssumption DEF MatrixAssumption, TypesOK, Init
<1>3. DOMAIN results = {}
  BY DEF Init
<1>4. ResultsOK
  BY <1>3 DEF ResultsOK, SameWork, NothingAfterFailure, EvidenceFirst, Ladder, GraphNeedsPrimitive,
              GroupPaired
<1> QED BY <1>2, <1>4 DEF MatrixInv, InvocationOK, Init

LEMMA InvokePreserves ==
    ASSUME MatrixInv, NEW request \in campaign.requests,
           NEW smoke \in Evidence, NEW primitive \in Evidence, NEW paired \in Evidence,
           Invoke(request, smoke, primitive, paired)
    PROVE  MatrixInv'
<1> DEFINE o == [request EXCEPT !.smoke = smoke, !.primitive = primitive, !.paired = paired]
           a == Admitted(o)
<1>1. campaign \in Campaigns /\ campaign.invocations \in Nat /\ invocation \in Nat
  BY MatrixAssumption DEF MatrixAssumption, MatrixInv, TypesOK
<1>2. request \in Options({NoEvidence}) /\ request.modes # <<>>
  BY <1>1, RequestsTyped
<1>3. Evidence \subseteq Nat
  BY DEF Evidence, NoEvidence, MatrixInv, TypesOK
<1>4. o \in Options(Nat) /\ o.modes = request.modes
  BY <1>2, <1>3 DEF Options
<1>5. Admissible(o)
  BY DEF Invoke
<1>6. /\ invocation' = invocation + 1 /\ invocation < campaign.invocations
      /\ options' = a
      /\ loop' = [NoLoop EXCEPT !.int = a.int, !.bg = a.bg, !.todo = o.modes]
      /\ pc' = "preflight" /\ summary' = "none"
      /\ UNCHANGED <<campaign, results>>
  BY DEF Invoke
<1> HIDE DEF o
<1>7. a \in Options(Nat) /\ Justified(a) /\ a.modes = o.modes
  BY <1>2, <1>4, <1>5, AdmittedIsJustified DEF MatrixInv
<1> HIDE DEF a
<1>8. /\ loop' \in LoopSet /\ loop'.todo = a.modes /\ loop'.int = a.int /\ loop'.bg = a.bg
      /\ loop'.interrupted = FALSE
  BY <1>6, <1>7 DEF NoLoop, LoopSet, Options
<1>9. invocation' \in 0 .. campaign.invocations /\ invocation <= invocation' /\ invocation' # 0
  BY <1>1, <1>6
<1>10. results' \in Seq(Results)' /\ ResultsOK'
  BY <1>6, <1>9, ResultsStay
<1>11. TypesOK'
  BY <1>1, <1>6, <1>8, <1>9, <1>10 DEF TypesOK
<1>12. Justified(options)'
  BY <1>6, <1>7 DEF Justified, Backs, Active, IsGroup
<1>13. /\ Done' = 0 /\ Ran' = 0 /\ First' = Len(results) /\ Len(results) \in Nat
       /\ Len(a.modes) \in Nat /\ DOMAIN results = 1 .. Len(results)
  <2>1. Len(a.modes) \in Nat /\ Len(results) \in Nat /\ DOMAIN results = 1 .. Len(results)
    BY <1>7 DEF Options, MatrixInv, TypesOK
  <2>2. Done' = 0
    BY <1>6, <1>8, <2>1 DEF Done
  <2> QED BY <1>6, <2>1, <2>2 DEF Ran, First, Unjudged
<1>14. RunsInOrder'
  <2>1. RunsOf(invocation)' = {}
    <3> SUFFICES ASSUME NEW i \in DOMAIN results, results[i].invocation = invocation + 1
                 PROVE  FALSE
      BY <1>6 DEF RunsOf
    <3> QED BY <1>1 DEF MatrixInv, ResultsOK
  <2>2. First' + 1 .. Len(results') = {}
    BY <1>6, <1>13
  <2>3. Done' \in 0 .. Len(options'.modes) /\ First' \in Nat
    BY <1>6, <1>13
  <2>4. \A m \in 1 .. Len(loop'.todo) : loop'.todo[m] = options'.modes[Done' + m]
    <3> SUFFICES ASSUME NEW m \in 1 .. Len(a.modes) PROVE a.modes[m] = a.modes[0 + m]
      BY <1>6, <1>8, <1>13
    <3> QED BY <1>13
  <2>5. 1 .. Ran' = {}
    BY <1>13
  <2>6. RunsOf(invocation)' = First' + 1 .. Len(results')
    BY <2>1, <2>2
  <2>7. pc' # "running" /\ ~ Unjudged' /\ Done' = 0
    BY <1>6, <1>13 DEF Unjudged
  <2> QED BY <2>3, <2>4, <2>5, <2>6, <2>7 DEF RunsInOrder
<1>15. WorkFrozen'
  <2>1. 1 .. Ran' = {}
    BY <1>13
  <2>2. \A role \in {"bg", "int"} : options'[role] # 0 => loop'[role] = options'[role]
    BY <1>6, <1>8
  <2> QED BY <2>1, <2>2 DEF WorkFrozen
<1> QED BY <1>6, <1>7, <1>8, <1>9, <1>10, <1>11, <1>12, <1>14, <1>15 DEF MatrixInv, InvocationOK

(* The run joins those of its invocation, not judged yet.                     *)
LEMMA RunEndsPreserves ==
    ASSUME MatrixInv, NEW r \in Leaves(Head(loop.todo)), RunEnds(r)
    PROVE  MatrixInv'
<1> DEFINE n == Len(results)
<1>1. /\ pc = "running" /\ pc' = "recover" /\ results' = Append(results, r)
      /\ UNCHANGED <<campaign, invocation, options, summary>>
  BY DEF RunEnds
<1>2. PICK ok \in BOOLEAN : /\ ok => r.complete /\ ~ loop.interrupted
                            /\ loop' = [loop EXCEPT !.exit = ok]
  BY DEF RunEnds
<1>3. /\ loop' \in LoopSet /\ loop'.exit = ok /\ loop'.int = loop.int /\ loop'.bg = loop.bg
      /\ loop'.todo = loop.todo /\ loop'.interrupted = loop.interrupted
  BY <1>2 DEF MatrixInv, TypesOK, LoopSet
<1>4. /\ results' \in Seq(Results) /\ ResultsOK'
      /\ Len(results') = n + 1 /\ results'[n + 1] = r
      /\ DOMAIN results' = 1 .. n + 1 /\ DOMAIN results = 1 .. n
      /\ \A i \in DOMAIN results : results'[i] = results[i]
  BY <1>1, RunAppended
<1>5. TypesOK'
  BY <1>1, <1>3, <1>4 DEF MatrixInv, TypesOK, Results
<1>6. Justified(options)'
  BY <1>1, <1>4, JustifiedStays
<1>7. /\ Done \in Nat /\ Done <= Len(options.modes) /\ Ran = Done /\ First \in Nat
      /\ First = n - Done /\ n \in Nat
  BY <1>1 DEF MatrixInv, InvocationOK, RunsInOrder, Ran, First, Unjudged, TypesOK
<1>8. Done' = Done /\ Ran' = Done + 1 /\ First' = First
  <2>1. Done' = Done
    BY <1>1, <1>3 DEF Done
  <2>2. Ran' = Done + 1
    BY <1>1, <2>1 DEF Ran, Unjudged
  <2> QED BY <1>4, <1>7, <2>1, <2>2 DEF First
<1>9. /\ r.invocation = invocation /\ r.mode = options.modes[Done + 1]
      /\ \A role \in {"bg", "int"} :
            role \in Roles(r.mode) /\ loop[role] # 0 => r[role] = loop[role]
  BY <1>1, RunTyped
<1> HIDE DEF n
<1>10. /\ \A m \in 1 .. Done : First + m \in DOMAIN results /\ results'[First + m] = results[First + m]
       /\ results'[First + Done + 1] = r
       /\ \A m \in 1 .. Done + 1 : m \in 1 .. Done \/ m = Done + 1
  <2>1. \A m \in 1 .. Done : First + m \in 1 .. n
    BY <1>7
  <2>2. First + Done + 1 = n + 1
    BY <1>7
  <2>3. \A m \in 1 .. Done + 1 : m \in 1 .. Done \/ m = Done + 1
    BY <1>7
  <2> QED BY <1>4, <2>1, <2>2, <2>3
<1>11. RunsInOrder'
  <2>1. RunsOf(invocation)' = RunsOf(invocation) \cup {n + 1}
    BY <1>1, <1>4, <1>7, <1>9 DEF RunsOf
  <2>2. RunsOf(invocation) = First + 1 .. n
    BY <1>1 DEF MatrixInv, InvocationOK, RunsInOrder, n
  <2>3. RunsOf(invocation)' = First' + 1 .. Len(results')
    BY <1>4, <1>7, <1>8, <2>1, <2>2
  <2>4. ASSUME NEW m \in 1 .. Done + 1
        PROVE  /\ results'[First + m].mode = options.modes[m]
               /\ m <= Done \/ ok => results'[First + m].complete
    <3>1. CASE m \in 1 .. Done
      <4>1. m \in 1 .. Ran /\ m <= Done /\ pc # "idle" /\ results'[First + m] = results[First + m]
        BY <1>1, <1>7, <1>10, <3>1
      <4> QED BY <4>1 DEF MatrixInv, InvocationOK, RunsInOrder
    <3>2. CASE m = Done + 1
      <4>1. results'[First + m] = r /\ ~ (m <= Done)
        BY <1>7, <1>10, <3>2
      <4> QED BY <1>2, <1>9, <3>2, <4>1
    <3> QED BY <1>10, <3>1, <3>2
  <2>5. /\ loop'.todo # <<>> /\ Done \in 0 .. Len(options.modes)
        /\ \A m \in 1 .. Len(loop'.todo) : loop'.todo[m] = options.modes[Done + m]
    BY <1>1, <1>3 DEF MatrixInv, InvocationOK, RunsInOrder
  <2> QED BY <1>1, <1>3, <1>7, <1>8, <2>3, <2>4, <2>5 DEF RunsInOrder
<1>12. WorkFrozen'
  <2> SUFFICES ASSUME NEW role \in {"bg", "int"}
               PROVE  /\ options[role] # 0 => loop[role] = options[role]
                      /\ \A m \in 1 .. Done + 1 : role \in Roles(results'[First + m].mode) =>
                            IF m <= Done THEN loop[role] = results'[First + m][role]
                            ELSE loop[role] # 0 => loop[role] = results'[First + m][role]
    BY <1>1, <1>3, <1>8 DEF WorkFrozen
  <2>1. options[role] # 0 => loop[role] = options[role]
    BY <1>1 DEF MatrixInv, InvocationOK, WorkFrozen
  <2>2. ASSUME NEW m \in 1 .. Done, role \in Roles(results[First + m].mode)
        PROVE  loop[role] = results[First + m][role]
    <3>1. m \in 1 .. Ran /\ m <= Done /\ pc # "idle"
      BY <1>1, <1>7
    <3> QED BY <2>2, <3>1 DEF MatrixInv, InvocationOK, WorkFrozen
  <2>3. \A m \in 1 .. Done : m <= Done
    BY <1>7
  <2>4. ~ (Done + 1 <= Done) /\ results'[First + (Done + 1)] = r
    BY <1>7, <1>10
  <2> QED BY <1>9, <1>10, <2>1, <2>2, <2>3, <2>4
<1>13. loop'.interrupted => Unjudged' /\ ~ loop'.exit
  BY <1>1, <1>2, <1>3 DEF Unjudged
<1> QED BY <1>1, <1>4, <1>5, <1>6, <1>11, <1>12, <1>13 DEF MatrixInv, InvocationOK

(* The exit of a run that is not judged yet can only get worse.               *)
LEMMA ExitPreserves ==
    ASSUME MatrixInv, pc = "recover" \/ (pc = "running" /\ loop'.exit = loop.exit),
           IF pc = "running" THEN pc' = "running" ELSE pc' = "judge",
           UNCHANGED <<campaign, results, invocation, options, summary>>,
           loop' \in LoopSet, loop'.int = loop.int, loop'.bg = loop.bg, loop'.todo = loop.todo,
           loop'.exit => loop.exit,
           loop'.interrupted => pc = "running" \/ ~ loop'.exit
    PROVE  MatrixInv'
<1>1. pc # "idle" /\ pc' # "idle" /\ Unjudged' = Unjudged
  BY DEF Unjudged
<1>2. invocation \in 0 .. campaign.invocations /\ invocation <= invocation
  BY MatrixAssumption DEF MatrixAssumption, MatrixInv, TypesOK
<1>3. results' \in Seq(Results)' /\ ResultsOK'
  BY <1>2, ResultsStay
<1>4. TypesOK'
  BY <1>3 DEF MatrixInv, TypesOK
<1>5. Justified(options)'
  BY <1>1, JustifiedStays
<1>6. Done' = Done /\ Ran' = Ran /\ First' = First
  BY <1>1 DEF Done, Ran, First
<1>7. RunsInOrder'
  BY <1>1, <1>6 DEF MatrixInv, InvocationOK, RunsInOrder, RunsOf
<1>8. WorkFrozen'
  BY <1>1, <1>6 DEF MatrixInv, InvocationOK, WorkFrozen
<1>9. loop'.interrupted => pc' = "running" \/ (Unjudged' /\ ~ loop'.exit)
  BY DEF Unjudged
<1> QED BY <1>1, <1>3, <1>4, <1>5, <1>7, <1>8, <1>9 DEF MatrixInv, InvocationOK

(* A run whose exit is 0 counts as done, and the next ones do its work.       *)
LEMMA ContinuePreserves ==
    ASSUME MatrixInv, Continue PROVE MatrixInv'
<1> DEFINE n == Len(results)
           last == results[n]
<1>1. /\ pc = "judge" /\ loop.exit /\ pc' = "loop"
      /\ loop' = [loop EXCEPT !.int = last.int,
                              !.bg = IF "bg" \in Roles(last.mode) THEN last.bg ELSE @,
                              !.todo = Tail(@)]
      /\ UNCHANGED <<campaign, results, invocation, options, summary>>
  BY DEF Continue
<1>2. /\ Done \in Nat /\ Done <= Len(options.modes) /\ Ran = Done + 1 /\ First \in Nat
      /\ First = n - (Done + 1) /\ n \in Nat /\ loop.todo # <<>> /\ loop.todo \in Seq(Modes)
      /\ Done = Len(options.modes) - Len(loop.todo) /\ Len(options.modes) \in Nat
  BY <1>1 DEF MatrixInv, InvocationOK, RunsInOrder, Done, Ran, First, Unjudged, TypesOK, LoopSet, Options
<1>3. /\ Tail(loop.todo) \in Seq(Modes) /\ Len(Tail(loop.todo)) = Len(loop.todo) - 1
      /\ Len(loop.todo) \in Nat \ {0}
      /\ \A i \in 1 .. Len(loop.todo) - 1 : Tail(loop.todo)[i] = loop.todo[i + 1]
  BY <1>2, RangeOfModes
<1> DEFINE all == Len(options.modes)
           left == Len(loop.todo)
           done == Done
           first == First
<1>n. /\ done \in Nat /\ first \in Nat /\ all \in Nat /\ left \in Nat \ {0} /\ n \in Nat
      /\ first + (done + 1) = n /\ n \in 1 .. n /\ done + 1 \in 1 .. all /\ done + 1 \in 1 .. Ran
      /\ done + 1 \in 0 .. all /\ all - (left - 1) = done + 1 /\ ~ (done + 1 <= done)
      /\ Ran = done + 1
      /\ \A m \in 1 .. Ran : /\ m <= done + 1 /\ (m # done + 1 => m <= done)
                             /\ first + m \in first + 1 .. n
      /\ n \in first + 1 .. n
      /\ \A m \in 1 .. left - 1 : m + 1 \in 1 .. left /\ done + (m + 1) = done + 1 + m
  <2>1. /\ done \in Nat /\ done <= all /\ first \in Nat /\ first = n - (done + 1) /\ n \in Nat
        /\ done = all - left /\ all \in Nat /\ left \in Nat \ {0} /\ Ran = done + 1
    BY <1>2, <1>3
  <2> HIDE DEF n, all, left, done, first
  <2> QED BY <2>1
<1>4. n \in DOMAIN results /\ last \in Results /\ First + (Done + 1) = n
  <2>1. results \in Seq(Results)
    BY DEF MatrixInv, TypesOK
  <2> QED BY <1>n, <2>1
<1>5. last.int \in Nat /\ last.bg \in Nat
  BY <1>4 DEF Results
<1>6. /\ loop' \in LoopSet /\ loop'.int = last.int
      /\ loop'.bg = IF "bg" \in Roles(last.mode) THEN last.bg ELSE loop.bg
      /\ loop'.todo = Tail(loop.todo) /\ loop'.exit /\ loop'.interrupted = loop.interrupted
  BY <1>1, <1>3, <1>5 DEF MatrixInv, TypesOK, LoopSet
<1>7. invocation \in 0 .. campaign.invocations /\ invocation <= invocation
  BY MatrixAssumption DEF MatrixAssumption, MatrixInv, TypesOK
<1>8. results' \in Seq(Results)' /\ ResultsOK'
  BY <1>1, <1>7, ResultsStay
<1>9. TypesOK'
  BY <1>1, <1>6, <1>8 DEF MatrixInv, TypesOK
<1>10. Justified(options)'
  BY <1>1, JustifiedStays
<1>11. Done' = Done + 1 /\ Ran' = Ran /\ First' = First
  <2>1. Done' = all - (left - 1)
    BY <1>1, <1>3, <1>6 DEF Done
  <2>2. Ran' = Ran
    BY <1>1, <1>n, <2>1 DEF Ran, Unjudged
  <2> QED BY <1>1, <1>n, <2>1, <2>2 DEF First
<1> HIDE DEF n, last
<1>12. RunsInOrder'
  <2>1. \A m \in 1 .. Ran : results[First + m].mode = options.modes[m] /\ results[First + m].complete
    BY <1>1 DEF MatrixInv, InvocationOK, RunsInOrder
  <2>2. \A m \in 1 .. Len(loop'.todo) : loop'.todo[m] = options.modes[Done + 1 + m]
    <3> SUFFICES ASSUME NEW m \in 1 .. Len(loop.todo) - 1
                 PROVE  loop.todo[m + 1] = options.modes[Done + 1 + m]
      BY <1>3, <1>6
    <3>1. m + 1 \in 1 .. Len(loop.todo) /\ Done + (m + 1) = Done + 1 + m
      BY <1>n
    <3>2. loop.todo[m + 1] = options.modes[Done + (m + 1)]
      BY <1>1, <3>1 DEF MatrixInv, InvocationOK, RunsInOrder
    <3> QED BY <3>1, <3>2
  <2>3. Done + 1 \in 0 .. Len(options.modes)
    BY <1>n
  <2>4. RunsOf(invocation)' = First + 1 .. Len(results)
    BY <1>1 DEF MatrixInv, InvocationOK, RunsInOrder, RunsOf
  <2>5. pc' = "loop" /\ pc' # "running" /\ ~ Unjudged'
    BY <1>1 DEF Unjudged
  <2>6. First' \in Nat /\ results' = results /\ options' = options
    BY <1>1, <1>n, <1>11
  <2> QED BY <1>11, <2>1, <2>2, <2>3, <2>4, <2>5, <2>6 DEF RunsInOrder
<1>13. WorkFrozen'
  <2>w. /\ options' = options /\ results' = results
        /\ Done' = Done + 1 /\ Ran' = Ran /\ First' = First
    BY <1>1, <1>11
  <2> SUFFICES ASSUME NEW role \in {"bg", "int"}
               PROVE  /\ options[role] # 0 => loop'[role] = options[role]
                      /\ \A m \in 1 .. Ran : role \in Roles(results[First + m].mode) =>
                            IF m <= Done + 1 THEN loop'[role] = results[First + m][role]
                            ELSE loop'[role] # 0 => loop'[role] = results[First + m][role]
    BY <2>w DEF WorkFrozen
  <2>1. Done + 1 \in 1 .. Ran /\ results[First + (Done + 1)] = last /\ ~ (Done + 1 <= Done)
    BY <1>n, <1>4 DEF last
  <2>2. /\ options[role] # 0 => loop[role] = options[role]
        /\ role \in Roles(last.mode) /\ loop[role] # 0 => loop[role] = last[role]
    BY <1>1, <2>1 DEF MatrixInv, InvocationOK, WorkFrozen
  <2>3. role \in Roles(last.mode) => loop'[role] = last[role]
    BY <1>6
  <2>4. role \notin Roles(last.mode) => role = "bg" /\ loop'[role] = loop[role]
    BY <1>6, RolesOfModes
  <2>5. ASSUME NEW m \in 1 .. Ran, role \in Roles(results[First + m].mode)
        PROVE  loop'[role] = results[First + m][role] /\ m <= Done + 1
    <3>1. m <= Done + 1
      BY <1>n
    <3>2. CASE role \in Roles(last.mode)
      <4>1. First + m \in First + 1 .. n /\ n \in First + 1 .. n
        BY <1>n
      <4>2. First + m \in RunsOf(invocation) /\ n \in RunsOf(invocation)
        BY <1>1, <4>1 DEF MatrixInv, InvocationOK, RunsInOrder, n
      <4>3. SameWorkAs(results[First + m], last)
        BY <4>2 DEF RunsOf, MatrixInv, ResultsOK, SameWork, last
      <4> QED BY <2>3, <2>5, <3>1, <3>2, <4>3 DEF SameWorkAs
    <3>3. CASE role \notin Roles(last.mode)
      <4>1. m # Done + 1
        BY <2>1, <2>5, <3>3
      <4>2. m <= Done
        BY <1>n, <4>1
      <4>3. loop[role] = results[First + m][role]
        BY <1>1, <2>5, <4>2 DEF MatrixInv, InvocationOK, WorkFrozen
      <4> QED BY <2>4, <3>1, <3>3, <4>3
    <3> QED BY <3>2, <3>3
  <2> QED BY <2>2, <2>3, <2>4, <2>5
<1>14. ~ loop'.interrupted
  BY <1>1, <1>6 DEF MatrixInv, InvocationOK
<1> QED BY <1>1, <1>8, <1>9, <1>10, <1>12, <1>13, <1>14 DEF MatrixInv, InvocationOK

(* The other steps: an interrupt received, a step between runs, an end.       *)
LEMMA StaysPreserves ==
    ASSUME MatrixInv, UNCHANGED vars PROVE MatrixInv'
<1>1. invocation \in 0 .. campaign.invocations /\ invocation <= invocation
  BY MatrixAssumption DEF MatrixAssumption, MatrixInv, TypesOK
<1>2. results' \in Seq(Results)' /\ ResultsOK'
  BY <1>1, ResultsStay DEF vars
<1>3. TypesOK'
  BY <1>2 DEF MatrixInv, TypesOK, vars
<1>4. Unjudged' = Unjudged /\ Done' = Done /\ Ran' = Ran /\ First' = First
  BY DEF Unjudged, Done, Ran, First, vars
<1>5. CASE pc = "idle"
  BY <1>2, <1>3, <1>5 DEF MatrixInv, InvocationOK, vars
<1>6. CASE pc # "idle"
  <2>1. Justified(options)'
    BY <1>6, JustifiedStays DEF vars
  <2>2. RunsInOrder'
    BY <1>4, <1>6 DEF MatrixInv, InvocationOK, RunsInOrder, RunsOf, vars
  <2>3. WorkFrozen'
    BY <1>4, <1>6 DEF MatrixInv, InvocationOK, WorkFrozen, vars
  <2> QED BY <1>2, <1>3, <1>4, <1>6, <2>1, <2>2, <2>3 DEF MatrixInv, InvocationOK, vars
<1> QED BY <1>5, <1>6

LEMMA RecoverPreserves ==
    ASSUME MatrixInv, NEW ok \in BOOLEAN, Recover(ok) PROVE MatrixInv'
<1>1. /\ pc = "recover" /\ pc' = "judge" /\ loop' = [loop EXCEPT !.exit = @ /\ ok]
      /\ UNCHANGED <<campaign, results, invocation, options, summary>>
  BY DEF Recover
<1>2. loop \in LoopSet
  BY DEF MatrixInv, TypesOK
<1>3. /\ loop' \in LoopSet /\ loop'.int = loop.int /\ loop'.bg = loop.bg
      /\ loop'.todo = loop.todo /\ loop'.interrupted = loop.interrupted
      /\ (loop'.exit => loop.exit)
  BY <1>1, <1>2 DEF LoopSet
<1>4. loop'.interrupted => ~ loop'.exit
  BY <1>1, <1>3 DEF MatrixInv, InvocationOK, Unjudged
<1> QED BY <1>1, <1>3, <1>4, ExitPreserves

LEMMA InterruptPreserves ==
    ASSUME MatrixInv, InterruptWait PROVE MatrixInv'
<1>1. loop \in LoopSet /\ UNCHANGED <<campaign, results, invocation>>
  BY DEF MatrixInv, TypesOK, InterruptWait
<1>2. CASE pc \in {"preflight", "probes"}
  <2> DEFINE text == IF pc = "preflight" THEN "blocked" ELSE "stopped"
  <2>1. Conclude(text) /\ text \in {"none", "blocked", "skipped", "stopped", "completed"}
    BY <1>2 DEF InterruptWait
  <2> QED BY <1>1, <2>1, ConcludePreserves
<1>3. CASE pc = "running"
  <2>1. loop' = [loop EXCEPT !.interrupted = TRUE] /\ UNCHANGED <<pc, options, summary>>
    BY <1>3 DEF InterruptWait
  <2>2. /\ loop' \in LoopSet /\ loop'.int = loop.int /\ loop'.bg = loop.bg
        /\ loop'.todo = loop.todo /\ loop'.exit = loop.exit
    BY <1>1, <2>1 DEF LoopSet
  <2> QED BY <1>1, <1>3, <2>1, <2>2, ExitPreserves
<1>4. CASE pc = "recover"
  <2>1. /\ loop' = [loop EXCEPT !.interrupted = TRUE, !.exit = FALSE] /\ pc' = "judge"
        /\ UNCHANGED <<options, summary>>
    BY <1>4 DEF InterruptWait
  <2>2. /\ loop' \in LoopSet /\ loop'.int = loop.int /\ loop'.bg = loop.bg
        /\ loop'.todo = loop.todo /\ loop'.exit = FALSE
    BY <1>1, <2>1 DEF LoopSet
  <2> QED BY <1>1, <1>4, <2>1, <2>2, ExitPreserves
<1> QED BY <1>2, <1>3, <1>4 DEF InterruptWait

LEMMA BetweenRunsPreserves ==
    ASSUME MatrixInv,
           \/ \E ok \in BOOLEAN : Preflight(ok) \/ Gate(ok) \/ Probes(ok)
           \/ Start \/ StopAtFailure \/ Complete \/ Dies
    PROVE  MatrixInv'
<1> DEFINE Texts == {"none", "blocked", "skipped", "stopped", "completed"}
           Ends == /\ \E text \in Texts : Conclude(text)
                   /\ UNCHANGED <<campaign, invocation>>
                   /\ \/ results' = results
                      \/ /\ pc = "running"
                         /\ \E r \in Leaves(Head(loop.todo)) : results' = Append(results, r)
           Goes == \E where \in {"gate", "probes", "loop", "running"} :
                     /\ Goto(where) /\ UNCHANGED <<campaign, results, invocation>>
                     /\ pc \in {"preflight", "gate", "probes"} \/ (pc = "loop" /\ where = "running")
                     /\ where = "running" => loop.todo # <<>>
<1>1. Ends => MatrixInv'
  BY ConcludePreserves
<1>2. Goes => MatrixInv'
  <2> SUFFICES ASSUME NEW where \in {"gate", "probes", "loop", "running"},
                      Goto(where), UNCHANGED <<campaign, results, invocation>>,
                      pc \in {"preflight", "gate", "probes"} \/ (pc = "loop" /\ where = "running"),
                      where = "running" => loop.todo # <<>>
               PROVE  MatrixInv'
    OBVIOUS
  <2> QED BY GotoPreserves
<1>3. ASSUME NEW ok \in BOOLEAN, Preflight(ok) PROVE Ends \/ Goes
  BY <1>3 DEF Preflight
<1>4. ASSUME NEW ok \in BOOLEAN, Gate(ok) PROVE Ends \/ Goes
  BY <1>4 DEF Gate
<1>5. ASSUME NEW ok \in BOOLEAN, Probes(ok) PROVE Ends \/ Goes
  BY <1>5 DEF Probes
<1>6. Start => Ends \/ Goes
  BY DEF Start
<1>7. StopAtFailure \/ Complete \/ Dies => Ends
  BY DEF StopAtFailure, Complete, Dies
<1> QED BY <1>1, <1>2, <1>3, <1>4, <1>5, <1>6, <1>7

LEMMA MatrixStep == MatrixInv /\ [Next]_vars => MatrixInv'
<1> SUFFICES ASSUME MatrixInv, [Next]_vars PROVE MatrixInv'
  OBVIOUS
<1>1. CASE UNCHANGED vars
  BY <1>1, StaysPreserves
<1>2. CASE \E request \in campaign.requests : \E smoke, primitive, paired \in Evidence :
             Invoke(request, smoke, primitive, paired)
  BY <1>2, InvokePreserves
<1>3. CASE \E ok \in BOOLEAN : Preflight(ok) \/ Gate(ok) \/ Probes(ok)
  BY <1>3, BetweenRunsPreserves
<1>4. CASE \E ok \in BOOLEAN : Recover(ok)
  BY <1>4, RecoverPreserves
<1>5. CASE Start \/ StopAtFailure \/ Complete \/ Dies
  BY <1>5, BetweenRunsPreserves
<1>6. CASE Continue
  BY <1>6, ContinuePreserves
<1>7. CASE pc = "running" /\ \E r \in Leaves(Head(loop.todo)) : RunEnds(r)
  BY <1>7, RunEndsPreserves
<1>8. CASE InterruptWait
  BY <1>8, InterruptPreserves
<1> QED BY <1>1, <1>2, <1>3, <1>4, <1>5, <1>6, <1>7, <1>8 DEF Next

LEMMA MatrixInvariance == Spec => []MatrixInv
BY MatrixInitEstablishes, MatrixStep, PTL DEF Spec

-----------------------------------------------------------------------------
(* The work of the loop, between two runs, is that of the runs so far.        *)
LEMMA LoopHasWork ==
    ASSUME MatrixInv, pc = "loop", NEW i \in DOMAIN results, results[i].invocation = invocation
    PROVE  loop.int = results[i].int
<1>1. pc # "idle" /\ ~ Unjudged /\ Ran = Done
  BY DEF Unjudged, Ran
<1>2. RunsOf(invocation) = First + 1 .. Len(results) /\ First \in Nat /\ Done \in Nat
      /\ First = Len(results) - Done /\ Len(results) \in Nat
  BY <1>1 DEF MatrixInv, InvocationOK, RunsInOrder, TypesOK, First
<1>3. i \in First + 1 .. Len(results)
  BY <1>2 DEF RunsOf
<1> DEFINE m == i - First
<1>4. m \in 1 .. Ran /\ m <= Done /\ First + m = i
  BY <1>1, <1>2, <1>3
<1> HIDE DEF m
<1>5. "int" \in Roles(results[First + m].mode)
  BY RolesOfModes
<1>6. loop["int"] = results[First + m]["int"]
  BY <1>1, <1>4, <1>5 DEF MatrixInv, InvocationOK, WorkFrozen
<1> QED BY <1>4, <1>6

(* The types of the runner's state.  A result belongs to an invocation that began,  *)
(* in their order, and has work for its roles and for no other: nothing is left to  *)
(* calibrate once the exit of a run has been judged (run_matrix.py:234).            *)
THEOREM MatrixHasItsTypes == Spec => []MatrixTypeOK
<1>1. MatrixInv => MatrixTypeOK
  <2> SUFFICES ASSUME MatrixInv PROVE MatrixTypeOK
    OBVIOUS
  <2>1. DOMAIN loop = DOMAIN NoLoop /\ loop.todo \in Seq(Modes)
    BY DEF MatrixInv, TypesOK, LoopSet, NoLoop
  <2>2. \A i \in DOMAIN results :
          pc = "loop" /\ results[i].invocation = invocation => loop.int = results[i].int
    BY LoopHasWork
  <2> QED BY <2>1, <2>2 DEF MatrixInv, TypesOK, ResultsOK, MatrixTypeOK
<1> QED BY <1>1, MatrixInvariance, PTL

(* However it was found, asked for, taken over from evidence or calibrated by the   *)
(* first run, the work of the runs of one invocation is the same: "Freeze           *)
(* calibrated work for subsequent paired configurations" (run_matrix.py:230).       *)
THEOREM RunsShareWork == Spec => []SameWork
<1>1. MatrixInv => SameWork
  BY DEF MatrixInv, ResultsOK
<1> QED BY <1>1, MatrixInvariance, PTL

(* In an invocation no configuration runs after one that did not complete.          *)
THEOREM NothingRunsAfterFailure == Spec => []NothingAfterFailure
<1>1. MatrixInv => NothingAfterFailure
  BY DEF MatrixInv, ResultsOK
<1> QED BY <1>1, MatrixInvariance, PTL

(* No run of several trials, no graph run and no group run is started without the   *)
(* completed evidence of its own kind and work that validate_admission() asks for,  *)
(* whatever the invocations before it were and however they ended.                  *)
THEOREM EvidenceComesFirst == Spec => []EvidenceFirst
<1>1. MatrixInv => EvidenceFirst
  BY DEF MatrixInv, ResultsOK
<1> QED BY <1>1, MatrixInvariance, PTL

(* "completed" is only written by an invocation each of whose modes ran once, in    *)
(* order, and completed; and none starts a configuration after an interrupt.        *)
THEOREM MatricesEndRight == Spec => MatrixEnds
<1> DEFINE All == LET first == Len(results) - Len(options.modes) IN
                  /\ RunsOf(invocation) = first + 1 .. Len(results)
                  /\ \A i \in DOMAIN options.modes :
                        /\ results[first + i].mode = options.modes[i]
                        /\ results[first + i].complete
           Ends == /\ pc # "idle" /\ summary' = "completed" => All
                   /\ loop.interrupted /\ pc' = "running" => pc = "running"
<1>1. ASSUME MatrixInv, pc # "idle", summary' = "completed", [Next]_vars PROVE Complete
  <2>1. summary # "completed"
    BY <1>1 DEF MatrixInv, InvocationOK
  <2>2. ASSUME NEW text, Conclude(text) PROVE text = "completed"
    BY <1>1, <2>2 DEF Conclude
  <2>3. ~ \E text \in {"none", "blocked", "skipped", "stopped"} : Conclude(text)
    BY <2>2
  <2>4. ~ UNCHANGED summary
    BY <1>1, <2>1
  <2> QED BY <1>1, <2>3, <2>4
    DEF Next, Invoke, Preflight, Gate, Probes, Recover, Start, StopAtFailure, Continue, RunEnds,
        InterruptWait, Dies, Goto, vars
<1>2. ASSUME MatrixInv, Complete PROVE All
  <2>1. /\ pc # "idle" /\ ~ Unjudged /\ Ran = Done /\ loop.todo = <<>>
    BY <1>2 DEF Complete, Unjudged, Ran
  <2>2. options.modes \in Seq(Modes) /\ Len(options.modes) \in Nat
    BY <1>2, <2>1 DEF MatrixInv, InvocationOK, Options
  <2>3. Done = Len(options.modes) /\ First = Len(results) - Len(options.modes)
    BY <2>1, <2>2 DEF Done, First
  <2>4. DOMAIN options.modes = 1 .. Len(options.modes) /\ \A m \in 1 .. Done : m <= Done
    BY <2>2, <2>3
  <2> QED BY <1>2, <2>1, <2>3, <2>4 DEF MatrixInv, InvocationOK, RunsInOrder
<1>3. ASSUME MatrixInv, [Next]_vars, loop.interrupted, pc' = "running" PROVE pc = "running"
  <2>1. ~ loop.interrupted \/ pc # "loop"
    BY <1>3 DEF MatrixInv, InvocationOK, Unjudged
  <2> QED BY <1>3, <2>1
    DEF Next, Invoke, Preflight, Gate, Probes, Recover, Start, StopAtFailure, Continue, RunEnds,
        Complete, InterruptWait, Dies, Goto, Conclude, vars, MatrixInv, InvocationOK, Unjudged
<1>4. MatrixInv /\ [Next]_vars => [Ends]_vars
  BY <1>1, <1>2, <1>3
<1> QED BY <1>4, MatrixInvariance, PTL DEF Spec, MatrixEnds
=============================================================================
