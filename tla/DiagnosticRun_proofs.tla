------------------------- MODULE DiagnosticRun_proofs -------------------------
(***************************************************************************)
(* The diagnostic runner, for any number of follow-ups and of interrupts:  *)
(* its records are true and its captures never meet.  What carries the     *)
(* argument is that a capture which was counted is quiet: its profiler is  *)
(* over and no owner of it can come to life again, or BG can never pass    *)
(* the gate of the two journals.                                           *)
(***************************************************************************)
EXTENDS DiagnosticRun, FiniteSetTheorems, TLAPS

Quiet(v) == profiler[v] # "running" /\ Alive(v) = {}

\* A record that calls its number known has the number for good.
Told(record, v) ==
    ~ record.unknown => record.attempts = sent[v] /\ (Quiet(v) \/ v = D0)

\* Owners start and open their journals in order; a request needs both journals.
Processes(v) ==
    /\ profiler[v] = "none" => owner[v]["int"] = "none"
    /\ owner[v]["int"] = "none" => owner[v]["bg"] = "none"
    /\ \A r \in journal[v].owners : owner[v][r] # "none"
    /\ "int" \in journal[v].owners => "bg" \in journal[v].owners
    /\ journal[v].preempt # "none" => v \in FollowUps /\ journal[v].owners = Owners
    /\ journal[v].preempt = "none" => sent[v] = 0

Early == {"idle", "licensed", "admitted", "preparing"}
Before == Early \cup {"announce", "launch"}
Uncounted == {"announce", "launch", "wait", "scan", "grace", "save", "count"}
Cleaned == {"save", "count", "export"}
Saved == {"count", "export"}

\* What the runner knows of its processes from where it is.  An owner the clean-up
\* did not find is a BG whose INT will never open its journal.
Place(v) ==
    /\ pc[v] \in Before => profiler[v] = "none"
    /\ pc[v] \in Before \cup {"wait", "scan"} => found[v] = {}
    /\ pc[v] \in {"scan", "grace"} \cup Cleaned => profiler[v] # "running"
    /\ pc[v] = "grace" =>
         /\ Alive(v) \subseteq found[v] \cup {"bg"}
         /\ \A r \in found[v] : owner[v][r] # "none"
         /\ "bg" \in Alive(v) \ found[v] =>
              found[v] = {"int"} /\ "int" \notin journal[v].owners
    /\ pc[v] \in Cleaned =>
         /\ "int" \notin Alive(v)
         /\ "bg" \in Alive(v) => "int" \notin journal[v].owners
         /\ outcome[v] = "ok" => Quiet(v) /\ found[v] = {}
    /\ pc[v] \in Saved => execution[v] = outcome[v]
    /\ execution[v] = "ok" =>
         Quiet(v) /\ found[v] = {} /\ pc[v] \in Saved \cup {"finally"} \cup Finished

Records(v) ==
    /\ pc[v] \in Early => mem[v] = Fresh
    /\ pc[v] \in Uncounted => mem[v].attempts = 0 /\ (v \in FollowUps => mem[v].unknown)
    /\ pc[v] \in {"export", "finally"} => Told(mem[v], v)
    /\ mem[v].state = "FINISHED" => execution[v] = "ok"
    /\ result[v] \in Record =>
         /\ Told(result[v], v)
         /\ result[v].state = "FINISHED" => execution[v] = "ok"
         /\ pc[v] \in Before /\ v \in FollowUps => result[v].unknown

\* A follow-up that has the reservation, or once had it and launched.
Held(v) == profiler[v] # "none" \/ pc[v] \in {"admitted", "finally"} \cup InTry

Licences ==
    /\ assessment = "ready" => execution[D0] = "ok" /\ valid[D0]
    /\ \A v \in FollowUps : pc[v] = "licensed" \/ Held(v) => assessment = "ready"
    /\ \A v \in FollowUps : Held(v) => reserved
    /\ \A v, w \in FollowUps : Held(v) /\ Held(w) => v = w

DInv ==
    /\ DiagnosticTypeOK /\ Licences
    /\ \A v \in Invocations : Processes(v) /\ Place(v) /\ Records(v)

-----------------------------------------------------------------------------
(* Nothing has been done before the first invocation starts.                  *)
LEMMA InitEstablishes == Init => DInv
<1> SUFFICES ASSUME Init PROVE DInv
  OBVIOUS
<1>1. DiagnosticTypeOK
  <2>1. reserved \in BOOLEAN
    BY Zenon DEF Init
  <2>2. Fresh \in Record
    BY DEF Fresh, Record
  <2>3. interrupts \in 0 .. MaxInterrupts
    BY DiagnosticAssumption DEF Init, DiagnosticAssumption
  <2> QED BY <2>1, <2>2, <2>3 DEF Init, DiagnosticTypeOK, PCs
<1>2. Licences
  <2>1. assessment = "none" /\ \A v \in FollowUps : ~ Held(v) /\ ~ (pc[v] = "licensed")
    BY DEF Init, Held, InTry, Invocations
  <2>2. ~ (assessment = "ready")
    BY <2>1
  <2> QED BY <2>1, <2>2, Zenon DEF Licences
<1>3. \A v \in Invocations : Processes(v) /\ Place(v)
  <2> SUFFICES ASSUME NEW v \in Invocations PROVE Processes(v) /\ Place(v)
    OBVIOUS
  <2>1. /\ profiler[v] = "none" /\ owner[v] = [r \in Owners |-> "none"] /\ sent[v] = 0
        /\ journal[v].owners = {} /\ journal[v].preempt = "none" /\ found[v] = {}
        /\ pc[v] = "idle" /\ execution[v] = "none"
    BY DEF Init
  <2>2. owner[v]["int"] = "none" /\ owner[v]["bg"] = "none"
    BY <2>1 DEF Owners
  <2>3. Processes(v)
    BY <2>1, <2>2 DEF Processes
  <2>4. Place(v)
    BY <2>1 DEF Place, Before, Early, Cleaned, Saved
  <2> QED BY <2>3, <2>4
<1>4. \A v \in Invocations : Records(v)
  <2>1. Absent \notin Record
    BY DEF Absent, Record
  <2>2. Fresh.state = "PREPARING"
    BY DEF Fresh
  <2> QED BY <2>1, <2>2 DEF Init, Records, Early, Uncounted
<1> QED BY <1>1, <1>2, <1>3, <1>4 DEF DInv

(* The step of one invocation leaves the others as they are.                  *)
LEMMA Framed ==
    ASSUME DInv, NEW v \in Invocations, DiagnosticTypeOK',
           assessment' = assessment, reserved' = reserved,
           \A w \in Invocations \ {v} :
              /\ pc'[w] = pc[w] /\ mem'[w] = mem[w] /\ outcome'[w] = outcome[w]
              /\ execution'[w] = execution[w] /\ result'[w] = result[w]
              /\ profiler'[w] = profiler[w] /\ owner'[w] = owner[w]
              /\ journal'[w] = journal[w] /\ sent'[w] = sent[w] /\ found'[w] = found[w],
           \A w \in Invocations : valid[w] => valid'[w],
           execution[v] = "ok" => execution'[v] = "ok",
           v \in FollowUps =>
              /\ Held(v)' => Held(v)
              /\ pc'[v] = "licensed" => pc[v] = "licensed" \/ assessment = "ready",
           Processes(v)', Place(v)', Records(v)'
    PROVE  DInv'
<1>1. ASSUME NEW w \in Invocations, w # v
      PROVE  (Processes(w) /\ Place(w) /\ Records(w))'
  <2>1. /\ pc'[w] = pc[w] /\ mem'[w] = mem[w] /\ outcome'[w] = outcome[w]
        /\ execution'[w] = execution[w] /\ result'[w] = result[w]
        /\ profiler'[w] = profiler[w] /\ owner'[w] = owner[w]
        /\ journal'[w] = journal[w] /\ sent'[w] = sent[w] /\ found'[w] = found[w]
    BY <1>1
  <2>2. Alive(w)' = Alive(w)
    BY <2>1 DEF Alive
  <2>3. Processes(w) /\ Place(w) /\ Records(w)
    BY DEF DInv
  <2>4. Processes(w)' /\ Place(w)'
    BY <2>1, <2>2, <2>3 DEF Processes, Place, Quiet
  <2>5. Records(w)'
    BY <2>1, <2>2, <2>3 DEF Records, Told, Quiet
  <2> QED BY <2>4, <2>5
<1>2. Licences'
  <2>1. \A w \in FollowUps :
           /\ Held(w)' => Held(w)
           /\ pc'[w] = "licensed" => pc[w] = "licensed" \/ assessment = "ready"
    BY DEF Held, Invocations
  <2>2. execution[D0] = "ok" /\ valid[D0] => execution'[D0] = "ok" /\ valid'[D0]
    BY DEF Invocations
  <2> QED BY <2>1, <2>2 DEF DInv, Licences
<1> QED BY <1>1, <1>2 DEF DInv

(* The types.                                                                 *)
LEMMA ReservedTyped ==
    ASSUME DInv, [Next]_vars
    PROVE  reserved' \in BOOLEAN
<1>0. reserved \in BOOLEAN
  BY Zenon DEF DInv, DiagnosticTypeOK
<1>1. reserved' = reserved \/ reserved' = TRUE
  BY DEF Next, vars, files, RunnerStep, StartD0, CheckD0, Refused, Reserve, AlreadyReserved,
         Prepare, PrepareFails, Ready, Announce, Launch, LaunchFails, Collected,
         CollectionCut, GroupKilled, NoSurvivors, Survivors, KillSurvivors, SaveExecution,
         Count, Export, Finally, Fails, FaultStep, Interrupt, InterruptLaunch,
         InterruptWait, Crash, ProcessStep, StartInt, StartBg, ProfilerEnds, OpenJournal,
         OwnerEnds, PublishPreempt, SendPreempt, CompletePreempt, IntCompletes, Assess
<1> QED BY <1>0, <1>1, Zenon

LEMMA RunnerTyped ==
    ASSUME DInv, NEW v \in Invocations, RunnerStep(v), reserved' \in BOOLEAN
    PROVE  DiagnosticTypeOK'
<1>1. CASE \/ StartD0(v) \/ CheckD0(v) \/ Refused(v) \/ AlreadyReserved(v)
           \/ Prepare(v) \/ PrepareFails(v) \/ NoSurvivors(v)
  BY <1>1 DEF StartD0, CheckD0, Refused, AlreadyReserved, Prepare, PrepareFails,
      NoSurvivors,
      DInv, DiagnosticTypeOK, PCs, InTry, Finished, Goto, files, runners, processes
<1>2. CASE Reserve(v)
  BY <1>2 DEF Reserve,
      DInv, DiagnosticTypeOK, PCs, InTry, Finished, Goto, files, runners, processes
<1>3. CASE Ready(v) \/ Fails(v)
  <2>1. mem[v] \in Record /\ mem \in [Invocations -> Record]
    BY DEF DInv, DiagnosticTypeOK
  <2>2. \A b \in BOOLEAN : [mem[v] EXCEPT !.state = "COLLECTING", !.unknown = b] \in Record
       /\ [mem[v] EXCEPT !.state = "STOPPED"] \in Record
    BY <2>1 DEF Record
  <2>3. (v \in FollowUps) \in BOOLEAN
    OBVIOUS
  <2>4. CASE Ready(v)
    <3>1. mem' = [mem EXCEPT ![v] =
                    [mem[v] EXCEPT !.state = "COLLECTING", !.unknown = v \in FollowUps]]
      BY <2>1, <2>4 DEF Ready
    <3>2. [mem[v] EXCEPT !.state = "COLLECTING", !.unknown = v \in FollowUps] \in Record
      BY <2>2, <2>3
    <3>3. mem' \in [Invocations -> Record]
      BY <2>1, <3>1, <3>2
    <3> QED BY <2>4, <3>3 DEF Ready,
      DInv, DiagnosticTypeOK, PCs, InTry, Finished, Goto, files, runners, processes
  <2>5. CASE Fails(v)
    <3>1. mem' \in [Invocations -> Record]
      BY <2>1, <2>2, <2>5 DEF Fails
    <3> QED BY <2>5, <3>1 DEF Fails,
      DInv, DiagnosticTypeOK, PCs, InTry, Finished, Goto, files, runners, processes
  <2> QED BY <1>3, <2>4, <2>5
<1>4. CASE Announce(v) \/ Finally(v)
  <2>1. result' = [result EXCEPT ![v] = mem[v]] /\ mem[v] \in Record
    BY <1>4 DEF Announce, Finally, DInv, DiagnosticTypeOK
  <2>2. result' \in [Invocations -> Record \cup {Absent, Torn}]
    BY <2>1 DEF DInv, DiagnosticTypeOK
  <2> QED BY <1>4, <2>1, <2>2 DEF Announce, Finally,
      DInv, DiagnosticTypeOK, PCs, InTry, Finished, Goto, files, runners, processes
<1>5. CASE Launch(v) \/ LaunchFails(v) \/ Collected(v)
  BY <1>5 DEF Launch, LaunchFails, Collected,
      DInv, DiagnosticTypeOK, PCs, InTry, Finished, Goto, files, runners, processes
<1>6. CASE CollectionCut(v)
  BY <1>6 DEF CollectionCut, GroupKilled, Killed,
      DInv, DiagnosticTypeOK, PCs, InTry, Finished, Goto, files, runners, processes
<1>7. CASE Survivors(v)
  BY <1>7 DEF Survivors, Alive,
      DInv, DiagnosticTypeOK, PCs, InTry, Finished, Goto, files, runners, processes
<1>8. CASE KillSurvivors(v)
  <2>1. mem[v] \in Record /\ mem \in [Invocations -> Record]
    BY DEF DInv, DiagnosticTypeOK
  <2>2. [mem[v] EXCEPT !.escaped = TRUE] \in Record
    BY <2>1 DEF Record
  <2>3. mem' \in [Invocations -> Record]
    BY <1>8, <2>1, <2>2 DEF KillSurvivors
  <2>4. owner' \in [Invocations -> [Owners -> {"none", "alive", "gone"}]]
    BY <1>8 DEF KillSurvivors, Killed, DInv, DiagnosticTypeOK
  <2> QED BY <1>8, <2>1, <2>2, <2>3, <2>4 DEF KillSurvivors,
      DInv, DiagnosticTypeOK, PCs, InTry, Finished, Goto, files, runners, processes
<1>9. CASE SaveExecution(v)
  BY <1>9 DEF SaveExecution,
      DInv, DiagnosticTypeOK, PCs, InTry, Finished, Goto, files, runners, processes
<1>10. CASE Count(v)
  <2>1. mem[v] \in Record /\ mem \in [Invocations -> Record] /\ sent[v] \in 0 .. 1
    BY DEF DInv, DiagnosticTypeOK
  <2>2. \A n \in 0 .. 1 : \A b \in BOOLEAN : [mem[v] EXCEPT !.attempts = n, !.unknown = b] \in Record
    BY <2>1 DEF Record
  <2>3. MayHideOne(v) \in BOOLEAN
    BY DEF MayHideOne
  <2>4. (IF journal[v].preempt = "returned" THEN sent[v] ELSE 0) \in 0 .. 1
    BY <2>1
  <2>5. mem' \in [Invocations -> Record]
    BY <1>10, <2>1, <2>2, <2>3, <2>4 DEF Count
  <2> QED BY <1>10, <2>1, <2>2, <2>3, <2>4, <2>5 DEF Count,
      DInv, DiagnosticTypeOK, PCs, InTry, Finished, Goto, files, runners, processes
<1>11. CASE Export(v)
  <2>1. mem[v] \in Record /\ mem \in [Invocations -> Record]
    BY DEF DInv, DiagnosticTypeOK
  <2>2. \A x \in {"FINISHED", "FAILED"} : [mem[v] EXCEPT !.state = x] \in Record
    BY <2>1 DEF Record
  <2>3. mem' \in [Invocations -> Record]
    BY <1>11, <2>1, <2>2 DEF Export
  <2>4. exported' \in [Invocations -> BOOLEAN]
    BY <1>11 DEF Export, DInv, DiagnosticTypeOK
  <2> QED BY <1>11, <2>1, <2>2, <2>3, <2>4 DEF Export,
      DInv, DiagnosticTypeOK, PCs, InTry, Finished, Goto, files, runners, processes
<1> QED BY <1>1, <1>2, <1>3, <1>4, <1>5, <1>6, <1>7, <1>8, <1>9, <1>10, <1>11 DEF RunnerStep

LEMMA FaultTyped ==
    ASSUME DInv, NEW v \in Invocations, FaultStep(v), reserved' \in BOOLEAN
    PROVE  DiagnosticTypeOK'
<1>1. CASE Interrupt(v)
  <2>1. interrupts' \in 0 .. MaxInterrupts
    BY <1>1, DiagnosticAssumption DEF Interrupt, Interrupted, DiagnosticAssumption, DInv,
      DiagnosticTypeOK
  <2>2. \E w \in PCs : pc' = [pc EXCEPT ![v] = w]
    BY <1>1 DEF Interrupt, Goto, PCs, Finished
  <2> QED BY <1>1, <2>1, <2>2 DEF Interrupt,
      DInv, DiagnosticTypeOK, PCs, InTry, Finished, Goto, files, runners, processes
<1>2. CASE InterruptLaunch(v)
  BY <1>2, DiagnosticAssumption DEF InterruptLaunch, Interrupted, DiagnosticAssumption,
      DInv, DiagnosticTypeOK, PCs, InTry, Finished, Goto, files, runners, processes
<1>3. CASE InterruptWait(v)
  BY <1>3, DiagnosticAssumption
     DEF InterruptWait, Interrupted, GroupKilled, Killed, DiagnosticAssumption,
      DInv, DiagnosticTypeOK, PCs, InTry, Finished, Goto, files, runners, processes
<1>4. CASE Crash(v)
  BY <1>4, DiagnosticAssumption DEF Crash, DiagnosticAssumption,
      DInv, DiagnosticTypeOK, PCs, InTry, Finished, Goto, files, runners, processes
<1> QED BY <1>1, <1>2, <1>3, <1>4 DEF FaultStep

LEMMA ProcessTyped ==
    ASSUME DInv, NEW v \in Invocations, ProcessStep(v), reserved' \in BOOLEAN
    PROVE  DiagnosticTypeOK'
<1>1. CASE StartInt(v) \/ StartBg(v) \/ ProfilerEnds(v)
  <2>1. owner' \in [Invocations -> [Owners -> {"none", "alive", "gone"}]]
    BY <1>1 DEF StartInt, StartBg, ProfilerEnds, Owners, DInv, DiagnosticTypeOK
  <2>2. profiler' \in [Invocations -> {"none", "running", "exited", "crashed"}]
    BY <1>1 DEF StartInt, StartBg, ProfilerEnds, DInv, DiagnosticTypeOK
  <2> QED BY <1>1, <2>1, <2>2 DEF StartInt, StartBg, ProfilerEnds,
      DInv, DiagnosticTypeOK, files, runners, processes
<1>2. CASE \E r \in Owners : OpenJournal(v, r)
  <2>1. PICK r \in Owners : OpenJournal(v, r)
    BY <1>2
  <2>2. journal[v] \in [owners : SUBSET Owners, preempt : {"none", "issued", "returned"}]
    BY DEF DInv, DiagnosticTypeOK
  <2>3. [journal[v] EXCEPT !.owners = @ \cup {r}]
          \in [owners : SUBSET Owners, preempt : {"none", "issued", "returned"}]
    BY <2>2
  <2>4. journal' \in [Invocations -> [owners : SUBSET Owners,
                                     preempt : {"none", "issued", "returned"}]]
    BY <2>1, <2>3 DEF OpenJournal, DInv, DiagnosticTypeOK
  <2> QED BY <2>1, <2>4 DEF OpenJournal, DInv, DiagnosticTypeOK, files, runners, processes
<1>3. CASE \E r \in Owners : OwnerEnds(v, r)
  BY <1>3 DEF OwnerEnds, DInv, DiagnosticTypeOK, files, runners, processes
<1>4. CASE PublishPreempt(v) \/ CompletePreempt(v)
  <2>1. journal[v] \in [owners : SUBSET Owners, preempt : {"none", "issued", "returned"}]
    BY DEF DInv, DiagnosticTypeOK
  <2>2. \A x \in {"issued", "returned"} : [journal[v] EXCEPT !.preempt = x]
          \in [owners : SUBSET Owners, preempt : {"none", "issued", "returned"}]
    BY <2>1
  <2>3. journal' \in [Invocations -> [owners : SUBSET Owners,
                                     preempt : {"none", "issued", "returned"}]]
    BY <1>4, <2>2 DEF PublishPreempt, CompletePreempt, DInv, DiagnosticTypeOK
  <2>4. CASE PublishPreempt(v)
    BY <2>3, <2>4 DEF PublishPreempt, DInv, DiagnosticTypeOK, files, runners, processes
  <2>5. CASE CompletePreempt(v)
    BY <2>3, <2>5 DEF CompletePreempt, DInv, DiagnosticTypeOK, files, runners, processes
  <2> QED BY <1>4, <2>4, <2>5
<1>5. CASE SendPreempt(v)
  BY <1>5 DEF SendPreempt, DInv, DiagnosticTypeOK, files, runners, processes
<1>6. CASE IntCompletes(v)
  BY <1>6 DEF IntCompletes, Owners, DInv, DiagnosticTypeOK, files, runners, processes
<1> QED BY <1>1, <1>2, <1>3, <1>4, <1>5, <1>6 DEF ProcessStep

-----------------------------------------------------------------------------
(* The runner between its processes: a step that leaves them alone.           *)
LEMMA RunnerMoves ==
    ASSUME DInv, NEW v \in Invocations, DiagnosticTypeOK',
           UNCHANGED <<assessment, reserved, processes>>,
           NEW w \in PCs, pc' = [pc EXCEPT ![v] = w],
           \A u \in Invocations \ {v} :
              /\ mem'[u] = mem[u] /\ outcome'[u] = outcome[u] /\ found'[u] = found[u]
              /\ execution'[u] = execution[u] /\ result'[u] = result[u],
           execution[v] = "ok" => execution'[v] = "ok",
           w = "licensed" => assessment = "ready",
           w \in {"admitted", "finally"} \cup InTry =>
               v = D0 \/ pc[v] \in {"admitted", "finally"} \cup InTry,
           Place(v)', Records(v)'
    PROVE  DInv'
<1>1. UNCHANGED <<profiler, owner, journal, valid, sent>>
  BY DEF processes
<1>2. pc'[v] = w /\ \A u \in Invocations \ {v} : pc'[u] = pc[u]
  BY DEF DInv, DiagnosticTypeOK
<1>3. Processes(v)'
  BY <1>1 DEF DInv, Processes
<1>4. v \in FollowUps => (Held(v)' => Held(v)) /\ (pc'[v] = "licensed" => assessment = "ready")
  BY <1>1, <1>2, DiagnosticAssumption DEF Held, DiagnosticAssumption
<1> QED BY <1>1, <1>2, <1>3, <1>4, Framed

(* What the invariant and the types say at one invocation, and that a quiet   *)
(* capture stays quiet when its processes are left alone.                     *)
LEMMA Here ==
    ASSUME DInv, NEW v \in Invocations
    PROVE  /\ Processes(v) /\ Place(v) /\ Records(v)
           /\ pc[v] \in PCs /\ mem[v] \in Record /\ sent[v] \in 0 .. 1
           /\ found[v] \subseteq Owners /\ Alive(v) \subseteq Owners
           /\ journal[v].owners \subseteq Owners
           /\ v = D0 => v \notin FollowUps
BY DiagnosticAssumption DEF DInv, DiagnosticTypeOK, DiagnosticAssumption, Alive

LEMMA SameProcesses ==
    ASSUME NEW v, UNCHANGED processes
    PROVE  /\ Alive(v)' = Alive(v) /\ (Quiet(v)' <=> Quiet(v))
           /\ UNCHANGED <<profiler, owner, journal, valid, sent>>
BY DEF processes, Alive, Quiet

(* Admission, up to a directory of its own: only the place changes.           *)
LEMMA AdmissionPreserves ==
    ASSUME DInv, NEW v \in Invocations, DiagnosticTypeOK',
           \/ StartD0(v) \/ CheckD0(v) \/ Refused(v) \/ AlreadyReserved(v)
           \/ Prepare(v) \/ PrepareFails(v)
    PROVE  DInv'
<1>1. UNCHANGED <<assessment, reserved, processes, mem, outcome, found, execution, result>>
  BY DEF StartD0, CheckD0, Refused, AlreadyReserved, Prepare, PrepareFails, files
<1>2. PICK w \in {"admitted", "licensed", "preparing", "ended"} :
        /\ pc' = [pc EXCEPT ![v] = w] /\ pc'[v] = w
        /\ pc[v] \in {"idle", "licensed", "admitted"}
        /\ w = "licensed" => assessment = "ready"
        /\ w = "admitted" => v = D0
        /\ w = "preparing" => pc[v] = "admitted"
  BY DEF StartD0, CheckD0, Refused, AlreadyReserved, Prepare, PrepareFails, Goto,
         DInv, DiagnosticTypeOK
<1>3. Place(v)'
  BY <1>1, <1>2, Here, SameProcesses
     DEF Place, Before, Early, Cleaned, Saved, InTry, Finished
<1>4. Records(v)'
  BY <1>1, <1>2, Here, SameProcesses
     DEF Records, Told, Before, Early, Uncounted, InTry, Finished
<1>5. /\ w \in PCs
      /\ w \in {"admitted", "finally"} \cup InTry => v = D0 \/ pc[v] = "admitted"
  BY <1>2 DEF PCs, InTry, Finished
<1> QED BY <1>1, <1>2, <1>3, <1>4, <1>5, RunnerMoves

LEMMA ReadyPreserves ==
    ASSUME DInv, NEW v \in Invocations, Ready(v), DiagnosticTypeOK'
    PROVE  DInv'
<1>1. /\ pc[v] = "preparing" /\ pc' = [pc EXCEPT ![v] = "announce"] /\ pc'[v] = "announce"
      /\ UNCHANGED <<assessment, reserved, processes, outcome, found, execution, result>>
  BY DEF Ready, Goto, files, runners, DInv, DiagnosticTypeOK
<1>2. /\ mem'[v] = [mem[v] EXCEPT !.state = "COLLECTING", !.unknown = v \in FollowUps]
      /\ \A u \in Invocations \ {v} : mem'[u] = mem[u]
  BY DEF Ready, DInv, DiagnosticTypeOK
<1>3. /\ mem'[v].attempts = 0 /\ (v \in FollowUps => mem'[v].unknown)
      /\ mem'[v].state = "COLLECTING"
  <2>1. mem[v] = Fresh
    BY <1>1, Here DEF Records, Early
  <2>2. mem[v] \in Record /\ mem[v].attempts = 0
    BY <2>1, Here DEF Fresh
  <2> QED BY <1>2, <2>2 DEF Record
<1>4. Place(v)'
  BY <1>1, <1>2, <1>3, Here, SameProcesses
     DEF Place, Before, Early, Uncounted, Cleaned, Saved, InTry, Finished
<1>5. Records(v)'
  BY <1>1, <1>2, <1>3, Here, SameProcesses
     DEF Records, Told, Before, Early, Uncounted, Cleaned, Saved, InTry, Finished
<1>6. /\ "announce" \in PCs /\ ~ ("announce" = "licensed")
      /\ "announce" \in {"admitted", "finally"} \cup InTry =>
            v = D0 \/ pc[v] \in {"admitted", "finally"} \cup InTry
      /\ execution[v] = "ok" => execution'[v] = "ok"
  BY <1>1, <1>2, Here DEF PCs, InTry, Finished, Place, Saved
<1> QED BY <1>1, <1>2, <1>4, <1>5, <1>6, RunnerMoves

LEMMA AnnouncePreserves ==
    ASSUME DInv, NEW v \in Invocations, Announce(v), DiagnosticTypeOK'
    PROVE  DInv'
<1>1. /\ pc[v] = "announce" /\ pc' = [pc EXCEPT ![v] = "launch"] /\ pc'[v] = "launch"
      /\ UNCHANGED <<assessment, reserved, processes, mem, outcome, found, execution>>
  BY DEF Announce, Goto, files, runners, DInv, DiagnosticTypeOK
<1>2. /\ result'[v] = mem[v]
      /\ \A u \in Invocations \ {v} : result'[u] = result[u]
  BY DEF Announce, DInv, DiagnosticTypeOK
<1>3. Told(mem[v], v) /\ (mem[v].state = "FINISHED" => execution[v] = "ok")
      /\ (v \in FollowUps => mem[v].unknown)
  <2>1. mem[v].attempts = 0 /\ (v \in FollowUps => mem[v].unknown) /\ (mem[v].state = "FINISHED" => execution[v] = "ok")
    BY <1>1, Here DEF Records, Uncounted
  <2>2. v = D0 => sent[v] = 0
    BY Here DEF Processes
  <2> QED BY <2>1, <2>2 DEF Told, Invocations
<1>4. Place(v)'
  BY <1>1, <1>2, <1>3, Here, SameProcesses
     DEF Place, Before, Early, Uncounted, Cleaned, Saved, InTry, Finished
<1>5. Records(v)'
  BY <1>1, <1>2, <1>3, Here, SameProcesses
     DEF Records, Told, Before, Early, Uncounted, Cleaned, Saved, InTry, Finished
<1>6. /\ "launch" \in PCs /\ ~ ("launch" = "licensed")
      /\ "launch" \in {"admitted", "finally"} \cup InTry =>
            v = D0 \/ pc[v] \in {"admitted", "finally"} \cup InTry
      /\ execution[v] = "ok" => execution'[v] = "ok"
  BY <1>1, <1>2, Here DEF PCs, InTry, Finished, Place, Saved
<1> QED BY <1>1, <1>2, <1>4, <1>5, <1>6, RunnerMoves

LEMMA LaunchFailsPreserves ==
    ASSUME DInv, NEW v \in Invocations, LaunchFails(v), DiagnosticTypeOK'
    PROVE  DInv'
<1>1. /\ pc[v] = "launch" /\ pc' = [pc EXCEPT ![v] = "scan"] /\ pc'[v] = "scan"
      /\ UNCHANGED <<assessment, reserved, processes, mem, found, execution, result>>
  BY DEF LaunchFails, Goto, files, runners, DInv, DiagnosticTypeOK
<1>2. /\ outcome'[v] = "failed"
      /\ \A u \in Invocations \ {v} : outcome'[u] = outcome[u]
  BY DEF LaunchFails, DInv, DiagnosticTypeOK
<1>3. Place(v)'
  BY <1>1, <1>2, Here, SameProcesses
     DEF Place, Before, Early, Uncounted, Cleaned, Saved, InTry, Finished
<1>4. Records(v)'
  BY <1>1, <1>2, Here, SameProcesses
     DEF Records, Told, Before, Early, Uncounted, Cleaned, Saved, InTry, Finished
<1>5. /\ "scan" \in PCs /\ ~ ("scan" = "licensed")
      /\ "scan" \in {"admitted", "finally"} \cup InTry =>
            v = D0 \/ pc[v] \in {"admitted", "finally"} \cup InTry
      /\ execution[v] = "ok" => execution'[v] = "ok"
  BY <1>1, <1>2, Here DEF PCs, InTry, Finished, Place, Saved
<1> QED BY <1>1, <1>2, <1>3, <1>4, <1>5, RunnerMoves

LEMMA CollectedPreserves ==
    ASSUME DInv, NEW v \in Invocations, Collected(v), DiagnosticTypeOK'
    PROVE  DInv'
<1>1. /\ pc[v] = "wait" /\ pc' = [pc EXCEPT ![v] = "scan"] /\ pc'[v] = "scan"
      /\ UNCHANGED <<assessment, reserved, processes, mem, found, execution, result>>
  BY DEF Collected, Goto, files, runners, DInv, DiagnosticTypeOK
<1>2. /\ outcome'[v] = IF profiler[v] = "exited" THEN "ok" ELSE "failed"
      /\ \A u \in Invocations \ {v} : outcome'[u] = outcome[u]
  BY DEF Collected, DInv, DiagnosticTypeOK
<1>3. profiler[v] # "running"
  BY DEF Collected
<1>4. Place(v)'
  BY <1>1, <1>2, <1>3, Here, SameProcesses
     DEF Place, Before, Early, Uncounted, Cleaned, Saved, InTry, Finished
<1>5. Records(v)'
  BY <1>1, <1>2, <1>3, Here, SameProcesses
     DEF Records, Told, Before, Early, Uncounted, Cleaned, Saved, InTry, Finished
<1>6. /\ "scan" \in PCs /\ ~ ("scan" = "licensed")
      /\ "scan" \in {"admitted", "finally"} \cup InTry =>
            v = D0 \/ pc[v] \in {"admitted", "finally"} \cup InTry
      /\ execution[v] = "ok" => execution'[v] = "ok"
  BY <1>1, <1>2, Here DEF PCs, InTry, Finished, Place, Saved
<1> QED BY <1>1, <1>2, <1>4, <1>5, <1>6, RunnerMoves

LEMMA NoSurvivorsPreserves ==
    ASSUME DInv, NEW v \in Invocations, NoSurvivors(v), DiagnosticTypeOK'
    PROVE  DInv'
<1>1. /\ pc[v] = "scan" /\ pc' = [pc EXCEPT ![v] = "save"] /\ pc'[v] = "save"
      /\ UNCHANGED <<assessment, reserved, processes, mem, outcome, found, execution, result>>
  BY DEF NoSurvivors, Goto, files, runners, DInv, DiagnosticTypeOK
<1>2. mem'[v] = mem[v]
  BY <1>1
<1>3. Alive(v) = {}
  BY DEF NoSurvivors
<1>4. Place(v)'
  BY <1>1, <1>2, <1>3, Here, SameProcesses
     DEF Place, Before, Early, Uncounted, Cleaned, Saved, InTry, Finished, Quiet
<1>5. Records(v)'
  BY <1>1, <1>2, <1>3, Here, SameProcesses
     DEF Records, Told, Before, Early, Uncounted, Cleaned, Saved, InTry, Finished
<1>6. /\ "save" \in PCs /\ ~ ("save" = "licensed")
      /\ "save" \in {"admitted", "finally"} \cup InTry =>
            v = D0 \/ pc[v] \in {"admitted", "finally"} \cup InTry
      /\ execution[v] = "ok" => execution'[v] = "ok"
  BY <1>1, <1>2, Here DEF PCs, InTry, Finished, Place, Saved
<1> QED BY <1>1, <1>2, <1>4, <1>5, <1>6, RunnerMoves

LEMMA SurvivorsPreserves ==
    ASSUME DInv, NEW v \in Invocations, Survivors(v), DiagnosticTypeOK'
    PROVE  DInv'
<1>1. /\ pc[v] = "scan" /\ pc' = [pc EXCEPT ![v] = "grace"] /\ pc'[v] = "grace"
      /\ UNCHANGED <<assessment, reserved, processes, mem, outcome, execution, result>>
  BY DEF Survivors, Goto, files, runners, DInv, DiagnosticTypeOK
<1>2. /\ found'[v] = Alive(v)
      /\ \A u \in Invocations \ {v} : found'[u] = found[u]
  BY DEF Survivors, DInv, DiagnosticTypeOK
<1>3. Place(v)'
  BY <1>1, <1>2, Here, SameProcesses
     DEF Place, Before, Early, Uncounted, Cleaned, Saved, InTry, Finished, Alive
<1>4. Records(v)'
  BY <1>1, <1>2, Here, SameProcesses
     DEF Records, Told, Before, Early, Uncounted, Cleaned, Saved, InTry, Finished
<1>5. /\ "grace" \in PCs /\ ~ ("grace" = "licensed")
      /\ "grace" \in {"admitted", "finally"} \cup InTry =>
            v = D0 \/ pc[v] \in {"admitted", "finally"} \cup InTry
      /\ execution[v] = "ok" => execution'[v] = "ok"
  BY <1>1, <1>2, Here DEF PCs, InTry, Finished, Place, Saved
<1> QED BY <1>1, <1>2, <1>3, <1>4, <1>5, RunnerMoves

LEMMA SaveExecutionPreserves ==
    ASSUME DInv, NEW v \in Invocations, SaveExecution(v), DiagnosticTypeOK'
    PROVE  DInv'
<1>1. /\ pc[v] = "save" /\ pc' = [pc EXCEPT ![v] = "count"] /\ pc'[v] = "count"
      /\ UNCHANGED <<assessment, reserved, processes, mem, outcome, found, result>>
  BY DEF SaveExecution, Goto, files, runners, DInv, DiagnosticTypeOK
<1>2. /\ execution'[v] = outcome[v]
      /\ \A u \in Invocations \ {v} : execution'[u] = execution[u]
  BY DEF SaveExecution, DInv, DiagnosticTypeOK
<1>3. Place(v)'
  BY <1>1, <1>2, Here, SameProcesses
     DEF Place, Before, Early, Uncounted, Cleaned, Saved, InTry, Finished
<1>4. Records(v)'
  BY <1>1, <1>2, Here, SameProcesses
     DEF Records, Told, Before, Early, Uncounted, Cleaned, Saved, InTry, Finished, Place
<1>5. /\ "count" \in PCs /\ ~ ("count" = "licensed")
      /\ "count" \in {"admitted", "finally"} \cup InTry =>
            v = D0 \/ pc[v] \in {"admitted", "finally"} \cup InTry
      /\ execution[v] = "ok" => execution'[v] = "ok"
  BY <1>1, <1>2, Here DEF PCs, InTry, Finished, Place, Saved
<1> QED BY <1>1, <1>2, <1>3, <1>4, <1>5, RunnerMoves

LEMMA ExportPreserves ==
    ASSUME DInv, NEW v \in Invocations, Export(v), DiagnosticTypeOK'
    PROVE  DInv'
<1>1. /\ pc[v] = "export" /\ pc' = [pc EXCEPT ![v] = "finally"] /\ pc'[v] = "finally"
      /\ UNCHANGED <<assessment, reserved, processes, outcome, found, execution, result>>
  BY DEF Export, Goto, files, runners, DInv, DiagnosticTypeOK
<1>2. /\ mem'[v] = [mem[v] EXCEPT !.state = IF outcome[v] = "ok" THEN "FINISHED" ELSE "FAILED"]
      /\ \A u \in Invocations \ {v} : mem'[u] = mem[u]
  BY DEF Export, DInv, DiagnosticTypeOK
<1>3. /\ mem'[v].attempts = mem[v].attempts /\ mem'[v].unknown = mem[v].unknown
      /\ mem'[v].state = IF outcome[v] = "ok" THEN "FINISHED" ELSE "FAILED"
  BY <1>2, Here DEF Record
<1>4. Place(v)'
  BY <1>1, <1>2, <1>3, Here, SameProcesses
     DEF Place, Before, Early, Uncounted, Cleaned, Saved, InTry, Finished
<1>5. Records(v)'
  BY <1>1, <1>2, <1>3, Here, SameProcesses
     DEF Records, Told, Before, Early, Uncounted, Cleaned, Saved, InTry, Finished, Place
<1>6. /\ "finally" \in PCs /\ ~ ("finally" = "licensed")
      /\ "finally" \in {"admitted", "finally"} \cup InTry =>
            v = D0 \/ pc[v] \in {"admitted", "finally"} \cup InTry
      /\ execution[v] = "ok" => execution'[v] = "ok"
  BY <1>1, <1>2, Here DEF PCs, InTry, Finished, Place, Saved
<1> QED BY <1>1, <1>2, <1>4, <1>5, <1>6, RunnerMoves

LEMMA FinallyPreserves ==
    ASSUME DInv, NEW v \in Invocations, Finally(v), DiagnosticTypeOK'
    PROVE  DInv'
<1>1. /\ pc[v] = "finally" /\ pc' = [pc EXCEPT ![v] = "ended"] /\ pc'[v] = "ended"
      /\ UNCHANGED <<assessment, reserved, processes, mem, outcome, found, execution>>
  BY DEF Finally, Goto, files, runners, DInv, DiagnosticTypeOK
<1>2. /\ result'[v] = mem[v]
      /\ \A u \in Invocations \ {v} : result'[u] = result[u]
  BY DEF Finally, DInv, DiagnosticTypeOK
<1>3. Told(mem[v], v) /\ (mem[v].state = "FINISHED" => execution[v] = "ok")
  BY <1>1, Here DEF Records
<1>4. Place(v)'
  BY <1>1, <1>2, <1>3, Here, SameProcesses
     DEF Place, Before, Early, Uncounted, Cleaned, Saved, InTry, Finished
<1>5. Records(v)'
  BY <1>1, <1>2, <1>3, Here, SameProcesses
     DEF Records, Told, Before, Early, Uncounted, Cleaned, Saved, InTry, Finished
<1>6. /\ "ended" \in PCs /\ ~ ("ended" = "licensed")
      /\ "ended" \in {"admitted", "finally"} \cup InTry =>
            v = D0 \/ pc[v] \in {"admitted", "finally"} \cup InTry
      /\ execution[v] = "ok" => execution'[v] = "ok"
  BY <1>1, <1>2, Here DEF PCs, InTry, Finished, Place, Saved
<1> QED BY <1>1, <1>2, <1>4, <1>5, <1>6, RunnerMoves

(* The reservation: whoever takes it is the only one that holds it.           *)
LEMMA ReservePreserves ==
    ASSUME DInv, NEW v \in Invocations, Reserve(v), DiagnosticTypeOK'
    PROVE  DInv'
<1>1. /\ pc[v] = "licensed" /\ pc' = [pc EXCEPT ![v] = "admitted"] /\ pc'[v] = "admitted"
      /\ \A u \in Invocations \ {v} : pc'[u] = pc[u]
      /\ reserved' = TRUE
      /\ UNCHANGED <<assessment, processes, mem, outcome, found, execution, result>>
  BY DEF Reserve, Goto, files, runners, DInv, DiagnosticTypeOK
<1>2. ~ reserved
  BY DEF Reserve
<1>3. UNCHANGED <<profiler, owner, journal, valid, sent>>
  BY <1>1 DEF processes
<1>4. \A u \in Invocations : Processes(u)'
  BY <1>3 DEF DInv, Processes
<1>5. \A u \in Invocations : Place(u)' /\ Records(u)'
  <2> SUFFICES ASSUME NEW u \in Invocations PROVE Place(u)' /\ Records(u)'
    OBVIOUS
  <2>1. Place(u)'
    BY <1>1, Here, SameProcesses DEF Place, Before, Early, Cleaned, Saved, InTry, Finished
  <2>2. Records(u)'
    BY <1>1, Here, SameProcesses
       DEF Records, Told, Before, Early, Uncounted, InTry, Finished
  <2> QED BY <2>1, <2>2
<1>6. Licences'
  <2>1. \A u \in FollowUps : ~ Held(u)
    <3>1. \A u \in FollowUps : Held(u) => reserved
      BY Zenon DEF DInv, Licences
    <3> QED BY <1>2, <3>1, Zenon
  <2>2. \A u \in FollowUps : Held(u)' => u = v
    BY <1>1, <1>3, <2>1 DEF Held, Invocations
  <2>3. \A u \in FollowUps : pc'[u] = "licensed" \/ Held(u)' => assessment = "ready"
    <3>1. \A u \in FollowUps : u # v => pc'[u] = pc[u]
      BY <1>1 DEF Invocations
    <3>2. \A u \in FollowUps : pc[u] = "licensed" => assessment = "ready"
      BY DEF DInv, Licences
    <3> QED BY <1>1, <2>2, <3>1, <3>2
  <2>4. (assessment = "ready" => execution[D0] = "ok" /\ valid[D0])'
    <3>1. assessment = "ready" => execution[D0] = "ok" /\ valid[D0]
      BY DEF DInv, Licences
    <3> QED BY <1>1, <1>3, <3>1
  <2>5. \A u \in FollowUps : Held(u)' => reserved'
    BY <1>1, Zenon
  <2>6. \A u, w \in FollowUps : Held(u)' /\ Held(w)' => u = w
    BY <2>2
  <2>7. assessment' = assessment
    BY <1>1
  <2> QED BY <2>3, <2>4, <2>5, <2>6, <2>7, Zenon DEF Licences
<1> QED BY <1>4, <1>5, <1>6 DEF DInv

(* What a runner that gives up knows: nothing, or that it sent nothing.       *)
LEMMA GivingUp ==
    ASSUME DInv, NEW v \in Invocations, pc[v] \in InTry
    PROVE  Told(mem[v], v)
<1>0. /\ Processes(v) /\ Place(v) /\ Records(v)
      /\ journal[v].owners \subseteq Owners /\ Alive(v) \subseteq Owners
  BY Here
<1>1. CASE pc[v] = "preparing"
  <2>1. mem[v] = Fresh /\ profiler[v] = "none"
    BY <1>0, <1>1 DEF Records, Place, Before, Early
  <2>2. owner[v]["int"] = "none" /\ owner[v]["bg"] = "none"
    BY <1>0, <2>1 DEF Processes
  <2>3. Alive(v) = {} /\ journal[v].owners = {}
    BY <1>0, <2>2 DEF Alive, Owners, Processes
  <2>4. sent[v] = 0
    BY <1>0, <2>3 DEF Processes, Owners
  <2> QED BY <2>1, <2>3, <2>4 DEF Told, Quiet, Fresh
<1>2. CASE pc[v] \in Uncounted
  <2>1. mem[v].attempts = 0 /\ (v \in FollowUps => mem[v].unknown)
    BY <1>0, <1>2 DEF Records
  <2>2. v \notin FollowUps => sent[v] = 0 /\ v = D0
    BY <1>0 DEF Processes, Invocations
  <2> QED BY <2>1, <2>2 DEF Told
<1>3. CASE pc[v] = "export"
  BY <1>0, <1>3 DEF Records
<1> QED BY <1>1, <1>2, <1>3 DEF InTry, Uncounted

LEMMA FailsPreserves ==
    ASSUME DInv, NEW v \in Invocations, Fails(v), DiagnosticTypeOK'
    PROVE  DInv'
<1>1. /\ pc[v] \in InTry /\ pc' = [pc EXCEPT ![v] = "finally"] /\ pc'[v] = "finally"
      /\ UNCHANGED <<assessment, reserved, processes, outcome, found, execution, result>>
  BY DEF Fails, Goto, files, runners, DInv, DiagnosticTypeOK
<1>2. /\ mem'[v] = [mem[v] EXCEPT !.state = "STOPPED"]
      /\ \A u \in Invocations \ {v} : mem'[u] = mem[u]
  BY DEF Fails, DInv, DiagnosticTypeOK
<1>3. mem'[v].attempts = mem[v].attempts /\ mem'[v].unknown = mem[v].unknown
      /\ mem'[v].state = "STOPPED"
  BY <1>2, Here DEF Record
<1>4. Told(mem[v], v)
  BY <1>1, GivingUp
<1>5. Place(v)'
  BY <1>1, Here, SameProcesses DEF Place, Before, Early, Cleaned, Saved, InTry, Finished
<1>6. Records(v)'
  BY <1>1, <1>3, <1>4, Here, SameProcesses
     DEF Records, Told, Before, Early, Uncounted, InTry, Finished
<1>7. "finally" \in PCs
  BY DEF PCs
<1> QED BY <1>1, <1>2, <1>5, <1>6, <1>7, RunnerMoves

(* Counting: both journals and no request in flight, and nobody left to send. *)
LEMMA CountPreserves ==
    ASSUME DInv, NEW v \in Invocations, Count(v), DiagnosticTypeOK'
    PROVE  DInv'
<1>1. /\ pc[v] = "count" /\ pc' = [pc EXCEPT ![v] = "export"] /\ pc'[v] = "export"
      /\ UNCHANGED <<assessment, reserved, processes, outcome, found, execution, result>>
  BY DEF Count, Goto, files, runners, DInv, DiagnosticTypeOK
<1>2. /\ mem'[v] = [mem[v] EXCEPT
                     !.attempts = IF journal[v].preempt = "returned" THEN sent[v] ELSE 0,
                     !.unknown = MayHideOne(v)]
      /\ \A u \in Invocations \ {v} : mem'[u] = mem[u]
  BY DEF Count, DInv, DiagnosticTypeOK
<1>3. /\ mem'[v].attempts = IF journal[v].preempt = "returned" THEN sent[v] ELSE 0
      /\ mem'[v].unknown = MayHideOne(v)
      /\ mem'[v].state = mem[v].state
  BY <1>2, Here DEF Record
<1>4. Told(mem'[v], v)
  <2> SUFFICES ASSUME ~ MayHideOne(v)
               PROVE  mem'[v].attempts = sent[v] /\ (Quiet(v) \/ v = D0)
    BY <1>3 DEF Told
  <2>1. journal[v].preempt \in {"none", "returned"}
    BY DEF MayHideOne, DInv, DiagnosticTypeOK
  <2>2. mem'[v].attempts = sent[v]
    BY <1>3, <2>1, Here DEF Processes
  <2>3. CASE v \in FollowUps
    <3>1. "int" \in journal[v].owners
      BY <2>3 DEF MayHideOne, Owners
    <3>2. "int" \notin Alive(v) /\ "bg" \notin Alive(v) /\ profiler[v] # "running"
      BY <1>1, <3>1, Here DEF Place, Cleaned
    <3> QED BY <2>2, <3>2, Here DEF Quiet, Owners
  <2> QED BY <2>2, <2>3 DEF Invocations
<1>5. Place(v)'
  BY <1>1, Here, SameProcesses DEF Place, Before, Early, Cleaned, Saved, InTry, Finished
<1>6. Records(v)'
  BY <1>1, <1>3, <1>4, Here, SameProcesses
     DEF Records, Told, Before, Early, Uncounted, InTry, Finished
<1>7. "export" \in PCs /\ pc[v] \in InTry
  BY <1>1 DEF PCs, InTry
<1> QED BY <1>1, <1>2, <1>5, <1>6, <1>7, RunnerMoves

LEMMA InterruptPreserves ==
    ASSUME DInv, NEW v \in Invocations, Interrupt(v), DiagnosticTypeOK'
    PROVE  DInv'
<1>1. UNCHANGED <<assessment, reserved, processes, mem, outcome, found, execution, result>>
  BY DEF Interrupt, files
<1>2. PICK w \in {"finally", "ended"} :
        /\ pc' = [pc EXCEPT ![v] = w] /\ pc'[v] = w
        /\ w = "finally" => pc[v] \in InTry
        /\ pc[v] \in InTry \cup {"licensed", "admitted", "finally"}
  BY DEF Interrupt, Goto, DInv, DiagnosticTypeOK
<1>3. w = "finally" => Told(mem[v], v)
  BY <1>2, GivingUp
<1>4. Place(v)'
  BY <1>1, <1>2, Here, SameProcesses
     DEF Place, Before, Early, Cleaned, Saved, InTry, Finished
<1>5. Records(v)'
  BY <1>1, <1>2, <1>3, Here, SameProcesses
     DEF Records, Told, Before, Early, Uncounted, InTry, Finished
<1>6. /\ w \in PCs /\ w # "licensed"
      /\ w \in {"admitted", "finally"} \cup InTry => pc[v] \in InTry
  BY <1>2 DEF PCs, InTry, Finished
<1> QED BY <1>1, <1>2, <1>4, <1>5, <1>6, RunnerMoves

LEMMA CrashPreserves ==
    ASSUME DInv, NEW v \in Invocations, Crash(v), DiagnosticTypeOK'
    PROVE  DInv'
<1>1. /\ pc' = [pc EXCEPT ![v] = "crashed"] /\ pc'[v] = "crashed"
      /\ UNCHANGED <<assessment, reserved, processes, mem, outcome, found, execution>>
  BY DEF Crash, Goto, files, runners, DInv, DiagnosticTypeOK
<1>2. /\ \A u \in Invocations \ {v} : result'[u] = result[u]
      /\ result'[v] = result[v] \/ result'[v] = Torn
  BY DEF Crash, DInv, DiagnosticTypeOK
<1>3. Torn \notin Record
  BY DEF Torn, Record
<1>4. Place(v)'
  BY <1>1, Here, SameProcesses DEF Place, Before, Early, Cleaned, Saved, InTry, Finished
<1>5. Records(v)'
  BY <1>1, <1>2, <1>3, Here, SameProcesses
     DEF Records, Told, Before, Early, Uncounted, InTry, Finished
<1>6. "crashed" \in PCs /\ "crashed" \notin {"admitted", "finally"} \cup InTry
  BY DEF PCs, InTry, Finished
<1> QED BY <1>1, <1>2, <1>4, <1>5, <1>6, RunnerMoves

-----------------------------------------------------------------------------
(* What a kill, by group or by pidfd, changes.                                *)
LEMMA KillChanges ==
    ASSUME DInv, NEW v \in Invocations, NEW roles \in SUBSET Owners,
           \A r \in roles : owner[v][r] # "none", owner' = Killed(v, roles)
    PROVE  /\ \A u \in Invocations \ {v} : owner'[u] = owner[u]
           /\ Alive(v)' = Alive(v) \ roles
           /\ \A r \in Owners : owner'[v][r] = "none" <=> owner[v][r] = "none"
<1>1. owner'[v] = [r \in Owners |-> IF r \in roles THEN "gone" ELSE owner[v][r]]
      /\ \A u \in Invocations \ {v} : owner'[u] = owner[u]
  BY DEF Killed, DInv, DiagnosticTypeOK
<1>2. \A r \in Owners : owner'[v][r] = IF r \in roles THEN "gone" ELSE owner[v][r]
  BY <1>1
<1> QED BY <1>1, <1>2 DEF Alive

LEMMA KilledIsOrderly ==
    ASSUME DInv, NEW v \in Invocations,
           \A r \in Owners : owner'[v][r] = "none" <=> owner[v][r] = "none",
           profiler'[v] = "none" => profiler[v] = "none",
           journal' = journal, sent' = sent
    PROVE  Processes(v)'
BY Here DEF Processes, Owners

LEMMA LaunchPreserves ==
    ASSUME DInv, NEW v \in Invocations, Launch(v) \/ InterruptLaunch(v), DiagnosticTypeOK'
    PROVE  DInv'
<1>1. PICK w \in {"wait", "finally"} :
        /\ pc[v] = "launch" /\ pc' = [pc EXCEPT ![v] = w] /\ pc'[v] = w
        /\ \A u \in Invocations \ {v} : pc'[u] = pc[u] /\ profiler'[u] = profiler[u]
        /\ profiler'[v] = "running"
        /\ UNCHANGED <<files, mem, outcome, owner, journal, valid, sent, found>>
  BY DEF Launch, InterruptLaunch, Goto, DInv, DiagnosticTypeOK
<1>2. UNCHANGED <<assessment, reserved, execution, result>> /\ Alive(v)' = Alive(v)
  BY <1>1 DEF files, Alive
<1>3. Processes(v)'
  BY <1>1, Here DEF Processes
<1>4. execution[v] # "ok"
  BY <1>1, Here DEF Place, Saved, Finished
<1>5. Place(v)'
  BY <1>1, <1>2, <1>4, Here DEF Place, Before, Early, Cleaned, Saved, Finished
<1>6. Told(mem[v], v) /\ (result[v] \in Record => Told(result[v], v))
  BY <1>1, GivingUp, Here DEF Records, InTry
<1>7. v \in FollowUps => (result[v] \in Record => result[v].unknown) /\ mem[v].unknown
  BY <1>1, Here DEF Records, Before, Uncounted
<1>8. Records(v)'
  BY <1>1, <1>2, <1>6, <1>7, Here
     DEF Records, Told, Before, Early, Uncounted, Invocations
<1>9. Held(v) /\ pc'[v] # "licensed"
  BY <1>1 DEF Held, InTry
<1> QED BY <1>1, <1>2, <1>3, <1>4, <1>5, <1>8, <1>9, Framed

LEMMA GroupKilledPreserves ==
    ASSUME DInv, NEW v \in Invocations, pc[v] = "wait", GroupKilled(v), DiagnosticTypeOK'
    PROVE  DInv'
<1>1. /\ pc'[v] = "scan" /\ outcome'[v] = "failed"
      /\ profiler'[v] = IF profiler[v] = "running" THEN "crashed" ELSE profiler[v]
      /\ \A u \in Invocations \ {v} :
            pc'[u] = pc[u] /\ profiler'[u] = profiler[u] /\ outcome'[u] = outcome[u]
      /\ UNCHANGED <<files, mem, journal, valid, sent, found>>
  BY DEF GroupKilled, Goto, DInv, DiagnosticTypeOK
<1>2. PICK roles \in SUBSET Alive(v) : owner' = Killed(v, roles)
  BY DEF GroupKilled
<1>3. roles \in SUBSET Owners /\ \A r \in roles : owner[v][r] # "none"
  BY DEF Alive
<1>4. /\ \A u \in Invocations \ {v} : owner'[u] = owner[u]
      /\ Alive(v)' = Alive(v) \ roles
      /\ \A r \in Owners : owner'[v][r] = "none" <=> owner[v][r] = "none"
  BY <1>2, <1>3, KillChanges
<1>5. UNCHANGED <<assessment, reserved, execution, result>>
  BY <1>1 DEF files
<1>6. Processes(v)'
  BY <1>1, <1>4, KilledIsOrderly
<1>7. execution[v] # "ok"
  BY Here DEF Place, Saved, Finished
<1>8. Place(v)'
  BY <1>1, <1>5, <1>7, Here DEF Place, Before, Early, Cleaned, Saved, Finished
<1>9. Quiet(v) => Quiet(v)'
  BY <1>1, <1>4 DEF Quiet
<1>10. Records(v)'
  BY <1>1, <1>5, <1>9, Here DEF Records, Told, Before, Early, Uncounted
<1>11. Held(v) /\ pc'[v] # "licensed"
  BY <1>1 DEF Held, InTry
<1> QED BY <1>1, <1>4, <1>5, <1>6, <1>7, <1>8, <1>10, <1>11, Framed

LEMMA KillSurvivorsPreserves ==
    ASSUME DInv, NEW v \in Invocations, KillSurvivors(v), DiagnosticTypeOK'
    PROVE  DInv'
<1>1. /\ pc[v] = "grace" /\ pc'[v] = "save" /\ outcome'[v] = "failed"
      /\ mem'[v] = [mem[v] EXCEPT !.escaped = TRUE]
      /\ \A u \in Invocations \ {v} :
            pc'[u] = pc[u] /\ mem'[u] = mem[u] /\ outcome'[u] = outcome[u]
      /\ UNCHANGED <<files, profiler, journal, valid, sent, found>>
      /\ owner' = Killed(v, found[v])
  BY DEF KillSurvivors, Goto, DInv, DiagnosticTypeOK
<1>2. found[v] \in SUBSET Owners /\ \A r \in found[v] : owner[v][r] # "none"
  BY <1>1, Here DEF Place
<1>3. /\ \A u \in Invocations \ {v} : owner'[u] = owner[u]
      /\ Alive(v)' = Alive(v) \ found[v]
      /\ \A r \in Owners : owner'[v][r] = "none" <=> owner[v][r] = "none"
  BY <1>1, <1>2, KillChanges
<1>4. UNCHANGED <<assessment, reserved, execution, result>>
  BY <1>1 DEF files
<1>5. Processes(v)'
  BY <1>1, <1>3, KilledIsOrderly
<1>6. execution[v] # "ok"
  BY <1>1, Here DEF Place, Saved, Finished
<1>7. Place(v)'
  BY <1>1, <1>3, <1>4, <1>6, Here DEF Place, Before, Early, Cleaned, Saved, Finished
<1>8. /\ mem'[v].attempts = mem[v].attempts /\ mem'[v].unknown = mem[v].unknown
      /\ mem'[v].state = mem[v].state
  BY <1>1, Here DEF Record
<1>9. Quiet(v) => Quiet(v)'
  BY <1>1, <1>3 DEF Quiet
<1>10. Records(v)'
  BY <1>1, <1>4, <1>8, <1>9, Here DEF Records, Told, Before, Early, Uncounted
<1>11. Held(v) /\ pc'[v] # "licensed"
  BY <1>1 DEF Held, InTry
<1> QED BY <1>1, <1>3, <1>4, <1>5, <1>6, <1>7, <1>10, <1>11, Framed

-----------------------------------------------------------------------------
(* The profiler and the owners move while the runner stays where it is.       *)
LEMMA ProcessesMove ==
    ASSUME DInv, NEW v \in Invocations, DiagnosticTypeOK',
           UNCHANGED <<files, runners, found>>,
           \A u \in Invocations \ {v} :
              /\ profiler'[u] = profiler[u] /\ owner'[u] = owner[u]
              /\ journal'[u] = journal[u] /\ sent'[u] = sent[u],
           \A u \in Invocations : valid[u] => valid'[u],
           profiler[v] = "none" => profiler'[v] = "none",
           Processes(v)', Place(v)', Records(v)'
    PROVE  DInv'
<1>1. UNCHANGED <<assessment, reserved, execution, result, pc, mem, outcome>>
  BY DEF files, runners
<1>2. Held(v)' => Held(v)
  BY <1>1 DEF Held
<1>3. pc'[v] = "licensed" => pc[v] = "licensed"
  BY <1>1
<1> QED BY <1>1, <1>2, <1>3, Framed

(* Records only ask that a capture stays quiet and sends no more.             *)
LEMMA RecordsKept ==
    ASSUME DInv, NEW v \in Invocations, UNCHANGED <<files, runners>>,
           Quiet(v) => Quiet(v)', sent'[v] = sent[v] \/ (~ Quiet(v) /\ v # D0)
    PROVE  Records(v)'
<1>1. UNCHANGED <<execution, result, pc, mem>>
  BY DEF files, runners
<1>2. Records(v)
  BY Here
<1> QED BY <1>1, <1>2 DEF Records, Told

LEMMA StartIntPreserves ==
    ASSUME DInv, NEW v \in Invocations, StartInt(v), DiagnosticTypeOK'
    PROVE  DInv'
<1>1. /\ profiler[v] = "running" /\ owner[v]["int"] = "none"
      /\ owner'[v]["int"] = "alive" /\ owner'[v]["bg"] = owner[v]["bg"]
      /\ \A u \in Invocations \ {v} : owner'[u] = owner[u]
      /\ UNCHANGED <<files, runners, profiler, journal, valid, sent, found>>
  BY DEF StartInt, Owners, DInv, DiagnosticTypeOK
<1>2. UNCHANGED <<execution, pc, mem, outcome>>
  BY <1>1 DEF files, runners
<1>3. Processes(v)'
  BY <1>1, Here DEF Processes, Owners
<1>4. Place(v)'
  BY <1>1, <1>2, Here DEF Place, Quiet, Before, Early, Cleaned, Saved, Finished
<1>5. Records(v)'
  BY <1>1, RecordsKept DEF Quiet
<1> QED BY <1>1, <1>3, <1>4, <1>5, ProcessesMove

LEMMA StartBgPreserves ==
    ASSUME DInv, NEW v \in Invocations, StartBg(v), DiagnosticTypeOK'
    PROVE  DInv'
<1>1. /\ "int" \in Alive(v) /\ owner[v]["bg"] = "none"
      /\ owner'[v]["bg"] = "alive" /\ owner'[v]["int"] = owner[v]["int"]
      /\ \A u \in Invocations \ {v} : owner'[u] = owner[u]
      /\ UNCHANGED <<files, runners, profiler, journal, valid, sent, found>>
  BY DEF StartBg, Owners, DInv, DiagnosticTypeOK
<1>2. UNCHANGED <<execution, pc, mem, outcome>> /\ Alive(v)' = Alive(v) \cup {"bg"}
  BY <1>1 DEF files, runners, Alive, Owners
<1>3. owner[v]["int"] # "none" /\ ~ Quiet(v)
  BY <1>1 DEF Alive, Quiet
<1>4. Processes(v)'
  BY <1>1, <1>3, Here DEF Processes, Owners
<1>5. "int" \notin journal[v].owners
  BY <1>1, Here DEF Processes
<1>6. Place(v)'
  <2>1. pc[v] \notin Cleaned /\ execution[v] # "ok"
    BY <1>1, <1>3, Here DEF Place
  <2>2. pc[v] = "grace" => found[v] = {"int"}
    BY <1>1, Here DEF Place, Owners
  <2>3. pc[v] = "grace" =>
          /\ Alive(v)' \subseteq found[v] \cup {"bg"}
          /\ \A r \in found[v] : owner'[v][r] # "none"
    BY <1>1, <1>2, <1>3, <2>2, Here DEF Owners
  <2> QED BY <1>1, <1>2, <1>5, <2>1, <2>2, <2>3, Here DEF Place, Cleaned, Saved
<1>7. Records(v)'
  BY <1>1, <1>3, RecordsKept
<1> QED BY <1>1, <1>4, <1>6, <1>7, ProcessesMove

(* The owners that end leave the others as they are.                          *)
LEMMA EndingPreserves ==
    ASSUME DInv, NEW v \in Invocations, NEW r \in Owners,
           OwnerEnds(v, r) \/ (r = "int" /\ IntCompletes(v)), DiagnosticTypeOK'
    PROVE  DInv'
<1>1. /\ r \in Alive(v) /\ owner' = [owner EXCEPT ![v][r] = "gone"]
      /\ UNCHANGED <<files, runners, profiler, journal, sent, found>>
      /\ \A u \in Invocations : valid[u] => valid'[u]
  BY DEF OwnerEnds, IntCompletes, DInv, DiagnosticTypeOK
<1>2. /\ \A u \in Invocations \ {v} : owner'[u] = owner[u]
      /\ \A x \in Owners : owner'[v][x] = IF x = r THEN "gone" ELSE owner[v][x]
  BY <1>1 DEF DInv, DiagnosticTypeOK
<1>3. /\ Alive(v)' = Alive(v) \ {r}
      /\ \A x \in Owners : owner'[v][x] = "none" <=> owner[v][x] = "none"
  BY <1>1, <1>2 DEF Alive
<1>4. Processes(v)'
  BY <1>1, <1>3, KilledIsOrderly
<1>5. UNCHANGED <<execution, pc, mem, outcome>> /\ (Quiet(v) => Quiet(v)')
  BY <1>1, <1>3 DEF files, runners, Quiet
<1>6. Place(v)'
  BY <1>1, <1>3, <1>5, Here DEF Place
<1>7. Records(v)'
  BY <1>1, <1>5, RecordsKept
<1> QED BY <1>1, <1>2, <1>4, <1>6, <1>7, ProcessesMove

LEMMA ProfilerEndsPreserves ==
    ASSUME DInv, NEW v \in Invocations, ProfilerEnds(v), DiagnosticTypeOK'
    PROVE  DInv'
<1>1. /\ profiler[v] = "running" /\ profiler'[v] \in {"exited", "crashed"}
      /\ \A u \in Invocations \ {v} : profiler'[u] = profiler[u]
      /\ UNCHANGED <<files, runners, owner, journal, valid, sent, found>>
  BY DEF ProfilerEnds, DInv, DiagnosticTypeOK
<1>2. UNCHANGED <<execution, pc, mem, outcome>> /\ Alive(v)' = Alive(v) /\ ~ Quiet(v)
  BY <1>1 DEF files, runners, Alive, Quiet
<1>3. Processes(v)'
  BY <1>1, Here DEF Processes
<1>4. Place(v)'
  BY <1>1, <1>2, Here DEF Place
<1>5. Records(v)'
  BY <1>1, <1>2, RecordsKept
<1> QED BY <1>1, <1>3, <1>4, <1>5, ProcessesMove

LEMMA OpenJournalPreserves ==
    ASSUME DInv, NEW v \in Invocations, NEW r \in Owners, OpenJournal(v, r), DiagnosticTypeOK'
    PROVE  DInv'
<1>1. /\ r \in Alive(v) \ journal[v].owners
      /\ r = "int" => "bg" \in journal[v].owners /\ ~ ToldBeforeBg(v)
      /\ journal'[v] = [journal[v] EXCEPT !.owners = @ \cup {r}]
      /\ \A u \in Invocations \ {v} : journal'[u] = journal[u]
      /\ UNCHANGED <<files, runners, profiler, owner, valid, sent, found>>
  BY DEF OpenJournal, DInv, DiagnosticTypeOK
<1>2. /\ journal'[v].owners = journal[v].owners \cup {r}
      /\ journal'[v].preempt = journal[v].preempt
  BY <1>1 DEF DInv, DiagnosticTypeOK
<1>3. UNCHANGED <<execution, pc, mem, outcome>> /\ Alive(v)' = Alive(v) /\ (Quiet(v)' <=> Quiet(v))
  BY <1>1 DEF files, runners, Alive, Quiet
<1>4. owner[v][r] # "none"
  BY <1>1 DEF Alive
<1>5. Processes(v)'
  <2>1. journal[v].preempt = "none"
    BY <1>1, Here DEF Processes
  <2> QED BY <1>1, <1>2, <1>4, <2>1, Here DEF Processes
<1>6. Place(v)'
  <2>1. pc[v] = "grace" /\ "bg" \in Alive(v) \ found[v] => r # "int"
    BY <1>1, Here DEF Place, ToldBeforeBg, Alive
  <2>2. pc[v] \in Cleaned => r # "int"
    BY <1>1, Here DEF Place
  <2> QED BY <1>1, <1>2, <1>3, <2>1, <2>2, Here DEF Place
<1>7. Records(v)'
  BY <1>1, <1>3, RecordsKept
<1> QED BY <1>1, <1>5, <1>6, <1>7, ProcessesMove

(* A request is sent by a BG that is alive, so the capture is not quiet.      *)
LEMMA RequestPreserves ==
    ASSUME DInv, NEW v \in Invocations,
           PublishPreempt(v) \/ SendPreempt(v) \/ CompletePreempt(v), DiagnosticTypeOK'
    PROVE  DInv'
<1>1. /\ "bg" \in Alive(v)
      /\ \A u \in Invocations \ {v} : journal'[u] = journal[u] /\ sent'[u] = sent[u]
      /\ UNCHANGED <<files, runners, profiler, owner, valid, found>>
      /\ journal[v].owners = Owners /\ v \in FollowUps
  BY Here
     DEF PublishPreempt, SendPreempt, CompletePreempt, DInv, DiagnosticTypeOK, Processes
<1>2. journal'[v].owners = journal[v].owners /\ journal'[v].preempt # "none"
  BY DEF PublishPreempt, SendPreempt, CompletePreempt, DInv, DiagnosticTypeOK
<1>3. UNCHANGED <<execution, pc, mem, outcome>> /\ Alive(v)' = Alive(v) /\ (Quiet(v)' <=> Quiet(v))
  BY <1>1 DEF files, runners, Alive, Quiet
<1>4. Processes(v)'
  BY <1>1, <1>2, Here DEF Processes
<1>5. Place(v)'
  BY <1>1, <1>2, <1>3, Here DEF Place
<1>6. ~ Quiet(v) /\ v # D0
  BY <1>1, DiagnosticAssumption DEF Quiet, DiagnosticAssumption
<1>7. Records(v)'
  BY <1>1, <1>3, <1>6, RecordsKept
<1> QED BY <1>1, <1>4, <1>5, <1>7, ProcessesMove

-----------------------------------------------------------------------------
(* Every step.                                                                *)
LEMMA AssessPreserves ==
    ASSUME DInv, Assess
    PROVE  DInv'
<1>1. /\ assessment = "none" /\ assessment' \in {"limited", "ready"}
      /\ assessment' = "ready" => execution[D0] = "ok" /\ valid[D0]
      /\ UNCHANGED <<reserved, execution, exported, result, pc, mem, outcome, interrupts,
                     profiler, owner, journal, valid, sent, found>>
  BY DEF Assess, runners, processes
<1>2. \A v \in FollowUps : ~ Held(v) /\ pc[v] # "licensed"
  BY <1>1 DEF DInv, Licences
<1>3. DiagnosticTypeOK'
  <2>1. reserved' \in BOOLEAN
    BY <1>1, Zenon DEF DInv, DiagnosticTypeOK
  <2> QED BY <1>1, <2>1 DEF DInv, DiagnosticTypeOK
<1>4. Licences'
  <2>1. \A v \in FollowUps : ~ Held(v)' /\ pc'[v] # "licensed"
    BY <1>1, <1>2 DEF Held
  <2>2. (assessment = "ready" => execution[D0] = "ok" /\ valid[D0])'
    BY <1>1
  <2> QED BY <2>1, <2>2, Zenon DEF Licences
<1>5. \A v \in Invocations : Processes(v)' /\ Place(v)' /\ Records(v)'
  BY <1>1 DEF DInv, Processes, Place, Records, Told, Quiet, Alive
<1> QED BY <1>3, <1>4, <1>5 DEF DInv

LEMMA TypesKept ==
    ASSUME DInv, [Next]_vars
    PROVE  DiagnosticTypeOK'
<1>1. reserved' \in BOOLEAN
  BY ReservedTyped
<1>2. CASE \E v \in Invocations : RunnerStep(v) \/ FaultStep(v) \/ ProcessStep(v)
  BY <1>1, <1>2, RunnerTyped, FaultTyped, ProcessTyped
<1>3. CASE Assess
  BY <1>3, AssessPreserves DEF DInv
<1>4. CASE UNCHANGED vars
  BY <1>1, <1>4 DEF vars, files, runners, processes, DInv, DiagnosticTypeOK
<1> QED BY <1>2, <1>3, <1>4 DEF Next

LEMMA StepPreserves ==
    ASSUME DInv, [Next]_vars
    PROVE  DInv'
<1>1. DiagnosticTypeOK'
  BY TypesKept
<1>2. ASSUME NEW v \in Invocations, RunnerStep(v) PROVE DInv'
  BY <1>1, <1>2, AdmissionPreserves, ReservePreserves, ReadyPreserves,
     AnnouncePreserves, LaunchPreserves, LaunchFailsPreserves, CollectedPreserves,
     GroupKilledPreserves, NoSurvivorsPreserves, SurvivorsPreserves,
     KillSurvivorsPreserves, SaveExecutionPreserves, CountPreserves, ExportPreserves,
     FinallyPreserves, FailsPreserves
     DEF RunnerStep, CollectionCut
<1>3. ASSUME NEW v \in Invocations, FaultStep(v) PROVE DInv'
  BY <1>1, <1>3, InterruptPreserves, LaunchPreserves, GroupKilledPreserves, CrashPreserves
     DEF FaultStep, InterruptWait
<1>4. ASSUME NEW v \in Invocations, ProcessStep(v) PROVE DInv'
  <2>1. "int" \in Owners
    BY DEF Owners
  <2> QED BY <1>1, <1>4, <2>1, StartIntPreserves, StartBgPreserves, ProfilerEndsPreserves,
             OpenJournalPreserves, EndingPreserves, RequestPreserves DEF ProcessStep
<1>5. CASE UNCHANGED vars
  <2>1. UNCHANGED <<assessment, reserved, execution, result, pc, mem, outcome, profiler, owner,
                    journal, valid, sent, found>>
    BY <1>5 DEF vars, files, runners, processes
  <2>2. Licences'
    <3>1. \A v \in FollowUps : Held(v)' <=> Held(v)
      BY <2>1 DEF Held
    <3> QED BY <2>1, <3>1 DEF DInv, Licences
  <2>3. \A v \in Invocations : Processes(v)' /\ Place(v)' /\ Records(v)'
    BY <2>1 DEF DInv, Processes, Place, Records, Told, Quiet, Alive
  <2> QED BY <1>1, <2>2, <2>3 DEF DInv
<1> QED BY <1>2, <1>3, <1>4, <1>5, AssessPreserves DEF Next

LEMMA Invariance == Spec => []DInv
BY InitEstablishes, StepPreserves, PTL DEF Spec

(* run_diagnostic.py: the variables keep their types.                         *)
THEOREM DiagnosticTypeCorrect == Spec => []DiagnosticTypeOK
<1>1. DInv => DiagnosticTypeOK
  BY DEF DInv
<1> QED BY <1>1, Invariance, PTL

(* result.json is true (run_diagnostic.py, main() and control_facts()): a     *)
(* known number of requests is the number sent, now and later, and            *)
(* CAPTURE_FINISHED means that nobody had to be cleaned up and none is left.  *)
THEOREM ResultIsTrue == Spec => []ResultTrue
<1>1. ASSUME DInv, NEW v \in Invocations, result[v] \in Record
      PROVE  /\ ~ result[v].unknown => result[v].attempts = sent[v]
             /\ result[v].state = "FINISHED" =>
                  Alive(v) = {} /\ found[v] = {} /\ execution[v] = "ok"
  BY <1>1, Here DEF Records, Told, Place, Quiet
<1>2. DInv => ResultTrue
  BY <1>1 DEF ResultTrue, AttemptsTold, FinishedIsClean
<1> QED BY <1>2, Invariance, PTL

(* Captures never meet (require_d0(), d1_reserved.json): a follow-up starts   *)
(* on a D0 that ended cleanly, and the owners alive at any time belong to one *)
(* invocation, however many follow-ups race and die.                          *)
THEOREM CapturesNeverMeet == Spec => []CapturesSeparate
<1>1. ASSUME DInv, NEW v \in FollowUps, profiler[v] # "none"
      PROVE  /\ valid[D0] /\ execution[D0] = "ok" /\ found[D0] = {} /\ Alive(D0) = {}
             /\ Held(v)
  <2>1. Held(v)
    BY <1>1 DEF Held
  <2>2. execution[D0] = "ok" /\ valid[D0]
    BY <1>1, <2>1 DEF DInv, Licences
  <2> QED BY <1>1, <2>1, <2>2, Here DEF Place, Quiet, Invocations
<1>2. ASSUME DInv, NEW v \in Invocations, Alive(v) # {}
      PROVE  profiler[v] # "none"
  BY <1>2, Here DEF Processes, Alive, Owners
<1>3. ASSUME DInv, NEW v \in Invocations, NEW w \in Invocations, Alive(v) # {}, Alive(w) # {}
      PROVE  v = w
  <2>1. profiler[v] # "none" /\ profiler[w] # "none"
    BY <1>2, <1>3
  <2>2. CASE v \in FollowUps /\ w \in FollowUps
    BY <1>1, <1>3, <2>1, <2>2 DEF DInv, Licences
  <2>3. CASE v = D0 \/ w = D0
    BY <1>1, <1>3, <2>1, <2>3 DEF Invocations
  <2> QED BY <2>2, <2>3 DEF Invocations
<1>4. DInv => CapturesSeparate
  BY <1>1, <1>3 DEF CapturesSeparate, LicensedByCleanD0, OwnersOfOneInvocation
<1> QED BY <1>4, Invariance, PTL

-----------------------------------------------------------------------------
(* The one-shot contract.  A D0 that has not started has no assessment.       *)
Unstarted == pc[D0] \in {"idle", "admitted"}

AInv == pc[D0] # "licensed" /\ (Unstarted => assessment = "none")

(* What a step is to the contract.                                            *)
Unseen == Running' = Running /\ assessment' = assessment /\ (Unstarted' <=> Unstarted)
Asking == Running' = Running /\ assessment' = assessment /\ Unstarted /\ ~ Unstarted'
Answering ==
    /\ Running' = Running /\ ~ Unstarted /\ ~ Unstarted'
    /\ assessment = "none" /\ assessment' \in {"limited", "ready"}
Using ==
    /\ \E v \in FollowUps : Running = {} /\ Running' = {v}
    /\ assessment = "ready" /\ assessment' = assessment /\ ~ Unstarted /\ ~ Unstarted'

LEMMA RunningKept ==
    ASSUME \A v \in FollowUps : profiler'[v] = "none" <=> profiler[v] = "none"
    PROVE  Running' = Running
BY DEF Running

LEMMA QuietStep ==
    ASSUME DInv, AInv, NEW v \in Invocations,
           UNCHANGED assessment,
           \A u \in FollowUps : profiler'[u] = "none" <=> profiler[u] = "none",
           \A u \in Invocations \ {v} : pc'[u] = pc[u],
           pc'[v] # "licensed" \/ v # D0,
           pc'[v] = "admitted" => pc[v] \in {"idle", "licensed", "admitted"},
           pc'[v] = "idle" => pc[v] = "idle"
    PROVE  AInv' /\ (Unseen \/ Asking)
<1>1. Running' = Running
  BY RunningKept
<1>2. CASE v = D0
  BY <1>1, <1>2 DEF AInv, Unstarted, Unseen, Asking
<1>3. CASE v # D0
  <2>1. pc'[D0] = pc[D0]
    BY <1>3 DEF Invocations
  <2> QED BY <1>1, <2>1 DEF AInv, Unstarted, Unseen
<1> QED BY <1>2, <1>3

LEMMA StepKinds ==
    ASSUME DInv, AInv, [Next]_vars
    PROVE  AInv' /\ (Unseen \/ Asking \/ Answering \/ Using)
<1>1. ASSUME NEW v \in Invocations, RunnerStep(v) \/ FaultStep(v), pc[v] # "launch"
      PROVE  AInv' /\ (Unseen \/ Asking)
  <2>1. /\ UNCHANGED assessment
        /\ \A u \in Invocations \ {v} : pc'[u] = pc[u]
        /\ pc'[v] # "licensed" \/ v # D0
        /\ pc'[v] = "admitted" => pc[v] \in {"idle", "licensed", "admitted"}
        /\ pc'[v] = "idle" => pc[v] = "idle"
    BY <1>1, DiagnosticAssumption
       DEF DiagnosticAssumption, RunnerStep, StartD0, CheckD0, Refused, Reserve, AlreadyReserved,
         Prepare, PrepareFails, Ready, Announce, Launch, LaunchFails, Collected,
         CollectionCut, GroupKilled, NoSurvivors, Survivors, KillSurvivors, SaveExecution,
         Count, Export, Finally, Fails, FaultStep, Interrupt, InterruptLaunch,
         InterruptWait, Crash, Goto, files, DInv, DiagnosticTypeOK
  <2>2. \A u \in Invocations : profiler'[u] = "none" <=> profiler[u] = "none"
    BY <1>1
       DEF RunnerStep, StartD0, CheckD0, Refused, Reserve, AlreadyReserved,
         Prepare, PrepareFails, Ready, Announce, Launch, LaunchFails, Collected,
         CollectionCut, GroupKilled, NoSurvivors, Survivors, KillSurvivors, SaveExecution,
         Count, Export, Finally, Fails, FaultStep, Interrupt, InterruptLaunch,
         InterruptWait, Crash, processes, DInv, DiagnosticTypeOK
  <2> QED BY <2>1, <2>2, QuietStep DEF Invocations
<1>2. ASSUME NEW v \in Invocations, RunnerStep(v) \/ FaultStep(v), pc[v] = "launch"
      PROVE  AInv' /\ (Unseen \/ Asking \/ Using)
  <2>1. /\ UNCHANGED assessment
        /\ \A u \in Invocations \ {v} : pc'[u] = pc[u] /\ profiler'[u] = profiler[u]
        /\ pc'[v] \notin {"idle", "licensed", "admitted"}
        /\ profiler'[v] = profiler[v] \/ profiler'[v] = "running"
    BY <1>2
       DEF RunnerStep, StartD0, CheckD0, Refused, Reserve, AlreadyReserved,
         Prepare, PrepareFails, Ready, Announce, Launch, LaunchFails, Collected,
         CollectionCut, NoSurvivors, Survivors, KillSurvivors, SaveExecution,
         Count, Export, Finally, Fails, FaultStep, Interrupt, InterruptLaunch,
         InterruptWait, Crash, Goto, files, processes, DInv, DiagnosticTypeOK
  <2>2. CASE v \notin FollowUps \/ profiler'[v] = profiler[v]
    <3>1. \A u \in FollowUps : profiler'[u] = "none" <=> profiler[u] = "none"
      BY <2>1, <2>2 DEF Invocations
    <3> QED BY <2>1, <3>1, QuietStep
  <2>3. CASE v \in FollowUps /\ profiler'[v] = "running"
    <3>1. Held(v) /\ profiler[v] = "none"
      BY <1>2, Here DEF Held, InTry, Place, Before
    <3>2. assessment = "ready" /\ \A u \in FollowUps : profiler[u] # "none" => u = v
      <4>1. \A u \in FollowUps : profiler[u] # "none" => Held(u)
        BY DEF Held
      <4> QED BY <2>3, <3>1, <4>1 DEF DInv, Licences
    <3>3. Running = {}
      BY <3>1, <3>2 DEF Running
    <3>4. Running' = {v}
      BY <2>1, <2>3, <3>1, <3>2 DEF Running, Invocations
    <3>5. pc'[D0] = pc[D0]
      BY <2>1, <2>3, DiagnosticAssumption DEF DiagnosticAssumption, Invocations
    <3>6. ~ Unstarted
      BY <3>2 DEF AInv
    <3> QED BY <2>1, <2>3, <3>2, <3>3, <3>4, <3>5, <3>6 DEF AInv, Unstarted, Using
  <2> QED BY <2>1, <2>2, <2>3
<1>3. ASSUME NEW v \in Invocations, ProcessStep(v)
      PROVE  AInv' /\ Unseen
  <2>1. UNCHANGED <<assessment, pc>>
    BY <1>3 DEF ProcessStep, StartInt, StartBg, ProfilerEnds, OpenJournal, OwnerEnds,
         PublishPreempt, SendPreempt, CompletePreempt, IntCompletes, files, runners
  <2>2. \A u \in FollowUps : profiler'[u] = "none" <=> profiler[u] = "none"
    <3>1. CASE ProfilerEnds(v)
      BY <3>1 DEF ProfilerEnds, DInv, DiagnosticTypeOK
    <3>2. CASE ~ ProfilerEnds(v)
      <4>1. profiler' = profiler
        BY <1>3, <3>2 DEF ProcessStep, StartInt, StartBg, OpenJournal, OwnerEnds,
           PublishPreempt, SendPreempt, CompletePreempt, IntCompletes
      <4> QED BY <4>1
    <3> QED BY <3>1, <3>2
  <2>3. Running' = Running
    BY <2>2, RunningKept
  <2> QED BY <2>1, <2>3 DEF AInv, Unstarted, Unseen
<1>4. CASE Assess
  <2>1. /\ UNCHANGED <<pc, profiler>> /\ ~ Unstarted
        /\ assessment = "none" /\ assessment' \in {"limited", "ready"}
    BY <1>4 DEF Assess, runners, processes, Unstarted
  <2>2. Running' = Running
    BY <2>1, RunningKept
  <2> QED BY <2>1, <2>2 DEF AInv, Unstarted, Answering
<1>5. CASE UNCHANGED vars
  <2>1. UNCHANGED <<assessment, pc, profiler>>
    BY <1>5 DEF vars, files, runners, processes
  <2>2. Running' = Running
    BY <2>1, RunningKept
  <2> QED BY <2>1, <2>2 DEF AInv, Unstarted, Unseen
<1> QED BY <1>1, <1>2, <1>3, <1>4, <1>5 DEF Next

LEMMA ContractInit ==
    ASSUME Init
    PROVE  AInv /\ Contract!Init
<1>1. Unstarted /\ pc[D0] = "idle" /\ assessment = "none"
  BY DEF Init, Unstarted, Invocations
<1>2. Running = {}
  BY DEF Init, Running, Invocations
<1>3. Cardinality(Running) = 0
  BY <1>2, FS_EmptySet
<1> QED BY <1>1, <1>2, <1>3 DEF AInv, Unstarted, Contract!Init

LEMMA ContractStep ==
    ASSUME DInv, AInv, [Next]_vars
    PROVE  [Contract!Next]_(Contract!contractVars)
<1>1. Unseen \/ Asking \/ Answering \/ Using
  BY StepKinds
<1>2. CASE Unseen
  BY <1>2 DEF Unseen, Unstarted, Contract!contractVars
<1>3. CASE Asking
  <2>1. Contract!Ask(D0)
    BY <1>3 DEF Asking, AInv, Unstarted, Contract!Ask
  <2> QED BY <2>1 DEF Contract!Next
<1>4. CASE Answering
  <2>1. Contract!Answer(assessment' = "ready")
    BY <1>4 DEF Answering, Unstarted, Contract!Answer
  <2>2. (assessment' = "ready") \in BOOLEAN
    OBVIOUS
  <2> QED BY <2>1, <2>2 DEF Contract!Next
<1>5. CASE Using
  <2>1. PICK v \in FollowUps : Running = {} /\ Running' = {v}
    BY <1>5 DEF Using
  <2>2. Cardinality(Running) = 0 /\ Cardinality(Running)' = 1
    BY <2>1, FS_EmptySet, FS_Singleton
  <2>3. Contract!Use
    BY <1>5, <2>1, <2>2 DEF Using, Unstarted, Contract!Use
  <2> QED BY <2>3 DEF Contract!Next
<1> QED BY <1>1, <1>2, <1>3, <1>4, <1>5

(* The runner implements the one-shot contract (run_diagnostic.py, the        *)
(* reservation): a D0 is assessed once, and at most one follow-up runs on it, *)
(* after a good assessment.                                                   *)
THEOREM FollowUpIsOneShot == Spec => OneFollowUpPerD0
<1>1. Spec => []AInv
  <2>1. DInv /\ AInv /\ [Next]_vars => AInv'
    BY StepKinds
  <2> QED BY <2>1, ContractInit, Invariance, PTL DEF Spec
<1>2. Contract!Init /\ [][Contract!Next]_(Contract!contractVars) => OneFollowUpPerD0
  BY DEF OneFollowUpPerD0, Contract!Spec
<1> QED BY <1>1, <1>2, ContractInit, ContractStep, Invariance, PTL DEF Spec
=============================================================================
