------------------------------ MODULE DiagnosticRun ------------------------------
(***************************************************************************)
(* The diagnostic runner, run_diagnostic.py: a D0 capture that sends no    *)
(* request, its analysis, and D1 captures that name that D0 as evidence    *)
(* and may send one PREEMPT.  Several D1 invocations may be started on the *)
(* same D0.  They share its directory; each has its own output directory,  *)
(* its profiler and its pair of owners.                                    *)
(*                                                                         *)
(* The profiler starts the owners, perhaps in a session of their own: what *)
(* ends the process group of the profiler may miss them, and they survive  *)
(* a runner that dies.  SIGTERM is not handled here, so it is a crash; an  *)
(* interrupt is a KeyboardInterrupt, which no handler of main() catches    *)
(* but "finally" sees.  write() truncates the file before it fills it.     *)
(* The walk over /proc is one step: that an owner is born and its parent   *)
(* lost while the list of processes is read is left out.                   *)
(***************************************************************************)
EXTENDS Integers, FiniteSets

CONSTANTS
    D0,             \* the invocation with --condition D0
    FollowUps,      \* the invocations with --condition D1 and --d0 naming it
    NoTarget,       \* for the contract: no capture yet
    MaxInterrupts   \* bound: interrupts the invocations receive together

ASSUME DiagnosticAssumption ==
    /\ D0 \notin FollowUps
    /\ IsFiniteSet(FollowUps)
    /\ NoTarget # D0
    /\ MaxInterrupts \in Nat

Invocations == {D0} \cup FollowUps
Owners == {"bg", "int"}

VARIABLES
    assessment,  \* D0/analysis/assessment.json: "none", "ready", "limited"
    reserved,    \* D0/d1_reserved.json exists
    execution,   \* per invocation: execution.json, "none", "ok" or "failed"
    exported,    \* per invocation: the report was exported
    result,      \* per invocation: result.json
    pc,          \* where each invocation is
    mem,         \* its result record
    outcome,     \* its execution record
    interrupts,  \* interrupts delivered (bound)
    profiler,    \* per invocation: the nsys process
    owner,       \* per invocation and role: the worker process
    journal,     \* per invocation: the control journals on disk
    valid,       \* per invocation: validate_run() would accept the worker's files
    sent,        \* history: PREEMPT requests really sent
    found        \* per invocation: the owners the clean-up found and told to end

files == <<assessment, reserved, execution, exported, result>>
runners == <<pc, mem, outcome, interrupts>>
processes == <<profiler, owner, journal, valid, sent>>
vars == <<files, runners, processes, found>>

Record == [state : {"PREPARING", "COLLECTING", "STOPPED", "FINISHED", "FAILED"},
           attempts : 0 .. 1, unknown : BOOLEAN, escaped : BOOLEAN]

Fresh == [state |-> "PREPARING", attempts |-> 0, unknown |-> FALSE, escaped |-> FALSE]

Absent == [state |-> "ABSENT"]
Torn == [state |-> "TORN"]

Alive(v) == {r \in Owners : owner[v][r] = "alive"}

Init ==
    /\ assessment = "none" /\ reserved = FALSE
    /\ execution = [v \in Invocations |-> "none"]
    /\ exported = [v \in Invocations |-> FALSE]
    /\ result = [v \in Invocations |-> Absent]
    /\ pc = [v \in Invocations |-> "idle"]
    /\ mem = [v \in Invocations |-> Fresh]
    /\ outcome = [v \in Invocations |-> "none"]
    /\ interrupts = 0
    /\ profiler = [v \in Invocations |-> "none"]
    /\ owner = [v \in Invocations |-> [r \in Owners |-> "none"]]
    /\ journal = [v \in Invocations |-> [owners |-> {}, preempt |-> "none"]]
    /\ valid = [v \in Invocations |-> FALSE]
    /\ sent = [v \in Invocations |-> 0]
    /\ found = [v \in Invocations |-> {}]

Goto(v, where) == pc' = [pc EXCEPT ![v] = where]

-----------------------------------------------------------------------------
(* Admission.  A D1 reads the evidence of its D0, then takes the reservation; *)
(* whatever goes wrong from there on, the reservation stays.                  *)
StartD0(v) ==
    /\ v = D0 /\ pc[v] = "idle"
    /\ Goto(v, "admitted")
    /\ UNCHANGED <<files, mem, outcome, interrupts, processes, found>>

\* Variant: only the files of the worker are looked at.
CheckWorkerOnly(v) ==
    /\ v \in FollowUps /\ pc[v] = "idle"
    /\ valid[D0]
    /\ Goto(v, "licensed")
    /\ UNCHANGED <<files, mem, outcome, interrupts, processes, found>>

CheckD0(v) ==
    /\ v \in FollowUps /\ pc[v] = "idle"
    /\ assessment = "ready"
    /\ result[D0] \in Record /\ ~ result[D0].escaped
    /\ valid[D0]
    /\ Goto(v, "licensed")
    /\ UNCHANGED <<files, mem, outcome, interrupts, processes, found>>

\* No authorization, no evidence, another build or device, a D0 of another kind.
Refused(v) ==
    /\ pc[v] = "idle"
    /\ Goto(v, "ended")
    /\ UNCHANGED <<files, mem, outcome, interrupts, processes, found>>

\* Variant: open('w') instead of open('x').
ReserveShared(v) ==
    /\ pc[v] = "licensed"
    /\ reserved' = TRUE
    /\ Goto(v, "admitted")
    /\ UNCHANGED <<assessment, execution, exported, result, mem, outcome, interrupts,
                   processes, found>>

Reserve(v) ==
    /\ pc[v] = "licensed"
    /\ ~ reserved
    /\ reserved' = TRUE
    /\ Goto(v, "admitted")
    /\ UNCHANGED <<assessment, execution, exported, result, mem, outcome, interrupts,
                   processes, found>>

AlreadyReserved(v) ==
    /\ pc[v] = "licensed"
    /\ reserved
    /\ Goto(v, "ended")
    /\ UNCHANGED <<files, mem, outcome, interrupts, processes, found>>

-----------------------------------------------------------------------------
(* The output directory, the invocation record, the readiness of the device.  *)
\* The directory is new, the environment and the build are as reviewed.
Prepare(v) ==
    /\ pc[v] = "admitted"
    /\ Goto(v, "preparing")
    /\ UNCHANGED <<files, mem, outcome, interrupts, processes, found>>

PrepareFails(v) ==
    /\ pc[v] = "admitted"
    /\ Goto(v, "ended")
    /\ UNCHANGED <<files, mem, outcome, interrupts, processes, found>>

\* Variant: the attempts stay 0 until the journals are read.
ReadyWithZero(v) ==
    /\ pc[v] = "preparing"
    /\ mem' = [mem EXCEPT ![v].state = "COLLECTING"]
    /\ Goto(v, "announce")
    /\ UNCHANGED <<files, outcome, interrupts, processes, found>>

Ready(v) ==
    /\ pc[v] = "preparing"
    /\ mem' = [mem EXCEPT ![v].state = "COLLECTING", ![v].unknown = v \in FollowUps]
    /\ Goto(v, "announce")
    /\ UNCHANGED <<files, outcome, interrupts, processes, found>>

Announce(v) ==
    /\ pc[v] = "announce"
    /\ result' = [result EXCEPT ![v] = mem[v]]
    /\ Goto(v, "launch")
    /\ UNCHANGED <<assessment, reserved, execution, exported, mem, outcome, interrupts,
                   processes, found>>

-----------------------------------------------------------------------------
(* The collection: run_process_group() around the profiler.                   *)
Launch(v) ==
    /\ pc[v] = "launch"
    /\ profiler' = [profiler EXCEPT ![v] = "running"]
    /\ Goto(v, "wait")
    /\ UNCHANGED <<files, mem, outcome, interrupts, owner, journal, valid, sent, found>>

LaunchFails(v) ==
    /\ pc[v] = "launch"
    /\ outcome' = [outcome EXCEPT ![v] = "failed"]
    /\ Goto(v, "scan")
    /\ UNCHANGED <<files, mem, interrupts, processes, found>>

\* A SIGKILL to the owners in roles.
Killed(v, roles) == [owner EXCEPT ![v] = [r \in Owners |-> IF r \in roles THEN "gone" ELSE @[r]]]

\* The profiler has exited and nothing is left of its process group.
Collected(v) ==
    /\ pc[v] = "wait"
    /\ profiler[v] \in {"exited", "crashed"}
    /\ outcome' = [outcome EXCEPT ![v] = IF profiler[v] = "exited" THEN "ok" ELSE "failed"]
    /\ Goto(v, "scan")
    /\ UNCHANGED <<files, mem, interrupts, processes, found>>

\* A time-out, or owners left in the group: what is in the group is killed.
GroupKilled(v) ==
    /\ profiler' = [profiler EXCEPT ![v] = IF @ = "running" THEN "crashed" ELSE @]
    /\ \E roles \in SUBSET Alive(v) : owner' = Killed(v, roles)
    /\ outcome' = [outcome EXCEPT ![v] = "failed"]
    /\ Goto(v, "scan")
    /\ UNCHANGED <<files, mem, journal, valid, sent, found>>

\* Variant: wait() without its time-out.
CollectionWaits(v) ==
    /\ pc[v] = "wait"
    /\ profiler[v] # "running"
    /\ GroupKilled(v)
    /\ UNCHANGED interrupts

CollectionCut(v) ==
    /\ pc[v] = "wait"
    /\ GroupKilled(v)
    /\ UNCHANGED interrupts

-----------------------------------------------------------------------------
(* cleanup_escaped_owners(): what still belongs to this run is told to end,   *)
(* and killed when the grace period is over.                                  *)
NoSurvivors(v) ==
    /\ pc[v] = "scan"
    /\ Alive(v) = {}
    /\ Goto(v, "save")
    /\ UNCHANGED <<files, mem, outcome, interrupts, processes, found>>

Survivors(v) ==
    /\ pc[v] = "scan"
    /\ Alive(v) # {}
    /\ found' = [found EXCEPT ![v] = Alive(v)]
    /\ Goto(v, "grace")
    /\ UNCHANGED <<files, mem, outcome, interrupts, processes>>

\* The pidfds found are killed; an owner started meanwhile is not among them.
KillSurvivors(v) ==
    /\ pc[v] = "grace"
    /\ owner' = Killed(v, found[v])
    /\ mem' = [mem EXCEPT ![v].escaped = TRUE]
    /\ outcome' = [outcome EXCEPT ![v] = "failed"]
    /\ Goto(v, "save")
    /\ UNCHANGED <<files, interrupts, profiler, journal, valid, sent, found>>

SaveExecution(v) ==
    /\ pc[v] = "save"
    /\ execution' = [execution EXCEPT ![v] = outcome[v]]
    /\ Goto(v, "count")
    /\ UNCHANGED <<assessment, reserved, exported, result, mem, outcome, interrupts,
                   processes, found>>

-----------------------------------------------------------------------------
(* The journals are recovered and counted, the report exported, the result    *)
(* written.                                                                   *)
\* control_facts(): a request in flight, or a journal that is missing, may hide one.
MayHideOne(v) ==
    \/ journal[v].preempt = "issued"
    \/ v \in FollowUps /\ journal[v].owners # Owners

\* Variant: a slot that was published counts as well.
CountSlots(v) ==
    /\ pc[v] = "count"
    /\ mem' = [mem EXCEPT
                 ![v].attempts = sent[v] + (IF journal[v].preempt = "none" THEN 0 ELSE 1),
                 ![v].unknown = MayHideOne(v)]
    /\ Goto(v, "export")
    /\ UNCHANGED <<files, outcome, interrupts, processes, found>>

Count(v) ==
    /\ pc[v] = "count"
    /\ mem' = [mem EXCEPT
                 ![v].attempts = IF journal[v].preempt = "returned" THEN sent[v] ELSE 0,
                 ![v].unknown = MayHideOne(v)]
    /\ Goto(v, "export")
    /\ UNCHANGED <<files, outcome, interrupts, processes, found>>

Export(v) ==
    /\ pc[v] = "export"
    /\ \E there \in BOOLEAN : exported' = [exported EXCEPT ![v] = there]
    /\ mem' = [mem EXCEPT ![v].state = IF outcome[v] = "ok" THEN "FINISHED" ELSE "FAILED"]
    /\ Goto(v, "finally")
    /\ UNCHANGED <<assessment, reserved, execution, result, outcome, interrupts,
                   processes, found>>

Finally(v) ==
    /\ pc[v] = "finally"
    /\ result' = [result EXCEPT ![v] = mem[v]]
    /\ Goto(v, "ended")
    /\ UNCHANGED <<assessment, reserved, execution, exported, mem, outcome, interrupts,
                   processes, found>>

-----------------------------------------------------------------------------
(* Failures, interrupts and crashes.                                          *)
InTry == {"preparing", "announce", "launch", "wait", "scan", "grace", "save", "count", "export"}

\* OSError, ValueError, KeyError.  An export that fails is no exception.
Fails(v) ==
    /\ pc[v] \in InTry \ {"wait", "grace"}
    /\ mem' = [mem EXCEPT ![v].state = "STOPPED"]
    /\ Goto(v, "finally")
    /\ UNCHANGED <<files, outcome, interrupts, processes, found>>

Interrupted ==
    /\ interrupts < MaxInterrupts
    /\ interrupts' = interrupts + 1

Interrupt(v) ==
    /\ Interrupted
    /\ \/ pc[v] \in InTry /\ Goto(v, "finally")
       \/ pc[v] \in {"licensed", "admitted", "finally"} /\ Goto(v, "ended")
    /\ UNCHANGED <<files, mem, outcome, processes, found>>

\* Popen has forked, and its caller does not know.
InterruptLaunch(v) ==
    /\ Interrupted
    /\ pc[v] = "launch"
    /\ profiler' = [profiler EXCEPT ![v] = "running"]
    /\ Goto(v, "finally")
    /\ UNCHANGED <<files, mem, outcome, owner, journal, valid, sent, found>>

\* process.wait() is interrupted: the group is ended, as after a time-out.
InterruptWait(v) ==
    /\ Interrupted
    /\ pc[v] = "wait"
    /\ GroupKilled(v)

Finished == {"ended", "crashed"}

\* The process dies, or an interrupt cuts the last write: the file may be torn.
Crash(v) ==
    /\ pc[v] \notin Finished \cup {"idle"}
    /\ \/ result' = result
       \/ pc[v] \in {"announce", "finally"} /\ result' = [result EXCEPT ![v] = Torn]
    /\ Goto(v, "crashed")
    /\ UNCHANGED <<assessment, reserved, execution, exported, mem, outcome, interrupts,
                   processes, found>>

-----------------------------------------------------------------------------
(* The profiler and the owners: external to the runner.  INT starts BG; BG    *)
(* opens its journal first; only BG of a D1 publishes and sends the request.  *)
StartInt(v) ==
    /\ profiler[v] = "running" /\ owner[v]["int"] = "none"
    /\ owner' = [owner EXCEPT ![v]["int"] = "alive"]
    /\ UNCHANGED <<files, runners, profiler, journal, valid, sent, found>>

StartBg(v) ==
    /\ "int" \in Alive(v) /\ owner[v]["bg"] = "none"
    /\ owner' = [owner EXCEPT ![v]["bg"] = "alive"]
    /\ UNCHANGED <<files, runners, profiler, journal, valid, sent, found>>

\* An INT told to end before it has a BG gives up while it waits for that BG.
ToldBeforeBg(v) == found[v] = {"int"} /\ owner[v]["bg"] = "alive"

OpenJournal(v, r) ==
    /\ r \in Alive(v) \ journal[v].owners
    /\ r = "int" => "bg" \in journal[v].owners /\ ~ ToldBeforeBg(v)
    /\ journal' = [journal EXCEPT ![v].owners = @ \cup {r}]
    /\ UNCHANGED <<files, runners, profiler, owner, valid, sent, found>>

PublishPreempt(v) ==
    /\ v \in FollowUps
    /\ "bg" \in Alive(v)
    /\ journal[v].owners = Owners /\ journal[v].preempt = "none"
    /\ journal' = [journal EXCEPT ![v].preempt = "issued"]
    /\ UNCHANGED <<files, runners, profiler, owner, valid, sent, found>>

SendPreempt(v) ==
    /\ "bg" \in Alive(v) /\ journal[v].preempt = "issued" /\ sent[v] = 0
    /\ sent' = [sent EXCEPT ![v] = 1]
    /\ UNCHANGED <<files, runners, profiler, owner, journal, valid, found>>

CompletePreempt(v) ==
    /\ "bg" \in Alive(v) /\ journal[v].preempt = "issued"
    /\ journal' = [journal EXCEPT ![v].preempt = "returned"]
    /\ UNCHANGED <<files, runners, profiler, owner, valid, sent, found>>

OwnerEnds(v, r) ==
    /\ r \in Alive(v)
    /\ owner' = [owner EXCEPT ![v][r] = "gone"]
    /\ UNCHANGED <<files, runners, profiler, journal, valid, sent, found>>

\* INT has reaped BG and leaves complete evidence behind.
IntCompletes(v) ==
    /\ "int" \in Alive(v) /\ owner[v]["bg"] = "gone"
    /\ journal[v].owners = Owners /\ journal[v].preempt # "issued"
    /\ owner' = [owner EXCEPT ![v]["int"] = "gone"]
    /\ valid' = [valid EXCEPT ![v] = TRUE]
    /\ UNCHANGED <<files, runners, profiler, journal, sent, found>>

ProfilerEnds(v) ==
    /\ profiler[v] = "running"
    /\ \E how \in {"exited", "crashed"} : profiler' = [profiler EXCEPT ![v] = how]
    /\ UNCHANGED <<files, runners, owner, journal, valid, sent, found>>

\* analyze_diagnostic.py on D0, at any time and once: its output directory is new.
Assess ==
    /\ pc[D0] \notin {"idle", "admitted"} /\ assessment = "none"
    /\ \/ assessment' = "limited"
       \/ /\ exported[D0] /\ execution[D0] = "ok" /\ valid[D0]
          /\ assessment' = "ready"
    /\ UNCHANGED <<reserved, execution, exported, result, runners, processes, found>>

RunnerStep(v) ==
    \/ StartD0(v) \/ CheckD0(v) \/ Refused(v) \/ Reserve(v) \/ AlreadyReserved(v)
    \/ Prepare(v) \/ PrepareFails(v) \/ Ready(v) \/ Announce(v)
    \/ Launch(v) \/ LaunchFails(v) \/ Collected(v) \/ CollectionCut(v)
    \/ NoSurvivors(v) \/ Survivors(v) \/ KillSurvivors(v) \/ SaveExecution(v)
    \/ Count(v) \/ Export(v) \/ Finally(v) \/ Fails(v)

FaultStep(v) == Interrupt(v) \/ InterruptLaunch(v) \/ InterruptWait(v) \/ Crash(v)

ProcessStep(v) ==
    \/ StartInt(v) \/ StartBg(v) \/ ProfilerEnds(v)
    \/ \E r \in Owners : OpenJournal(v, r) \/ OwnerEnds(v, r)
    \/ PublishPreempt(v) \/ SendPreempt(v) \/ CompletePreempt(v) \/ IntCompletes(v)

Next ==
    \/ \E v \in Invocations : RunnerStep(v) \/ FaultStep(v) \/ ProcessStep(v)
    \/ Assess

Spec == Init /\ [][Next]_vars

\* Every wait of a runner has a time-out; nothing is assumed of profiler and owners.
FairSpec == Spec /\ \A v \in Invocations : WF_vars(RunnerStep(v))

-----------------------------------------------------------------------------
PCs == InTry \cup Finished \cup {"idle", "licensed", "admitted", "finally"}

\* The types of the files, the runners and the processes.
DiagnosticTypeOK ==
    /\ assessment \in {"none", "ready", "limited"} /\ reserved \in BOOLEAN
    /\ execution \in [Invocations -> {"none", "ok", "failed"}]
    /\ exported \in [Invocations -> BOOLEAN]
    /\ result \in [Invocations -> Record \cup {Absent, Torn}]
    /\ pc \in [Invocations -> PCs]
    /\ mem \in [Invocations -> Record]
    /\ outcome \in [Invocations -> {"none", "ok", "failed"}]
    /\ interrupts \in 0 .. MaxInterrupts
    /\ profiler \in [Invocations -> {"none", "running", "exited", "crashed"}]
    /\ owner \in [Invocations -> [Owners -> {"none", "alive", "gone"}]]
    /\ journal \in [Invocations -> [owners : SUBSET Owners,
                                    preempt : {"none", "issued", "returned"}]]
    /\ valid \in [Invocations -> BOOLEAN]
    /\ sent \in [Invocations -> 0 .. 1]
    /\ found \in [Invocations -> SUBSET Owners]

\* result.json is never wrong about the number of requests, whatever cuts the runner
\* short and however long its owners live on: a number it calls known is the number
\* sent, now and later ("interruption never fabricates zero attempts").
AttemptsTold ==
    \A v \in Invocations :
        result[v] \in Record /\ ~ result[v].unknown => result[v].attempts = sent[v]

\* A capture that reports CAPTURE_FINISHED had nobody to clean up: its owners ended
\* before the profiler did and none is left.
FinishedIsClean ==
    \A v \in Invocations :
        result[v] \in Record /\ result[v].state = "FINISHED" =>
            Alive(v) = {} /\ found[v] = {} /\ execution[v] = "ok"

\* A D1 that runs was licensed by a D0 that came to its end by itself: complete
\* evidence, a good exit, nobody found alive afterwards.
LicensedByCleanD0 ==
    \A v \in FollowUps : profiler[v] # "none" =>
        valid[D0] /\ execution[D0] = "ok" /\ found[D0] = {} /\ Alive(D0) = {}

\* Never two captures on the GPU: the owners alive at any time belong to one
\* invocation, although runners race for the reservation and die over it.
OwnersOfOneInvocation ==
    \A v, w \in Invocations : Alive(v) # {} /\ Alive(w) # {} => v = w

\* What result.json says is true: a known number of requests, and FINISHED.
ResultTrue == AttemptsTold /\ FinishedIsClean

\* Captures never meet: a follow-up starts on a clean, finished D0, and the owners
\* alive belong to one invocation.
CapturesSeparate == LicensedByCleanD0 /\ OwnersOfOneInvocation

\* The one-shot contract, one level up: a D0 is assessed once, and only after a good
\* assessment a capture that may send a request runs, once ("at most one D1
\* invocation per D0, the reservation is on disk before it starts").
Running == {v \in FollowUps : profiler[v] # "none"}

Contract == INSTANCE OneShotControl WITH
    Targets <- {D0},
    phase <- CASE pc[D0] \in {"idle", "admitted"} -> "unasked"
               [] assessment = "ready" -> "verified"
               [] assessment = "limited" -> "refused"
               [] OTHER -> "asked",
    target <- IF pc[D0] \in {"idle", "admitted"} THEN NoTarget ELSE D0,
    applied <- IF Running = {} THEN NoTarget ELSE D0,
    uses <- Cardinality(Running)

OneFollowUpPerD0 == Contract!Spec

\* A runner that was admitted comes to its end although profiler and owners may hang.
EveryCaptureEnds ==
    \A v \in Invocations : pc[v] = "admitted" ~> pc[v] \in Finished
=============================================================================
