------------------------------ MODULE PairedBatch ------------------------------
(***************************************************************************)
(* The paired batch: run_paired.py execute() with the ledger contract of   *)
(* pair_contract.py and the process-group handling of run_matrix.py.       *)
(*                                                                         *)
(* Several invocations of "execute" may be started on one plan, at once or *)
(* after a crash.  Each keeps its own copy of the ledger; they share the   *)
(* files of the batch directory and the worker processes they spawn.  A    *)
(* spawned group lives on its own: it opens its journals, may issue its    *)
(* one PREEMPT (module GroupControl), hang, fail, and survive its spawner. *)
(* write_json replaces the file atomically, so a ledger is written in one  *)
(* step.  SIGTERM is an InterruptedError raised at any point; that class   *)
(* is an OSError, and code that catches OSError catches it.                *)
(***************************************************************************)
EXTENDS Integers, Sequences, FiniteSets

CONSTANTS
    Plan,           \* the conditions of the runs, in the order of the schedule
    MaxAttempts,    \* MAX_ATTEMPTS
    Executors,      \* the invocations of execute()
    MaxInterrupts   \* bound: signals an executor receives

ASSUME BatchAssumption ==
    /\ Plan \in Seq({"control", "treatment"})
    /\ MaxAttempts \in Nat
    /\ MaxInterrupts \in Nat

Runs == DOMAIN Plan
Owners == {"bg", "int"}

VARIABLES
    marker,      \* execution_started.json exists
    ledger,      \* attempts.json
    dirs,        \* run directories that exist
    pc,          \* where each executor is
    mem,         \* its copy of the ledger
    current,     \* its current_record, 0 for None
    clean,       \* run_process_group reported returncode 0 and no action taken
    interrupts,  \* signals it received (bound)
    leader,      \* per run: the int_worker process, leader of its group
    bg,          \* per run: the bg_worker process lives
    journal,     \* per run: the control journals on disk
    actual,      \* history: PREEMPT requests each run really sent
    spawned      \* history: the runs in the order they were spawned

disk == <<marker, ledger, dirs>>
executors == <<pc, mem, current, clean, interrupts>>
groups == <<leader, bg, journal, actual>>
vars == <<disk, executors, groups, spawned>>

Record == [state : {"RESERVED", "COMPLETE", "STOPPED"},
           known : BOOLEAN,          \* preempt_attempts is not None
           attempts : 0 .. 1]

EmptyLedger ==
    [started |-> FALSE, slots |-> 0, runs |-> <<>>, stopped |-> FALSE, completed |-> FALSE]

Init ==
    /\ marker = FALSE /\ ledger = EmptyLedger /\ dirs = {}
    /\ pc = [e \in Executors |-> "idle"]
    /\ mem = [e \in Executors |-> EmptyLedger]
    /\ current = [e \in Executors |-> 0]
    /\ clean = [e \in Executors |-> TRUE]
    /\ interrupts = [e \in Executors |-> 0]
    /\ leader = [i \in Runs |-> "none"]
    /\ bg = [i \in Runs |-> FALSE]
    /\ journal = [i \in Runs |-> [owners |-> {}, preempt |-> "none"]]
    /\ actual = [i \in Runs |-> 0]
    /\ spawned = <<>>

Goto(e, where) == pc' = [pc EXCEPT ![e] = where]

-----------------------------------------------------------------------------
(* Admission: read the ledger, create the exclusive marker, write that the   *)
(* batch started.                                                            *)
Load(e) ==
    /\ pc[e] = "idle"
    /\ ~ledger.started /\ ledger.runs = <<>>
    /\ mem' = [mem EXCEPT ![e] = ledger]
    /\ Goto(e, "loaded")
    /\ UNCHANGED <<disk, current, clean, interrupts, groups, spawned>>

LoadRefused(e) ==
    /\ pc[e] = "idle"
    /\ ledger.started \/ ledger.runs # <<>>
    /\ Goto(e, "ended")
    /\ UNCHANGED <<disk, mem, current, clean, interrupts, groups, spawned>>

\* Variant: open(..., 'w') instead of 'x'.
MarkAlways(e) ==
    /\ pc[e] = "loaded"
    /\ marker' = TRUE
    /\ Goto(e, "marked")
    /\ UNCHANGED <<ledger, dirs, mem, current, clean, interrupts, groups, spawned>>

Mark(e) ==
    /\ pc[e] = "loaded"
    /\ ~marker
    /\ marker' = TRUE
    /\ Goto(e, "marked")
    /\ UNCHANGED <<ledger, dirs, mem, current, clean, interrupts, groups, spawned>>

MarkRefused(e) ==
    /\ pc[e] = "loaded"
    /\ marker
    /\ Goto(e, "ended")
    /\ UNCHANGED <<disk, mem, current, clean, interrupts, groups, spawned>>

Begin(e) ==
    /\ pc[e] = "marked"
    /\ mem' = [mem EXCEPT ![e].started = TRUE]
    /\ ledger' = mem'[e]
    /\ Goto(e, "preflight")
    /\ UNCHANGED <<marker, dirs, current, clean, interrupts, groups, spawned>>

-----------------------------------------------------------------------------
(* The body of the try: one turn of the loop per run.  The next run is the   *)
(* one after those on record, as reserve() insists.                          *)
NextRun(e) == Len(mem[e].runs) + 1

Preflight(e) ==
    /\ pc[e] = "preflight"
    /\ Goto(e, "check")
    /\ UNCHANGED <<disk, mem, current, clean, interrupts, groups, spawned>>

CheckRun(e) ==
    /\ pc[e] = "check"
    /\ NextRun(e) \in Runs
    /\ NextRun(e) \notin dirs
    /\ dirs' = dirs \cup {NextRun(e)}
    /\ current' = [current EXCEPT ![e] = 0]
    /\ Goto(e, "reserve")
    /\ UNCHANGED <<marker, ledger, mem, clean, interrupts, groups, spawned>>

AllRunsDone(e) ==
    /\ pc[e] = "check"
    /\ NextRun(e) \notin Runs
    /\ mem' = [mem EXCEPT ![e].completed = TRUE]
    /\ Goto(e, "finally")
    /\ UNCHANGED <<disk, current, clean, interrupts, groups, spawned>>

SlotsAfter(e) ==
    IF Plan[NextRun(e)] = "treatment" THEN mem[e].slots + 1 ELSE mem[e].slots

MayReserve(e) ==
    /\ ~mem[e].stopped
    /\ NextRun(e) \in Runs
    /\ mem[e].runs # <<>> => mem[e].runs[Len(mem[e].runs)].state = "COMPLETE"
    /\ SlotsAfter(e) <= MaxAttempts

Reservation(e) ==
    [state |-> "RESERVED", known |-> Plan[NextRun(e)] = "control", attempts |-> 0]

Reserve(e) ==
    /\ pc[e] = "reserve"
    /\ MayReserve(e)
    /\ mem' = [mem EXCEPT ![e].slots = SlotsAfter(e),
                          ![e].runs = Append(@, Reservation(e))]
    /\ current' = [current EXCEPT ![e] = NextRun(e)]
    /\ Goto(e, "persist")
    /\ UNCHANGED <<disk, clean, interrupts, groups, spawned>>

\* Variant: the reservation stays in memory until the outcome is known.
PersistLater(e) ==
    /\ pc[e] = "persist"
    /\ Goto(e, "spawn")
    /\ UNCHANGED <<disk, mem, current, clean, interrupts, groups, spawned>>

Persist(e) ==
    /\ pc[e] = "persist"
    /\ ledger' = mem[e]
    /\ Goto(e, "spawn")
    /\ UNCHANGED <<marker, dirs, mem, current, clean, interrupts, groups, spawned>>

-----------------------------------------------------------------------------
(* run_process_group.                                                        *)
GroupAlive(i) == leader[i] = "alive" \/ bg[i]

StartGroup(i) ==
    /\ leader' = [leader EXCEPT ![i] = "alive"]
    /\ bg' = [bg EXCEPT ![i] = TRUE]
    /\ spawned' = Append(spawned, i)
    /\ UNCHANGED <<journal, actual>>

Spawn(e) ==
    /\ pc[e] = "spawn"
    /\ StartGroup(current[e])
    /\ clean' = [clean EXCEPT ![e] = TRUE]
    /\ Goto(e, "wait")
    /\ UNCHANGED <<disk, mem, current, interrupts>>

SpawnFails(e) ==
    /\ pc[e] = "spawn"
    /\ clean' = [clean EXCEPT ![e] = FALSE]
    /\ Goto(e, "record")
    /\ UNCHANGED <<disk, mem, current, interrupts, groups, spawned>>

LeaderExited(e) ==
    /\ pc[e] = "wait"
    /\ leader[current[e]] # "alive"
    /\ clean' = [clean EXCEPT ![e] = leader[current[e]] = "ok"]
    /\ Goto(e, "group")
    /\ UNCHANGED <<disk, mem, current, interrupts, groups, spawned>>

\* Variant: wait() without its timeout.
WaitForever(e) ==
    /\ pc[e] = "wait"
    /\ leader[current[e]] # "alive"
    /\ clean' = [clean EXCEPT ![e] = FALSE]
    /\ Goto(e, "grace")
    /\ UNCHANGED <<disk, mem, current, interrupts, groups, spawned>>

\* The time-out, and the SIGTERM to the group that follows it.
WaitTimeout(e) ==
    /\ pc[e] = "wait"
    /\ clean' = [clean EXCEPT ![e] = FALSE]
    /\ Goto(e, "grace")
    /\ UNCHANGED <<disk, mem, current, interrupts, groups, spawned>>

GraceOver(e) ==
    /\ pc[e] = "grace"
    /\ Goto(e, "group")
    /\ UNCHANGED <<disk, mem, current, clean, interrupts, groups, spawned>>

NoDescendants(e) ==
    /\ pc[e] = "group"
    /\ ~GroupAlive(current[e])
    /\ Goto(e, "record")
    /\ UNCHANGED <<disk, mem, current, clean, interrupts, groups, spawned>>

DescendantsRemain(e) ==
    /\ pc[e] = "group"
    /\ GroupAlive(current[e])
    /\ clean' = [clean EXCEPT ![e] = FALSE]
    /\ Goto(e, "term")
    /\ UNCHANGED <<disk, mem, current, interrupts, groups, spawned>>

\* What is left of the group after the grace period is killed.
KillGroup(e) ==
    /\ pc[e] = "term"
    /\ leader' = [leader EXCEPT ![current[e]] = IF @ = "alive" THEN "failed" ELSE @]
    /\ bg' = [bg EXCEPT ![current[e]] = FALSE]
    /\ Goto(e, "record")
    /\ UNCHANGED <<disk, mem, current, clean, interrupts, journal, actual, spawned>>

-----------------------------------------------------------------------------
(* The outcome of a run: recover the journals, count, write, validate.       *)
(* control_facts: how many requests the recovered journals show, and whether *)
(* they may hide one.                                                        *)
OutcomeUnknown(i) ==
    /\ Plan[i] = "treatment"
    /\ journal[i].owners # Owners \/ journal[i].preempt = "issued"

\* Variant: counts the slot as well as the attempt.
AttemptsAndSlots(i) == IF journal[i].preempt = "returned" THEN 1 + actual[i] ELSE 0

Attempts(i) == IF journal[i].preempt = "returned" THEN actual[i] ELSE 0

\* Variant: a run that failed is started again in its slot.
RecordOrRetry(e) ==
    /\ pc[e] = "record"
    /\ Goto(e, IF clean[e] THEN "validate" ELSE "spawn")
    /\ UNCHANGED <<disk, mem, current, clean, interrupts, groups, spawned>>

RecordOutcome(e) ==
    /\ pc[e] = "record"
    /\ LET i == current[e] IN
       mem' = [mem EXCEPT ![e].runs[i] =
                 [@ EXCEPT !.known = ~OutcomeUnknown(i),
                           !.attempts = IF OutcomeUnknown(i) THEN 0 ELSE Attempts(i)]]
    /\ ledger' = mem'[e]
    /\ Goto(e, "validate")
    /\ UNCHANGED <<marker, dirs, current, clean, interrupts, groups, spawned>>

\* Variant: the exit status of the group is not looked at.
ValidateAnyExit(e) ==
    /\ pc[e] = "validate"
    /\ mem' = [mem EXCEPT ![e].runs[current[e]].state = "COMPLETE"]
    /\ ledger' = mem'[e]
    /\ Goto(e, "check")
    /\ UNCHANGED <<marker, dirs, current, clean, interrupts, groups, spawned>>

Validate(e) ==
    /\ pc[e] = "validate"
    /\ clean[e]
    /\ mem[e].runs[current[e]].known
    /\ journal[current[e]].owners = Owners
    /\ mem' = [mem EXCEPT ![e].runs[current[e]].state = "COMPLETE"]
    /\ ledger' = mem'[e]
    /\ Goto(e, "check")
    /\ UNCHANGED <<marker, dirs, current, clean, interrupts, groups, spawned>>

-----------------------------------------------------------------------------
(* Failure, interruption, the end.                                           *)
\* Any check, read or write on the way may raise.
Fails(e) ==
    /\ pc[e] \in {"preflight", "check", "reserve", "persist", "spawn", "record", "validate"}
    /\ Goto(e, "except")
    /\ UNCHANGED <<disk, mem, current, clean, interrupts, groups, spawned>>

StopRecord(e) ==
    [mem[e] EXCEPT
        !.stopped = TRUE,
        !.runs = [i \in DOMAIN @ |->
                    IF i = current[e] /\ @[i].state # "COMPLETE"
                    THEN [@[i] EXCEPT !.state = "STOPPED"] ELSE @[i]]]

Except(e) ==
    /\ pc[e] = "except"
    /\ mem' = [mem EXCEPT ![e] = StopRecord(e)]
    /\ ledger' = mem'[e]
    /\ Goto(e, "finally")
    /\ UNCHANGED <<marker, dirs, current, clean, interrupts, groups, spawned>>

Finally(e) ==
    /\ pc[e] = "finally"
    /\ ledger' = mem[e]
    /\ Goto(e, "ended")
    /\ UNCHANGED <<marker, dirs, mem, current, clean, interrupts, groups, spawned>>

InTry == {"preflight", "check", "reserve", "persist", "spawn", "wait", "grace",
          "group", "term", "record", "validate"}

Signalled(e) ==
    /\ interrupts[e] < MaxInterrupts
    /\ interrupts' = [interrupts EXCEPT ![e] = @ + 1]

\* The exception leaves the try; one in the handler or in finally cuts it short.
Interrupt(e) ==
    /\ Signalled(e)
    /\ \/ pc[e] \in InTry /\ Goto(e, "except")
       \/ pc[e] = "except" /\ Goto(e, "finally")
       \/ pc[e] = "finally" /\ Goto(e, "ended")
    /\ UNCHANGED <<disk, mem, current, clean, groups, spawned>>

\* Inside reserve(): the slot is counted and the record not yet appended, or it is
\* appended and not yet current_record: the handler will leave it RESERVED.
InterruptReserve(e) ==
    /\ Signalled(e)
    /\ pc[e] = "reserve" /\ MayReserve(e)
    /\ \/ mem' = [mem EXCEPT ![e].slots = SlotsAfter(e)]
       \/ mem' = [mem EXCEPT ![e].slots = SlotsAfter(e),
                             ![e].runs = Append(@, Reservation(e))]
    /\ Goto(e, "except")
    /\ UNCHANGED <<disk, current, clean, groups, spawned>>

\* command() in preflight.py catches OSError: collect() goes on.
InterruptProbe(e) ==
    /\ Signalled(e)
    /\ pc[e] = "preflight"
    /\ UNCHANGED <<disk, pc, mem, current, clean, groups, spawned>>

\* Popen has forked; the OSError handler around it takes the run for not started.
InterruptPopen(e) ==
    /\ Signalled(e)
    /\ pc[e] = "spawn"
    /\ StartGroup(current[e])
    /\ clean' = [clean EXCEPT ![e] = FALSE]
    /\ Goto(e, "record")
    /\ UNCHANGED <<disk, mem, current>>

\* process.wait() is interrupted: SIGTERM to the group, as after a time-out.
InterruptWait(e) ==
    /\ Signalled(e)
    /\ pc[e] = "wait"
    /\ clean' = [clean EXCEPT ![e] = FALSE]
    /\ Goto(e, "grace")
    /\ UNCHANGED <<disk, mem, current, groups, spawned>>

Finished == {"ended", "crashed"}

Crash(e) ==
    /\ pc[e] \notin Finished \cup {"idle"}
    /\ Goto(e, "crashed")
    /\ UNCHANGED <<disk, mem, current, clean, interrupts, groups, spawned>>

-----------------------------------------------------------------------------
(* The worker group of run i.  BG opens its journal before INT does; only BG *)
(* issues the request, after both, and publishes its slot first.             *)
OpenJournal(i, owner) ==
    /\ IF owner = "bg" THEN bg[i] ELSE leader[i] = "alive" /\ "bg" \in journal[i].owners
    /\ owner \notin journal[i].owners
    /\ journal' = [journal EXCEPT ![i].owners = @ \cup {owner}]
    /\ UNCHANGED <<disk, executors, leader, bg, actual, spawned>>

PublishPreempt(i) ==
    /\ bg[i] /\ Plan[i] = "treatment"
    /\ journal[i].owners = Owners /\ journal[i].preempt = "none"
    /\ journal' = [journal EXCEPT ![i].preempt = "issued"]
    /\ UNCHANGED <<disk, executors, leader, bg, actual, spawned>>

SendPreempt(i) ==
    /\ bg[i] /\ journal[i].preempt = "issued" /\ actual[i] = 0
    /\ actual' = [actual EXCEPT ![i] = 1]
    /\ UNCHANGED <<disk, executors, leader, bg, journal, spawned>>

\* The request returned, or was turned down before it was sent.
CompletePreempt(i) ==
    /\ bg[i] /\ journal[i].preempt = "issued"
    /\ journal' = [journal EXCEPT ![i].preempt = "returned"]
    /\ UNCHANGED <<disk, executors, leader, bg, actual, spawned>>

BgExits(i) ==
    /\ bg[i]
    /\ bg' = [bg EXCEPT ![i] = FALSE]
    /\ UNCHANGED <<disk, executors, leader, journal, actual, spawned>>

\* INT reports success only after it has reaped BG; it fails or dies at any time.
IntExits(i) ==
    /\ leader[i] = "alive"
    /\ \/ leader' = [leader EXCEPT ![i] = "failed"]
       \/ /\ ~bg[i] /\ journal[i].owners = Owners /\ journal[i].preempt # "issued"
          /\ leader' = [leader EXCEPT ![i] = "ok"]
    /\ UNCHANGED <<disk, executors, bg, journal, actual, spawned>>

WorkerStep(i) ==
    \/ \E owner \in Owners : OpenJournal(i, owner)
    \/ PublishPreempt(i) \/ SendPreempt(i) \/ CompletePreempt(i)
    \/ BgExits(i) \/ IntExits(i)

ExecutorStep(e) ==
    \/ Load(e) \/ LoadRefused(e) \/ Mark(e) \/ MarkRefused(e) \/ Begin(e)
    \/ Preflight(e) \/ CheckRun(e) \/ AllRunsDone(e) \/ Reserve(e) \/ Persist(e)
    \/ Spawn(e) \/ SpawnFails(e) \/ LeaderExited(e) \/ WaitTimeout(e) \/ GraceOver(e)
    \/ NoDescendants(e) \/ DescendantsRemain(e) \/ KillGroup(e)
    \/ RecordOutcome(e) \/ Validate(e) \/ Fails(e) \/ Except(e) \/ Finally(e)

SignalStep(e) ==
    \/ Interrupt(e) \/ InterruptReserve(e) \/ InterruptProbe(e) \/ InterruptPopen(e)
    \/ InterruptWait(e) \/ Crash(e)

Next ==
    \/ \E e \in Executors : ExecutorStep(e) \/ SignalStep(e)
    \/ \E i \in Runs : WorkerStep(i)

Spec == Init /\ [][Next]_vars

\* Every wait of an executor has a time-out, so it always gets on; nothing is
\* assumed of the workers, which may hang, nor of signals and crashes.
FairSpec == Spec /\ \A e \in Executors : WF_vars(ExecutorStep(e))

-----------------------------------------------------------------------------
Ledgers == [started : BOOLEAN, slots : Nat, runs : Seq(Record),
            stopped : BOOLEAN, completed : BOOLEAN]

PCs == InTry \cup Finished \cup {"idle", "loaded", "marked", "except", "finally"}

\* The types of the batch's files, of the executors and of the groups; a ledger
\* has at most one record per planned run and an attempt count per run of at most one.
BatchTypeOK ==
    /\ marker \in BOOLEAN /\ dirs \subseteq Runs
    /\ ledger \in Ledgers /\ Len(ledger.runs) <= Len(Plan)
    /\ pc \in [Executors -> PCs]
    /\ mem \in [Executors -> Ledgers]
    /\ \A e \in Executors : Len(mem[e].runs) <= Len(Plan)
    /\ current \in [Executors -> 0 .. Len(Plan)]
    /\ clean \in [Executors -> BOOLEAN]
    /\ interrupts \in [Executors -> 0 .. MaxInterrupts]
    /\ leader \in [Runs -> {"none", "alive", "ok", "failed"}]
    /\ bg \in [Runs -> BOOLEAN]
    /\ journal \in [Runs -> [owners : SUBSET Owners, preempt : {"none", "issued", "returned"}]]
    /\ actual \in [Runs -> 0 .. 1]
    /\ spawned \in Seq(Runs)

Preempted == {i \in Runs : actual[i] = 1}

\* Whatever is interrupted, killed, restarted or started twice: every request a
\* worker really sent has a slot in the ledger on disk, and the slots never exceed
\* the budget (measurement.md: reservation before spawn, at most ten slots).
BudgetHeld ==
    /\ Preempted \subseteq DOMAIN ledger.runs
    /\ Cardinality(Preempted) <= ledger.slots
    /\ ledger.slots <= MaxAttempts

\* Runs never overlap on the GPU: at most one worker group is alive, whichever
\* executor spawned it (run_process_group empties a group before it returns).
OneGroupAtATime ==
    \A i, j \in Runs : GroupAlive(i) /\ GroupAlive(j) => i = j

\* A run the ledger calls COMPLETE has left no process, and its recorded number
\* of attempts is the number of requests it sent.
CompleteIsExact ==
    \A i \in DOMAIN ledger.runs :
        ledger.runs[i].state = "COMPLETE" =>
            /\ ~GroupAlive(i)
            /\ ledger.runs[i].known /\ ledger.runs[i].attempts = actual[i]

\* The ledger is true of the workers: no request without a slot, no slot beyond the
\* budget, no COMPLETE run with a process left or a wrong number of attempts.
LedgerTrue == BudgetHeld /\ CompleteIsExact

\* The ledger on disk never forgets: no write takes back a slot or a record, or
\* reopens a run or a batch that ended ("never recycle a slot"; no resumption).
LedgerNeverForgets ==
    [][ /\ ledger.started => ledger'.started
        /\ ledger.stopped => ledger'.stopped
        /\ ledger.slots <= ledger'.slots
        /\ Len(ledger.runs) <= Len(ledger'.runs)
        /\ \A i \in DOMAIN ledger.runs :
              ledger.runs[i].state # "RESERVED" =>
                  ledger'.runs[i].state = ledger.runs[i].state ]_vars

\* A spawn is licensed by the ledger on disk at that moment: its run is the last
\* record, reserved, the batch is not stopped, all earlier runs are COMPLETE, and
\* no run is ever spawned twice ("no retries or resumed batches").
SpawnLicensed ==
    [][ spawned' # spawned =>
          LET n == Len(ledger.runs) IN
          /\ spawned' = Append(spawned, n) /\ spawned = [k \in 1 .. n - 1 |-> k]
          /\ ~ledger.stopped /\ ledger.runs[n].state = "RESERVED"
          /\ \A i \in 1 .. n - 1 : ledger.runs[i].state = "COMPLETE" ]_vars

\* An executor that started comes to its end although workers may hang for ever:
\* every wait in run_process_group has a time-out.
EveryExecutorEnds ==
    \A e \in Executors : pc[e] # "idle" ~> pc[e] \in Finished

\* What run_paired.py:162 says of an interrupt: "preserve reservation and stop".
\* No executor that was interrupted spawns another run.
InterruptStops ==
    [][ \A e \in Executors :
          interrupts[e] > 0 /\ pc[e] = "spawn" => spawned' = spawned ]_vars

\* measurement.md:111: the bounded treatment of the process tree covers an
\* interrupt of the runner.  No worker survives an executor that reached its end.
GroupContained ==
    \A e \in Executors :
        pc[e] = "ended" /\ current[e] # 0 => ~GroupAlive(current[e])
=============================================================================
