# Verification of the active-preempt control path

The repository builds a prototype that preempts one group of GPU work from the
host (`src/active-preempt`). A CUDA process cannot name its own driver objects, so
the prototype watches the ioctls the process makes, keeps a registry of the objects
they allocate, finds the one compute group in it, verifies it with one GET_INFO and
then sends at most one PREEMPT to it, leaving evidence of every step in an mmap
journal. Around it are runners that spend a budget of such requests under a ledger,
climb from smoke runs to statistics, and capture one diagnostic pair; and analyses
that say what the files mean. The danger in such code is an identity that is stale
when it is used, a request that is sent twice or on the wrong object, and evidence
that lies after a crash. That is what this project states, checks and proves.

## The system and its parts

| Part | Source (`src/active-preempt/`) | State | Operations | Modules |
|---|---|---|---|---|
| Object registry | `src/object_registry.{h,cpp}` | current nodes, retained clients, generation and topology counters, bounded history | `client`, `allocate`, `bind`, `free`, `incomplete`, `discover`/`valid`, `discover_group`/`valid_group` | ObjectRegistry, BindingSnapshot |
| Ioctl capture hook | `src/rm_control.cpp` 33-117, `src/rm_observation.cpp` | registry, descriptors of allocating clients, observations | the interposed `ioctl`, `observe`, `decode_observation`, `configure_rm` | IoctlCapture |
| Strict channel controls | `src/rm_control.cpp` 78-105, 312-360 | verified binding, drained work, async gate | `discover_owned_compute_group`, `RmControl::*`, `issue` | StrictControl |
| Profile state and gates | `src/driver_profile.cpp`, `src/rm_control.cpp` 160-187 | stage, authorization, owner, CUDA scope, evidence flags | `configure_rm`, `note_cuda_ready`, `note_group_cuda_scope`, `may_*` | GroupControl |
| Group controls | `src/group_query_internal.cpp`, `src/rm_control.cpp` 240-299 | the one query, the one PREEMPT, the observed group | `inspect_owned_tsg`, `get_group_info`, `preempt_group_wait`, `prepare_group_noop` | GroupControl, OneShotControl |
| Control journal | `src/control_events.cpp` | slots in a shared file mapping | `open`, `begin`, `complete`, `save`, `recover` | GroupControl |
| Owner recovery | `src/recovery.h` | three dirty flags | `restore` | WorkerProtocol |
| Workers and mailbox | `src/int_worker.cu`, `src/bg_worker.cu`, `src/protocol.h` | command mailbox, telemetry, child process, observer thread | `Child::command/reap/stop`, the BG command loop, the trial loop | WorkerProtocol |
| Paired batch executor | `scripts/run_paired.py`, `scripts/pair_contract.py` | plan, ledger, start marker | `execute`, `reserve`, `recount`, `run_process_group` | PairedBatch |
| Matrix runner | `scripts/run_matrix.py` | result directories, frozen iterations | `main`, `validate_smoke`, `validate_admission`, `run_process_group` | MatrixRun |
| Diagnostic runner | `scripts/run_diagnostic.py` | capture directories, the marker of the follow-up, profiler and owners | `main`, `validate_d0`, `cleanup_escaped_owners` | DiagnosticRun, OneShotControl |
| Summary of a run | `scripts/summarize.py` | none | calibration, ordering, eligible rows, quantiles | Summary, Descriptions, Analyses |
| Analysis of a batch | `scripts/analyze_pairs.py` | none | pairing, completeness, differences | PairAnalysis, Descriptions, Analyses |
| Analysis of a capture | `scripts/analyze_diagnostic.py` | none | association of switch records, readiness | DiagnosticAnalysis, Analyses |
| GPU worker, mode plan, trial record, trace, preflight, audit | `src/worker_common.cuh`, `src/preflight.cu`, `scripts/audit_profiles.py`, ... | CUDA objects, files | | outside the models |

How they interact: the hook holds one recursive lock over an observed ioctl *and*
its registry update; the controls take the same lock from their first check to the
completion of their journal slot, so within a process the only interleavings are
between whole operations, plus the death of the process at any instruction. Between
processes, the INT controller drives the BG owner through a shared mapping (command,
sequence number, acknowledgement); the batch executor and the matrix runner drive
whole runs in process groups of their own and judge them by the files they leave; the
diagnostic runner starts a profiler that starts the owners. Everything that outlives
a runner is on disk: ledgers, markers, journals.

## What is hard here

| Behaviour | Where it bites | Properties that speak of it |
|---|---|---|
| An identity goes stale between discovery and use, even by changes that cancel out | `object_registry.cpp` 119, 184 | `GroupSnapshotExact`, `StrictValidIsRediscovery`, `OwnObjectsOnly` |
| Handles are reused at another depth, with parents that were never seen | `object_registry.cpp` 60-86 | `GraphSound` |
| The capture sees only part of what happens; descriptor numbers are reused | `rm_control.cpp` 59-73 | `CompleteMirrorsDriver`, `ControlReachesItsFile`, `OneDescriptorPerClient` |
| A request is retried after a failure, a time-out or a rebinding; the environment is read three times and may differ | `group_query_internal.cpp` 41, 113; `rm_control.cpp` 240 | `RequestsLicensed`, `ImplementsContract` |
| The process dies between publication, ioctl and completion; the journal is full | `control_events.cpp` 71, 83 | `EvidenceCovers` |
| One side gives up on a command the other is still executing, then reuses the slot | `int_worker.cu` 26 | `ResultOfOwnCommand`, `ProtocolTypeOK` |
| A control fails after it took effect; a restore fails; a worker dies dirty | `recovery.h` 12, `bg_worker.cu` 94, `int_worker.cu` 192 | `EvidenceOfRestoration`, `EndsClean`, `NothingLeftAltered`, `ClaimIsConfirmed` |
| Two processes wait for each other; an observer reads what the other resets | `protocol.h` 25, `int_worker.cu` 298 | `ControllerEnds`, `EndsClean`, `ResetNeverObserved` |
| Executors crash, race or are interrupted between reservation, spawn and outcome | `run_paired.py` 154-206 | `LedgerTrue`, `LedgerNeverForgets`, `SpawnLicensed`, `InterruptStops` |
| Worker groups hang or outlive their leader or their executor | `run_matrix.py` 79-102 | `OneGroupAtATime`, `EveryExecutorEnds`, `GroupContained`, `NothingAfterFailure`, `MatrixEnds` |
| Owners escape the process group of the profiler; two follow-ups race for one D0; a capture is counted and then changes | `run_diagnostic.py` 113-137 | `OneFollowUpPerD0`, `CapturesSeparate`, `ResultTrue`, `EveryCaptureEnds` |
| Evidence of another configuration licenses a run; iterations drift between runs | `run_matrix.py` 147, 234 | `EvidenceFirst`, `SameWork` |
| Uncertain clocks, incomplete rows, small samples, a batch that is still running, a lossy export | `summarize.py` 18, 44, 76; `analyze_pairs.py` 41; `analyze_diagnostic.py` 215 | `QuantilesTrue`, `RowsTrue`, `PairsTrue`, `ReportOnlyGrows`, `CaptureTrue` |

## Modules and the code they stand for

**ObjectRegistry** is `ObjectRegistry` of `object_registry.{h,cpp}`: a function
from `(client, handle)` to the current node (generation 0 means absent) with the
token of its parent, the clients with their descriptors, the two counters and the
two revisions. Every public operation that changes state is one action: `Client`,
`Allocate`, `Bind`, `FreeObject`, `FreeClient`, `Incomplete`. `Doomed` is the set
the worklist of `erase_tree` collects, defined as the least set that is closed
under current children; so the code's loop, which keeps no visited set, equals it
only while ancestry is well-founded, which is therefore part of `GraphSound`. Left
out: the engine number (a bind is visible through the generation it replaces), the
text of `inventory()` and `object_graph_json()`, and the content of the history
beyond its length. The code ticks the topology counter in several places of one
operation; the model ticks it once, which no comparison can tell apart because the
operation runs under one lock.

**BindingSnapshot** adds the two searches (`discover`, `discover_group`) and the
snapshots kept from them, with `valid` and `valid_group`.

**IoctlCapture** is the hook as the caller of the registry, between a process and a
driver. The process has a descriptor table; the application opens and closes what is
its own. The driver has its own table of objects, allocates, frees and binds as it is
asked, and never asks the registry. An ioctl is the variable `event`: what the hook has
still to do of it while it holds the lock. Early ioctls (before `configure_rm`),
undecodable envelopes and a full observation buffer make the registry incomplete; a
"hidden" ioctl does not go through the hook at all. The assumption is that the
application closes only descriptors it opened, and none while an ioctl on it is under
way; without it no duplicate could be trusted.

**StrictControl** adds the strict path to BindingSnapshot: discovery with its GET_INFO,
the `RmControl` built on it, the gates of `issue()` with the journal records they take,
each active command, the gate of the asynchronous PREEMPT with the drained work that
opens it again, and the Recovery flag raised before a change. `altered` is the driver's
side of a setting: it stays with the object through a bind, which only the registry takes
for a new generation, and goes when the object is freed. `licence` is what stage,
authorization and review allow; the commands that only read, and those refused, are one
action, since a record is all they leave. The engine check of the discovery is left out
(the registry has no engine number here).

**GroupControl** is one worker process: `ProfileState` and its gates, the
once-only GET_INFO (`GroupInfoOnce`) and PREEMPT (`GroupPreemptOnce`) with its
no-op, the wrappers that run them under the capture lock, and the journal. The
registry appears as an epoch with a flag that a binding can be found; a snapshot
is the epoch it was taken in. This is what `SnapshotsAreExact` shows to be right: a
snapshot is refused once anything it describes has changed and accepted otherwise.
An operation is split where something can be observed: after the publication of a
slot, after the ioctl, after the completion (`PreemptReturn` merges the two
completions, which nothing separates but a crash that leaves one slot in flight).
A crash is not an action: `Recovered` is what a reader gets from the file in any
state, and `EvidenceCovers` is stated of it. `EnvironmentChanges` stands for code
outside this repository: nothing here calls `setenv`, but the code under test
re-reads the variable on every operation because others may.

**OneShotControl** is the abstract contract: ask about one group once; act on that
group, once, and only after a good answer. GroupControl implements it with its query
and PREEMPT (`ImplementsContract`), DiagnosticRun with a D0 as the question and its
one follow-up as the act (`OneFollowUpPerD0`).

**WorkerProtocol** is the pair of processes of one run: the controller
(`int_worker.cu`) and the owner (`bg_worker.cu`), the mailbox, the telemetry flags,
and the owner-side recovery. `Child::command` is three steps (write the slot,
publish the number, wait); the owner's loop is four (take the number, read the
slot, do, acknowledge), so a reuse of the slot after a time-out meets the owner
anywhere. `Changes` and `Restores` are the controls: a failed one may have had its
effect. The sequence of commands of a trial is the value `Trial`, derived from the
mode as `ModePlan` and the trial loop do, for every mode that has an owner; the
`restart` of realtime-restart is a call of the controller that leaves no state, and its
refusal one of the reasons to give up. Deadlines are not counted: a wait may end at any
moment, which covers every value of the 15 s and 60 s limits. `Arm` merges the
installation of handlers, `PR_SET_PDEATHSIG` and the `getppid` test, before which
nothing has been changed. The observer is taken to run from Launch to Drain. Group
commands and their at-most-once gates are GroupControl's concern; here they have an
outcome.

**PairedBatch** is `execute()` of `run_paired.py` with `reserve` and `recount` of
`pair_contract.py` and `run_process_group` of `run_matrix.py`. The batch directory
(marker, ledger, run directories) is shared by several invocations, each with its
own copy of the ledger; worker groups live on their own. `write_json` renames a
complete file over the old one, so a ledger write is one step. Derived counters of
the ledger (known and unknown attempts) are functions of its records and left out.
Every validation is `Fails`: it may raise at its place for reasons the model does
not look at. SIGTERM is an exception at any step of the `try`, in the handler or in
`finally`; the places where an `except OSError` swallows it are actions of their
own (`InterruptProbe`, `InterruptPopen`), and so is the one that falls into `reserve()`,
where the slot, or the slot and the record, are in the ledger and the handler does not
know of the record yet (`InterruptReserve`).

**DiagnosticRun** is one D0 and several D1 invocations of `run_diagnostic.py`, each
with its directory, its profiler and its pair of owners, which may escape into a
session of their own and survive the runner. Its steps are the statements after which
an interrupt (a KeyboardInterrupt no handler catches) or a crash leaves something
different behind: admission, the exclusive marker in the directory of the D0, the
reservation, the start, the wait, the clean-up, the counting of the two journals, the
export, the result. `write()` truncates before it fills, so the result of a crash may
be an empty file. The walk over `/proc` is one step.

**MatrixRun** is a campaign of invocations of `run_matrix.py` over a growing set of
results: which evidence an invocation needs, what iterations it takes over from it or
freezes after its first run, and how the runs of one invocation follow each other,
with the recovery of journals and the stop. A request names an earlier result as its
evidence, or none, and admission reads of it what `validate_admission` reads of its
files; nothing but what was copied into the options is looked at again later. What the
files of a run say is two facts: it is `complete` when its status is COMPLETED, and
`sound` when its rows and recovery files pass the rest of `validate_smoke` as well. The
exit of a run follows the first one only: `int_worker` ends with 0 on rows the observer
could not confirm (`application_valid` 0), so the loop goes on after such a run and only
a later admission turns it down. The process group of a run ends with an exit code here;
PairedBatch has its course.

**Summary, PairAnalysis, DiagnosticAnalysis, Descriptions** are the analyses. They are
pure functions, so each of their modules is a small world that builds what they read:
real clocks behind the pings and stamps of a trial, the files of a batch in any state
of its course, contexts taking turns on an engine behind a lossy export. The analysis
itself is a set of operators over what the program sees, and the properties compare
its conclusions with the world it never sees. A sorted list is defined by what it is
(the i-th element has fewer than i before it), not by how `sorted()` gets there; the
records of an export are a set, since each carries its sequence number and its time.
`FaultSets` is what one export may lose or deny, any `MaxFaults` things at once.
**Analyses** joins the four worlds, one per behaviour, and states their properties.

The other **MC_** modules give the constants that a configuration cannot express and
initial states. Operators marked "Variant" in the component modules are plausible
wrong versions of the definition that follows them; no specification uses them. Each
was substituted for its definition once per property to see that the property notices.

## What is checked

| Run | What it shows | Bounds, and why they are enough |
|---|---|---|
| `registry` | `TypeOK`, `GraphSound`, `ControlReachesItsFile`, `OneDescriptorPerClient`, `CompleteMirrorsDriver` of the registry behind its hook | two clients, five handles of which two can be parent and child in either order, three descriptors for two opens and their duplicates, a capacity of three, one hidden ioctl, four observations: reuse of handles and of descriptor numbers, parents never seen, a registry full of nodes and a full buffer all occur (the limits on clients and on the history are not reached; the theorems hold for any). An incomplete registry refuses everything for good and is not explored further (`ExploreComplete`). Arbitrary callers, and every bound, are the theorems' part. |
| `snapshots` | `GroupSnapshotExact`, `StrictValidIsRediscovery`, `OwnObjectsOnly`, `NothingLeftAltered` | starts from a CUDA-shaped tree of eight objects and takes every sequence of three events around the snapshots, two once there is a control: change and undo, with a third that is unrelated. Three journal slots, so that they run out; the full licence, each way to miss one part of it, and a group stage. |
| `strict_doc` | violation of `SeenChannelEndsStrictIdentity`, see findings | the tree above |
| `group_control` | `GroupTypeOK`, `RequestsLicensed`, `EvidenceCovers`, `ImplementsContract` | three operations (query, PREEMPT, one retry or no-op), three epochs (bind, move, move again), four slots: the operations need five, so the journal fills at each of its uses. |
| `worker_protocol` | `ProtocolTypeOK`, `ResultOfOwnCommand`, `EvidenceOfRestoration`, `EndsClean`, `ResetNeverObserved`, `ControllerEnds` | every mode with an owner, two trials (reset and reuse between trials; the group modes run a single one, `options.h:76`), one signal and one kill at any step. |
| `claim_confirmed` | violation, see findings | one trial, one kill |
| `batch` | `BatchTypeOK`, `LedgerTrue`, `OneGroupAtATime`, `LedgerNeverForgets`, `SpawnLicensed`, `EveryExecutorEnds` | two executors, two pairs (four runs) with a budget of two, two signals, any crash. The schedule only looks one run back, so a second pair is the induction step. |
| `interrupt_stops`, `group_contained` | violations, see findings | one executor, one pair |
| `diagnostic` | `DiagnosticTypeOK`, `ResultTrue`, `CapturesSeparate`, `OneFollowUpPerD0`, `EveryCaptureEnds` | a D0 and two follow-ups that race for it, one interrupt in all, any crash. Follow-ups meet only at the marker and in the captures they exclude, which two can do. |
| `matrix` | `MatrixTypeOK`, `EvidenceFirst`, `SameWork`, `NothingAfterFailure`, `MatrixEnds` | two campaigns: three invocations that climb from smoke to statistics and graphs, two invocations with several modes and a group run; iterations in {1, 2}. An evidence chain has at most three links; an invocation names only the evidence it reads (`NamesWhatIsRead`). |
| `analysis` | `QuantilesTrue`, `RowsTrue`, `PairsTrue`, `CaptureTrue`, `ReportOnlyGrows` | samples of up to six of four values, a clock with a slope and an offset and up to two pings on either side, one pair in each order, three context switches and one fault of the export: the smallest inputs in which every branch of the analyses is taken. Larger ones, and several faults at once, are the theorems' part. |

Deadlock checking is off in all of them: the bounds (events, operations, trials,
signals) and the regular end of the programs stop the models. That the programs get
to their end is `EveryExecutorEnds`, `ControllerEnds` and `EveryCaptureEnds`, and that
a matrix invocation ends only where it should is `MatrixEnds`.

**Fairness.** `PairedBatch` assumes weak fairness of each executor's own steps: all
its waits (`process.wait`, the grace periods) carry a time-out, so a step is always
possible; workers, signals and crashes get none. `WorkerProtocol` assumes it of
the controller only: each of its loops has a deadline, `Child::stop` ends in a
SIGKILL. The owner gets none, because a control is an ioctl that may not return.
`DiagnosticRun` assumes it of each runner's own steps, whose waits for the profiler
and for escaped owners are bounded as well; profiler and owners get none. Interrupts
and crashes are bounded in number, as otherwise they could keep a runner from its end.
The other modules claim no liveness.

### Findings

1. `strict_doc` - `valid()` has no memory of what came between: after a channel of
   the group appeared and went away again the cached strict identity is accepted
   once more; `docs/object_binding.md:77` says it is not used any further.
2. `interrupt_stops` - the SIGTERM of the batch is an `InterruptedError`, an
   `OSError`; `command()` of `preflight.py` takes it for the failure of a probe and
   the batch spawns its runs.
3. `group_contained` - only an interrupt in the first wait of `run_process_group`
   ends the group; elsewhere the executor ends and the group lives on.
4. `claim_confirmed` - the controller writes CONFIGURATION_RESTORED when the owner
   it had asked to disable its channels was killed and reaped;
   `docs/measurement.md:67` rules out a success that is not confirmed.

Met while modelling, with no run of their own:

- A failed restore of the normal end is attempted again by the exception handler
  (`int_worker.cu:373`, `bg_worker.cu:116`), where `recovery.h:6` promises at most one
  attempt; `tries` of WorkerProtocol is typed 0..2 for it.
- Once the strict binding is stale, the registry incomplete or the journal full, the
  restoring controls are refused as well: the flag stays and the recovery file says
  RECOVERY_FAILED, which is what `NothingLeftAltered` asks for.
- An interrupt in the grace sleep of the clean-up (`run_diagnostic.py:56`) leaves the
  survivors unrecorded, although the docstring at line 36 calls a survivor always
  RECOVERY_UNCONFIRMED.
- The matrix judges evidence by the files of the workers and not by the exit it
  recorded: a run whose journal recovery failed can still be smoke evidence, and a run
  that ended with 0 need not be any (`application_valid` 0, `int_worker.cu:335-365`).
- The first and the last switch record of a capture cannot be missed: the loss of one
  leaves no gap. `CaptureTrue` is stated for captures that kept them.

## What is proved

All proofs hold for every value of the constants allowed by the assumption of the
module (`RegistryAssumption`, `CaptureAssumption`, `GroupAssumption`, `ProtocolAssumption`,
`BatchAssumption`, `DiagnosticAssumption`, `MatrixAssumption`, `AnalysisAssumption`),
which only fix types. In particular no bound of a run is a bound of a theorem. Two parts
of them are conventions rather than types: a request of the matrix runner asks for at
least one mode, as its argument parser demands; and the real clocks are related by a
positive integer slope and a non-negative offset, which for a rational rate is a choice of
the unit and the origin of the CPU clock. Every invariant, action property and refinement
that a passing run checks is proved; three liveness properties are not.

**Registry_proofs** follows the registry through its users, ObjectRegistry,
BindingSnapshot and StrictControl.

*The registry*: `TypeCorrect`, `GraphStaysSound`. None of the four facts in
`GraphSound` is inductive alone. A parent token stays live over a bind, which
replaces a generation, because no node is its own parent (well-foundedness); a new
node has no child because no token carries a generation not yet handed out (types
and uniqueness); freeing a client leaves nothing behind because a handle never
leaves its client. The inductive invariant `RInv` therefore joins `Sound` (the four
facts, stated of a graph and the next generation so that they apply in the middle of
an allocation) with the bounds of clients, revisions and events. The lemmas follow the
helpers of the code: what `Doomed` collects is closed (`DoomedIsClosed`) and is the
least such set (`DoomedIsLeast`), erasing a closed set keeps a graph sound
(`ErasedIsSound`), inserting does (`InsertedIsSound`), rebinding does
(`ReboundIsSound`).

*The snapshots*: `SnapshotsAreExact`, `WalkIsRediscovery`. The run takes every
sequence of three events around a snapshot; the theorems take any sequence on any
registry. `NextEffects` says once what one event can do: whatever it changes gets a
generation nobody had, or a parent generation nobody had, and the two revisions move
exactly when a member or a compute object does. For the group snapshot the invariant is
a choice of two conditions, separated by the history variable `disturbed`: nothing it
describes has changed, and it is what the registry holds (`Fresh`), or one of its numbers
has been left behind (`Superseded`), which nothing undoes since no number is handed out
twice (`SupersededStays`). The case a reviewer would look for is a bind of a channel,
which changes its compute objects without touching them: it is caught by the revision of
the group, because all compute objects belong to it (`AllAttached`), which the search
demanded. A strict binding has tokens and no revisions. Its invariant (`StrictRecorded`)
says that a generation stands for one life and a life keeps its class and its parent; so
tokens that are current pin the path from device to channel, and the walk sees all that a
search would see (`ValidIsRediscovered`, `RediscoveredIsValid`).

*The strict controls*: `ReachOwnObjectsOnly`, `FlagsCoverChanges`,
`ControlKeepsSnapshots` (to registry and snapshots every command is a stutter), hence
`SnapshotsExactUnderControl`. On top of `RInv`
the invariant `SInv` says what a binding knows: its tokens name nodes of the class they
were found with for as long as they are live (`LivesKeepTheirClass`: a generation is
never given to another node), and a found binding names verified objects and all
channels of the group (`FoundAreNamed`). What is altered has its flag because the flag
is raised before the call and taken down only by an accepted restoration.

**IoctlCapture_proofs**: `CaptureImplementsRegistry` (every step of the hook is an
operation of the registry or none), hence `CapturedGraphIsSound`;
`ControlsReachTheirFile` and `CaptureHoldsOnePerClient`: a known client has a descriptor
only the capture may close, it closes it in the step that forgets the client, and the
next client gets a new generation, so a kept binding names the file it was taken on or
is refused, and no descriptor is leaked or shared (`CaptureInv`). And
`CompleteCaptureMirrors`: `DriverInv` compares the registry with the table of the driver
at each stage of an ioctl. Between the call of the driver and the observation the two
differ by exactly what the event carries; the observation then makes the same change,
which for a free and a reused handle means that both sides drop the same descendants.
Both sets are least closed sets over equal trees, so `DoomedIsLeast` identifies them.
Whatever the hook cannot follow makes the capture incomplete before it lets go of the
lock.

**GroupControl_proofs**: `TypeCorrect`, `Licensed`, `EvidenceStands`, `Implements`. The
properties speak of requests already sent; what makes them true is checked before the
request, and the journal slot is published in between. The inductive invariant `GInv`
therefore says of a request in flight what it was checked against, and that this still
holds: the types; no gate is open in a process that is not configured (`ProfileOK`); a
slot that is issued belongs to the operation in progress (`JournalOK`); nothing was
asked before `info.consumed`, and whatever is verified has a good answer in the history
(`QueryOK`); nothing was preempted before `spent`, and a PREEMPT in flight or sent
has all of `Authorized` (`PreemptOK`). The parts a request depends on change only
while no operation holds the capture lock (`IdlePreserves`, `AuthorizationKept`).
`EvidenceStands` needs `SlotsOK` besides: a slot in flight is that of the request in
flight, and each completed slot is matched by a request on the same binding, so that
what a reader recovers counts the requests right whenever the process dies.
`Implements` maps each request sent to the contract's step and everything else to a
stutter.

**WorkerProtocol_proofs**: `AnswersMatch`, `EvidenceTrue`, `RunsEndClean`,
`ResetsUnobserved`, `ProtocolTyped`.
`MailboxInv` follows a command through the slot: the controller never publishes a
number twice, so an owner still busy with an abandoned command acknowledges a smaller
number than the one waited for, and one that took the current number reads the slot
that goes with it. `RecoveryInv` is a chain: what is altered is dirty (`DirtyOK`,
the order of flag and control in `Changes`); a worker whose file only says RESTORED
has nothing dirty, because a worker that has written never changes anything again
(`BgOK`, `IntOK` tie the files to the places the programs can be at); and the
processes end in the order the controller waits for them (`ProcessesOK`). `ObserverInv`
places the observer: it runs only from the launch of a trial to its drain, a step of the
script is sent only after the answer to the last one, and so no reset is asked for or
under way meanwhile; the lemma `NextIsWatched` follows the commands of a trial by the
arithmetic of `StepAt`. `TypesInv` adds that a worker which fails while restoring goes
on to its handler and never to a third restore.

**PairedBatch_proofs**: `BatchTypeCorrect`, `LedgerIsTrue`, `GroupsNeverOverlap`,
`EverySpawnIsLicensed`, `WritesNeverForget`. `BInv`: only one executor ever passes the
marker (`Admission`); it writes the disk before it spawns, so its own copy is at most one
reservation ahead of the disk (`Positions`); a worker exists only for a run reserved on
disk and only the last one can be alive (`Workers`); the records follow the plan
(`Orderly`); and a run is called COMPLETE only after its group is gone, when nothing can
change what was counted (`CompleteIsExact`).

**DiagnosticRun_proofs**: `DiagnosticTypeCorrect`, `ResultIsTrue`, `CapturesNeverMeet`,
`FollowUpIsOneShot`. `DInv` says for each invocation what its processes, its place in the
program and its records have to do with each other. What carries the argument is that a
capture which was counted is quiet: its profiler is over and no owner of it can come to
life again, or its BG can never pass the gate of the two journals, so the number counted
stays true whatever still runs.

**MatrixRun_proofs**: `MatrixHasItsTypes`, `EvidenceComesFirst`, `RunsShareWork`,
`NothingRunsAfterFailure`, `MatricesEndRight`. An invocation reads its evidence once and
acts on it for hours; the properties speak of results that come much later. `MatrixInv`
keeps what admission established: results are only appended, so the evidence `j` is still
what it was (`Justified`, `Backs`), and its work is the work of the options. The runs of
the invocation are the last results, one per mode done, all complete but for the one not
yet judged (`RunsInOrder`); the frozen iterations are those of every run judged
(`WorkFrozen`), which a run without a BG must not disturb. None of the
five properties is inductive alone: whether the loop goes on is decided by the exit of a
run and of its recovery, while the properties speak of what the files say, so the
invariant carries "a good exit means a completed run" from the end of a run to its
judgement.

**Analyses_proofs**: `QuantilesAreTrue`, `StatedOrderIsReal`, `StatisticsAreTrue`,
`ReportsOnlyGrow`, `ReadyCaptureIsTrue`. The run takes samples of six values, two pings
and one fault; the theorems any samples, pings, batches and captures, and any number of
faults at once.

- *Quantiles*: `SortedEnumeration` shows that the sorted sample exists, ascends and
  counts right; the proportion of a quantile follows from the neighbours it lies between.
- *Orders*: the pings and the row are those of the real clock (`RowsInv`); the interval
  is a weighted mean of two brackets that each contain the real offset, and the proof is
  the arithmetic of this weighting (`Weighted`).
- *Batches*: `BatchInv` ties the ledger to the files it was made from; the counts of a
  report are then partitions of the compared pairs (`TwoParts`, `ThreeParts`) and the two
  ways the differences are computed enumerate one set.
- *Captures*: `CaptureInv` says of the world what the export cannot show: records are
  numbered from 1 in the order of time, the last one says who is on the engine, and a
  kernel that ran in its window has left a record of its context there or its context
  never left (`Witnessed`). A capture without gaps, with one context of each owner, then
  can only have found the context of the workload.

Statements about all naturals and all finite sets are needed here and the induction
theorems of the library take a predicate, which the provers cannot instantiate.
`SetInduction` states induction of a set of naturals, which they can; it rests on the
well-foundedness of `<`.

Only model-checked: the three liveness properties `EveryExecutorEnds`, `ControllerEnds` and
`EveryCaptureEnds`, since liveness under fairness is out of the prover's reach; and the
mean of a sample, which is a fold and no part of a property.

## What is not modelled

- The GPU worker (`worker_common.cuh`): kernels, event timing and the reference
  computation; what they do is the flags both workers poll.
- In WorkerProtocol: the mode int-only (no owner, no mailbox, nothing changed) and the RM
  probes of `int_worker`, straight-line programs over the controls of StrictControl and
  GroupControl; the contents of a trial's row.
- In the journal: the binary layout, the check of a truncated file, the overflow flag and
  the JSON export.
- In the strict discovery: the engine check.
- Tables and argument parsing without state (`mode_plan.h`, `options.h`), formatting of
  rows, JSON and reports, the optional timing trace.
- `preflight.cu`, `event_dump.cpp`, `preflight.py` beyond its interrupted probes,
  `probe_diagnostic.py` and `audit_profiles.py`: they ask the host once and print.
- Recorded results, patches, and the pinned driver sources (submodules, empty here).

## How it was planned, and what is left

The order was: the registry and its snapshots, the group controls with their journal, the
batch, the workers; then the hook around the registry and the strict controls on its
bindings; then the other two runners and the analyses; with the proofs following each
component. The abstract contract of the group controls turned out to be that of the
diagnostic runner as well.

What would come next: the journal file itself (layout, truncation, the overflow flag) as a
module below GroupControl, with the recovered count as its refinement; and the audit of
the driver profiles.
