--------------------------- MODULE DiagnosticAnalysis ---------------------------
(***************************************************************************)
(* The analysis of a diagnostic capture, analyze_diagnostic.py: which      *)
(* context-switch records of the profiler belong to the workload of which  *)
(* owner, and whether the capture may license an active follow-up.         *)
(*                                                                         *)
(* The capture is here as it really happened: contexts take turns on the   *)
(* engine, the owners annotate and run their kernels, the profiler notes   *)
(* every switch with a sequence number, and the export may lose records    *)
(* and annotations and may or may not say so.  The analysis only sees the  *)
(* export.  The identifiers it never equates (CUDA context, switch context,*)
(* RM group) are left out with the checks that join them: "mapped" are the *)
(* roles whose kernel, CUDA context and group identity agree.              *)
(***************************************************************************)
EXTENDS Integers, Sequences, FiniteSets, Functions

CONSTANTS
    MaxSwitches,  \* bound: context switches in a capture
    MaxFaults     \* bound: what goes wrong with one export

Roles == {"BG", "INT"}

\* An owner has the context of its workload, and another while it initialises.
Contexts == (Roles \X {"init", "work"}) \cup {<<"other", "work">>}
Pid(context) == context[1]
Work(role) == <<role, "work">>

VARIABLES
    now,       \* the time of the trace
    resident,  \* the context on the engine
    switches,  \* every record the profiler took
    marks,     \* the annotations made, with their times
    ran,       \* the roles whose kernel ran
    export     \* the export, once there is one

vars == <<now, resident, switches, marks, ran, export>>

NoExport == [there |-> FALSE]
Never == 0

Names == {"trial", "bg_submit", "int_submit", "preempt_ioctl_envelope", "trial_end"}
Submit(role) == IF role = "BG" THEN "bg_submit" ELSE "int_submit"

Init ==
    /\ now = 1 /\ resident \in Contexts
    /\ switches = <<>> /\ ran = {}
    /\ marks = [n \in Names |-> Never]
    /\ export = NoExport

-----------------------------------------------------------------------------
(* The capture and its export: external.                                      *)
Capturing == ~ export.there /\ now' = now + 1
Marked(name) == marks[name] # Never

\* Each switch leaves a record of the context that leaves and of the one that comes.
Switch(to) ==
    /\ Capturing /\ to # resident
    /\ Len(switches) < 2 * MaxSwitches
    /\ resident' = to
    /\ switches' = switches \o
        <<[seqNo |-> Len(switches) + 1, contextId |-> resident, timestamp |-> now],
          [seqNo |-> Len(switches) + 2, contextId |-> to, timestamp |-> now]>>
    /\ UNCHANGED <<marks, ran, export>>

\* The order of the worker: the trial begins, BG and then INT submit, a D1 makes
\* its request, the trial ends when the work is done or given up.
Mark(name) ==
    /\ Capturing
    /\ ~ Marked(name) /\ ~ Marked("trial_end")
    /\ CASE name = "trial" -> TRUE
          [] name = "bg_submit" -> Marked("trial")
          [] name = "int_submit" -> Marked("bg_submit")
          [] name = "preempt_ioctl_envelope" -> Marked("int_submit")
          [] name = "trial_end" -> Marked("trial")
    /\ marks' = [marks EXCEPT ![name] = now]
    /\ UNCHANGED <<resident, switches, ran, export>>

Run(role) ==
    /\ Capturing
    /\ role \notin ran /\ Marked(Submit(role)) /\ ~ Marked("trial_end")
    /\ resident = Work(role)
    /\ ran' = ran \cup {role}
    /\ UNCHANGED <<resident, switches, marks, export>>

\* What may go wrong: a record or an annotation is not exported, the kernel or
\* the contexts of a role cannot be joined, the collection was cut short, the
\* tool reports an error or a loss, the worker's files are not valid.
Faults ==
    ({"lost"} \X DOMAIN switches) \cup ({"unseen"} \X Names) \cup ({"unmapped"} \X Roles)
        \cup ({"cut", "reported", "invalid"} \X {0})

FaultSets == {{}} \cup {Range(f) : f \in [1 .. MaxFaults -> Faults]}

ExportWith(faults) ==
    [there |-> TRUE,
     collected |-> <<"cut", 0>> \notin faults,
     reported |-> <<"reported", 0>> \in faults,
     complete |-> ran = Roles /\ Marked("trial_end") /\ <<"invalid", 0>> \notin faults,
     mapped |-> {role \in ran : <<"unmapped", role>> \notin faults},
     switches |-> {r \in Range(switches) : <<"lost", r.seqNo>> \notin faults},
     marks |-> [n \in Names |-> IF <<"unseen", n>> \in faults THEN Never ELSE marks[n]]]

\* Only a collection that is cut ends before the trial does.
Export ==
    /\ Capturing
    /\ \E faults \in FaultSets :
        /\ Marked("trial_end") \/ <<"cut", 0>> \in faults
        /\ export' = ExportWith(faults)
    /\ UNCHANGED <<resident, switches, marks, ran>>

-----------------------------------------------------------------------------
(* analyze()                                                                  *)
Seen(name) == export.marks[name] # Never
Window(role) == export.marks[Submit(role)] .. export.marks["trial_end"]
OwnSwitches == {r \in export.switches : Pid(r.contextId) \in Roles}

\* Variant: of several contexts the first one is taken.
FirstTrialContext(role) ==
    LET own == {r \in OwnSwitches : Pid(r.contextId) = role /\ r.timestamp \in Window(role)}
    IN  {r.contextId : r \in {s \in own : \A other \in own : s.seqNo <= other.seqNo}}

\* The switch contexts of a role between its submission and the end of the trial.
TrialContexts(role) ==
    {r.contextId : r \in {s \in OwnSwitches :
        Pid(s.contextId) = role /\ s.timestamp \in Window(role)}}

\* associate_switch(): the role of a record, or none.
AssociatedWith(record, role) ==
    /\ Pid(record.contextId) = role
    /\ record.timestamp \in Window(role)
    /\ role \in export.mapped
    /\ TrialContexts(role) = {record.contextId}

\* The numbers of all records of the GPU, other processes included.
SeqGap ==
    \E r \in export.switches :
        /\ \E later \in export.switches : later.seqNo > r.seqNo
        /\ \A next \in export.switches : next.seqNo # r.seqNo + 1

\* select_marker(): the trial and both submissions.
MarkerMissing == \E n \in {"trial", "bg_submit", "int_submit", "trial_end"} : ~ Seen(n)
NoOwnSwitch == OwnSwitches = {}

\* The exceptions; the last one is validate_run() on the files of the worker.
Raises == MarkerMissing \/ NoOwnSwitch \/ ~ export.complete

\* The entries of "limitations".
CollectionFailed == ~ export.collected
Unmapped == export.mapped # Roles
AmbiguousContext == \E role \in Roles : Cardinality(TrialContexts(role)) # 1
RequestUnmarked == Marked("preempt_ioctl_envelope") /\ ~ Seen("preempt_ioctl_envelope")

Problems ==
    \/ CollectionFailed \/ Unmapped \/ AmbiguousContext \/ export.reported
    \/ SeqGap \/ RequestUnmarked

\* backend_ready_for_d1
Ready == export.there /\ ~ Raises /\ ~ Problems

Next ==
    \/ \E to \in Contexts : Switch(to)
    \/ \E name \in Names : Mark(name)
    \/ \E role \in Roles : Run(role)
    \/ Export

Spec == Init /\ [][Next]_vars

-----------------------------------------------------------------------------
(* Properties.                                                                *)
\* The export ends where the trial does or later: its last records are there.
TailKept == switches # <<>> => switches[Len(switches)] \in export.switches
HeadKept == switches # <<>> => switches[1] \in export.switches

\* A ready capture attributes to an owner records of its workload's context
\* only, and some to each, although the analysis never knows which context that
\* is, provided no record is lost behind the last or before the first exported
\* (associate_switch(); "dropped_records ... not assumed zero").
AssociationSound ==
    Ready /\ TailKept /\ HeadKept => \A role \in Roles :
        /\ \E r \in export.switches : AssociatedWith(r, role)
        /\ \A r \in export.switches : AssociatedWith(r, role) => r.contextId = Work(role)

\* A ready capture has every switch of the GPU between its first and its last
\* record, also those of processes the analysis leaves out.
NothingLostInside ==
    Ready => \A r \in Range(switches) :
        (\E first, last \in export.switches : first.seqNo <= r.seqNo /\ r.seqNo <= last.seqNo)
            => r \in export.switches

\* A ready capture is that of a whole run: collected without force, complete,
\* both kernels run, and with the annotation of every request it made.
ReadyIsWholeRun ==
    Ready =>
        /\ export.collected /\ export.complete /\ ran = Roles
        /\ Marked("preempt_ioctl_envelope") =>
            export.marks["preempt_ioctl_envelope"] \in Window("INT")
=============================================================================
