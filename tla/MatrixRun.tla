------------------------------- MODULE MatrixRun -------------------------------
(***************************************************************************)
(* The matrix runner, run_matrix.py, over a campaign of invocations: which *)
(* evidence of earlier runs an invocation needs, what it takes over from   *)
(* it, and how the runs of one invocation follow each other.               *)
(*                                                                         *)
(* A result is the directory of one run.  The runner judges evidence by    *)
(* the files the workers left (status, rows, recovery), never by the exit  *)
(* it recorded itself.  A result is "complete" when its status says so and *)
(* "sound" when its rows and recovery files pass validate_smoke() as well: *)
(* a worker may complete and exit 0 with a row that is not valid.          *)
(* The process group of a run is the concern of PairedBatch: here it ends  *)
(* with an exit code.  SIGTERM is not handled: it is a crash, and the      *)
(* workers may still complete.  The scheduling and workload parameters an  *)
(* evidence must match (force, bypass, waves, heartbeat, time slice) are   *)
(* one value, "config".                                                    *)
(***************************************************************************)
EXTENDS Integers, Sequences, Functions

CONSTANTS
    Campaigns,   \* what an operator may ask for: a set of command lines, without
                 \*   the evidence they name, and a bound on the invocations
    Iterations,  \* what a calibration may find
    Plain        \* the config without force or bypass

Requests == UNION {c.requests : c \in Campaigns}

Baselines == {"int-only", "none", "group-bound-none"}
Modes == Baselines \cup
    {"timeslice", "preempt-wait", "group-preempt-wait", "preempt-async", "realtime-only",
     "realtime-restart", "disable", "disable-split"}
Extended == {"preempt-async", "disable", "disable-split"}
ActivePrimitives == {"preempt-wait", "preempt-async", "realtime-restart", "disable", "disable-split"}

NoEvidence == 0

Configs == {r.config : r \in Requests}

\* The arguments: 0 iterations are to be calibrated, evidence is the number of a result.
Options(evidence) ==
    [modes : Seq(Modes), trials : Nat \ {0}, graph : BOOLEAN, diagnostic : BOOLEAN,
     confirmed : BOOLEAN, extended : BOOLEAN, reviewed : BOOLEAN, config : Configs,
     int : Nat, bg : Nat, smoke : evidence, primitive : evidence, paired : evidence]

ASSUME MatrixAssumption ==
    /\ Requests \subseteq Options({NoEvidence})
    /\ \A r \in Requests : r.modes # <<>>
    /\ Iterations \subseteq Nat \ {0}
    /\ \A c \in Campaigns : c.invocations \in Nat

VARIABLES
    campaign,    \* the campaign of this behaviour
    results,     \* the run directories of the campaign, in the order they were made
    invocation,  \* the number of invocations so far
    pc,          \* where the current one is
    options,     \* its arguments, with what admission wrote into them
    loop,        \* its locals: the frozen work, the modes to run, the last exit,
                 \*   and whether it received an interrupt
    summary      \* summary.md of the last invocation

vars == <<campaign, results, invocation, pc, options, loop, summary>>

NoOptions == [modes |-> <<>>]
NoLoop == [int |-> 0, bg |-> 0, todo |-> <<>>, exit |-> TRUE, interrupted |-> FALSE]

Init ==
    /\ campaign \in Campaigns
    /\ results = <<>> /\ invocation = 0
    /\ pc = "idle" /\ options = NoOptions
    /\ loop = NoLoop /\ summary = "none"

-----------------------------------------------------------------------------
(* Evidence.                                                                  *)
Roles(mode) == IF mode = "int-only" THEN {"int"} ELSE {"bg", "int"}

\* validate_smoke(): a completed and sound result of this mode and configuration,
\* with enough rows, and with the work that was asked for, if any was.
ValidSmoke(e, mode, minimum, graph, o) ==
    /\ e \in DOMAIN results
    /\ LET r == results[e] IN
       /\ r.complete /\ r.sound /\ r.mode = mode /\ r.graph = graph
       /\ r.diagnostic = o.diagnostic /\ r.config = o.config
       /\ \A role \in Roles(mode) : o[role] \in {0, r[role]}
       /\ r.rows >= minimum

\* "A 1 -> 10 progression reuses validated work, never recalibrates it."
WithWorkOf(o, e) ==
    [o EXCEPT !.int = results[e].int,
              !.bg = IF results[e].mode = "int-only" THEN @ ELSE results[e].bg]

\* validate_paired_none(): one completed plain trial of mode none.
ValidPaired(o) ==
    /\ ValidSmoke(o.paired, "none", 1, FALSE, o)
    /\ results[o.paired].rows = 1

-----------------------------------------------------------------------------
(* validate_admission()                                                       *)
Active(o) == Range(o.modes) \ Baselines
IsGroup(o) == "group-preempt-wait" \in Range(o.modes)
Forced(o) == o.config # Plain

\* Variant: ten complete trials are not asked for.
SmokeRowsOne(o) == 1

SmokeRows(o) == IF o.trials > 10 THEN 10 ELSE 1

AfterPaired(o) == IF IsGroup(o) THEN WithWorkOf(o, o.paired) ELSE o
AfterSmoke(o) == IF o.trials > 1 THEN WithWorkOf(AfterPaired(o), o.smoke) ELSE AfterPaired(o)
Admitted(o) == IF o.graph THEN WithWorkOf(AfterSmoke(o), o.primitive) ELSE AfterSmoke(o)

GroupAdmissible(o) ==
    /\ "group-bound-none" \in Range(o.modes) =>
        /\ o.trials = 1 /\ ~ o.graph /\ ~ o.diagnostic /\ ~ o.confirmed
        /\ o.bg # 0 /\ o.int # 0
    /\ IsGroup(o) =>
        /\ Len(o.modes) = 1 /\ o.trials = 1 /\ ~ o.graph /\ ~ o.diagnostic
        /\ ~ Forced(o) /\ ~ o.extended
        /\ ValidPaired(o)

StatisticsAdmissible(o) ==
    /\ o.trials > 10 => o.int # 0 /\ (o.bg # 0 \/ Head(o.modes) = "int-only")
    /\ o.trials > 1 =>
        /\ Len(o.modes) = 1
        /\ ValidSmoke(o.smoke, Head(o.modes), SmokeRows(o), o.graph, AfterPaired(o))

GraphAdmissible(o) ==
    o.graph =>
        /\ o.reviewed /\ o.primitive \in DOMAIN results
        /\ results[o.primitive].mode \in ActivePrimitives
        /\ ValidSmoke(o.primitive, results[o.primitive].mode, 10, FALSE, AfterSmoke(o))
        /\ Active(o) \ {"timeslice"} \subseteq {results[o.primitive].mode}

Admissible(o) ==
    /\ Active(o) # {} => o.confirmed
    /\ GroupAdmissible(o)
    /\ Range(o.modes) \cap Extended # {} \/ Forced(o) => o.extended
    /\ StatisticsAdmissible(o)
    /\ GraphAdmissible(o)

\* Bound: evidence that nothing of the invocation will read is not named.
NamesWhatIsRead(o) ==
    /\ o.trials = 1 => o.smoke = NoEvidence
    /\ ~ o.graph => o.primitive = NoEvidence
    /\ ~ IsGroup(o) => o.paired = NoEvidence

\* An invocation that is refused leaves nothing behind.
Invoke(request, smoke, primitive, paired) ==
    LET o == [request EXCEPT !.smoke = smoke, !.primitive = primitive, !.paired = paired] IN
    /\ pc = "idle" /\ invocation < campaign.invocations
    /\ NamesWhatIsRead(o) /\ Admissible(o)
    /\ invocation' = invocation + 1
    /\ options' = Admitted(o)
    /\ loop' = [NoLoop EXCEPT !.int = Admitted(o).int, !.bg = Admitted(o).bg, !.todo = o.modes]
    /\ pc' = "preflight" /\ summary' = "none"
    /\ UNCHANGED <<campaign, results>>

-----------------------------------------------------------------------------
(* main(): readiness, the gates of the active modes, the loop.                *)
Conclude(text) ==
    /\ pc' = "idle" /\ summary' = text
    /\ options' = NoOptions /\ loop' = NoLoop

Goto(where) == pc' = where /\ UNCHANGED <<options, loop, summary>>

Preflight(ok) ==
    /\ pc = "preflight"
    /\ IF ~ ok THEN Conclude("blocked")
       ELSE Goto(IF Active(options) = {} THEN "loop" ELSE "gate")
    /\ UNCHANGED <<campaign, results, invocation>>

\* The compute processes of the device, and for the group mode the paired none.
Gate(ok) ==
    /\ pc = "gate"
    /\ IF ~ ok \/ (IsGroup(options) /\ ~ ValidPaired(options)) THEN Conclude("skipped")
       ELSE Goto(IF Active(options) \subseteq {"group-preempt-wait"} THEN "loop" ELSE "probes")
    /\ UNCHANGED <<campaign, results, invocation>>

\* Observe, identity, readonly: each must end with 0.
Probes(ok) ==
    /\ pc = "probes"
    /\ IF ok THEN Goto("loop") ELSE Conclude("stopped")
    /\ UNCHANGED <<campaign, results, invocation>>

\* A mode named twice meets its own directory: the exception ends the invocation.
Repeated(mode) == \E i \in DOMAIN results :
    results[i].invocation = invocation /\ results[i].mode = mode

Start ==
    /\ pc = "loop" /\ loop.todo # <<>>
    /\ IF Repeated(Head(loop.todo)) THEN Conclude("none") ELSE Goto("running")
    /\ UNCHANGED <<campaign, results, invocation>>

\* The work of a role: what was frozen, or a calibration; none without the role.
Work(mode, role) ==
    IF role \notin Roles(mode) THEN {0}
    ELSE IF loop[role] # 0 THEN {loop[role]} ELSE Iterations

\* What the workers leave in the directory of the run.  The status comes last: a run
\* without it has fewer rows than asked for, or no recovery on record.  "sound" asks
\* of a row that both kernels were seen to end, that the results are right and,
\* where the mode has a control, that it was accepted; the status does not.
Leaves(mode) ==
    {r \in [invocation : {invocation}, mode : {mode}, rows : {options.trials},
            graph : {options.graph}, diagnostic : {options.diagnostic},
            config : {options.config}, int : Work(mode, "int"), bg : Work(mode, "bg"),
            complete : BOOLEAN, sound : BOOLEAN] : r.sound => r.complete}

\* The group ends: by itself, with any exit, or by a time-out or interrupt.  Exit 0
\* comes after the status was written; it says nothing of what the rows hold.
RunEnds(r) ==
    /\ pc = "running"
    /\ r \in Leaves(Head(loop.todo))
    /\ results' = Append(results, r)
    /\ \E ok \in BOOLEAN :
        /\ ok => r.complete /\ ~ loop.interrupted
        /\ loop' = [loop EXCEPT !.exit = ok]
    /\ pc' = "recover"
    /\ UNCHANGED <<campaign, invocation, options, summary>>

\* Variant: the exit of the recovery replaces that of the run.
RecoverOverwrites(ok) ==
    /\ pc = "recover"
    /\ loop' = [loop EXCEPT !.exit = ok]
    /\ pc' = "judge"
    /\ UNCHANGED <<campaign, results, invocation, options, summary>>

\* event_dump on each journal; a failure replaces exit 0 by 126.
Recover(ok) ==
    /\ pc = "recover"
    /\ loop' = [loop EXCEPT !.exit = @ /\ ok]
    /\ pc' = "judge"
    /\ UNCHANGED <<campaign, results, invocation, options, summary>>

StopAtFailure ==
    /\ pc = "judge" /\ ~ loop.exit
    /\ Conclude("stopped")
    /\ UNCHANGED <<campaign, results, invocation>>

\* Variant: what the workers calibrated is not read back.
ContinueUnfrozen ==
    /\ pc = "judge" /\ loop.exit
    /\ loop' = [loop EXCEPT !.todo = Tail(@)]
    /\ pc' = "loop"
    /\ UNCHANGED <<campaign, results, invocation, options, summary>>

\* "Freeze calibrated work for subsequent paired configurations."
Continue ==
    /\ pc = "judge" /\ loop.exit
    /\ LET last == results[Len(results)] IN
       loop' = [loop EXCEPT !.int = last.int,
                            !.bg = IF "bg" \in Roles(last.mode) THEN last.bg ELSE @,
                            !.todo = Tail(@)]
    /\ pc' = "loop"
    /\ UNCHANGED <<campaign, results, invocation, options, summary>>

Complete ==
    /\ pc = "loop" /\ loop.todo = <<>>
    /\ Conclude("completed")
    /\ UNCHANGED <<campaign, results, invocation>>

-----------------------------------------------------------------------------
(* Interrupts and crashes.                                                    *)
\* Variant: an interrupted wait is waited for again.
InterruptAgain ==
    /\ pc \in {"preflight", "probes", "running", "recover"}
    /\ loop' = [loop EXCEPT !.interrupted = TRUE]
    /\ UNCHANGED <<campaign, results, invocation, pc, options, summary>>

\* In the wait of a process group the interrupt becomes its exit code, 130.
InterruptWait ==
    /\ ~ loop.interrupted
    /\ \/ pc = "preflight" /\ Conclude("blocked")
       \/ pc = "probes" /\ Conclude("stopped")
       \/ /\ pc = "running"
          /\ loop' = [loop EXCEPT !.interrupted = TRUE]
          /\ UNCHANGED <<pc, options, summary>>
       \/ /\ pc = "recover"
          /\ loop' = [loop EXCEPT !.interrupted = TRUE, !.exit = FALSE]
          /\ pc' = "judge"
          /\ UNCHANGED <<options, summary>>
    /\ UNCHANGED <<campaign, results, invocation>>

\* Anywhere else it ends the runner, as SIGTERM does; a run may still complete.
Dies ==
    /\ pc # "idle"
    /\ \/ pc # "running" /\ UNCHANGED results
       \/ pc = "running" /\ \E r \in Leaves(Head(loop.todo)) : results' = Append(results, r)
    /\ Conclude("none")
    /\ UNCHANGED <<campaign, invocation>>

Evidence == {NoEvidence} \cup DOMAIN results

Next ==
    \/ \E request \in campaign.requests : \E smoke, primitive, paired \in Evidence :
            Invoke(request, smoke, primitive, paired)
    \/ \E ok \in BOOLEAN : Preflight(ok) \/ Gate(ok) \/ Probes(ok) \/ Recover(ok)
    \/ Start \/ StopAtFailure \/ Continue \/ Complete
    \/ pc = "running" /\ \E r \in Leaves(Head(loop.todo)) : RunEnds(r)
    \/ InterruptWait \/ Dies

Spec == Init /\ [][Next]_vars

-----------------------------------------------------------------------------
(* Properties.                                                                *)
Results == [invocation : 1 .. campaign.invocations, mode : Modes, rows : Nat \ {0},
            graph : BOOLEAN, diagnostic : BOOLEAN, config : Configs,
            int : Nat, bg : Nat, complete : BOOLEAN, sound : BOOLEAN]

\* The types.  A result belongs to an invocation that began, in their order; a
\* run has the work of its roles and of no other: nothing is left to calibrate
\* when its exit of 0 has been judged (run_matrix.py:234).
MatrixTypeOK ==
    /\ results \in Seq(Results)
    /\ campaign \in Campaigns /\ invocation \in 0 .. campaign.invocations
    /\ pc \in {"idle", "preflight", "gate", "probes", "loop", "running", "recover", "judge"}
    /\ summary \in {"none", "blocked", "skipped", "stopped", "completed"}
    /\ DOMAIN loop = DOMAIN NoLoop /\ loop.todo \in Seq(Modes)
    /\ \A i \in DOMAIN results :
        /\ results[i].invocation <= invocation
        /\ \A j \in 1 .. i : results[j].invocation <= results[i].invocation
        /\ \A role \in {"int", "bg"} : results[i][role] # 0 <=> role \in Roles(results[i].mode)
        /\ pc = "loop" /\ results[i].invocation = invocation => loop.int = results[i].int

SameKind(e, r) ==
    /\ e.complete /\ e.sound /\ e.mode = r.mode
    /\ e.config = r.config /\ e.diagnostic = r.diagnostic

SameWorkAs(e, r) == \A role \in Roles(e.mode) \cap Roles(r.mode) : e[role] = r[role]

\* A run of more than one trial has an earlier complete, sound run of its own mode,
\* configuration and work, of at least ten trials when it has more than ten:
\* "1 -> about 10 -> statistics" (README), which validate_smoke() must enforce
\* across invocations that only know each other's files, and copy the work.
Ladder ==
    \A i \in DOMAIN results : results[i].rows > 1 =>
        \E j \in 1 .. i - 1 :
            /\ SameKind(results[j], results[i]) /\ results[j].graph = results[i].graph
            /\ SameWorkAs(results[j], results[i])
            /\ results[j].rows >= IF results[i].rows > 10 THEN 10 ELSE 1

\* A graph run of an active mode comes after ten sound trials of the same
\* mode without a graph, with the same work (validate_admission, --graph).
GraphNeedsPrimitive ==
    \A i \in DOMAIN results : results[i].graph /\ results[i].mode \in ActivePrimitives =>
        \E j \in 1 .. i - 1 :
            /\ SameKind(results[j], results[i]) /\ ~ results[j].graph
            /\ SameWorkAs(results[j], results[i]) /\ results[j].rows >= 10

\* The runs of one invocation do the same work, whether it was asked for,
\* copied from evidence or calibrated by the first of them ("Freeze calibrated
\* work for subsequent paired configurations").
SameWork ==
    \A i, j \in DOMAIN results :
        results[i].invocation = results[j].invocation => SameWorkAs(results[i], results[j])

\* A group run repeats the work of a complete, sound plain run of one trial of mode
\* none (validate_paired_none()).
GroupPaired ==
    \A i \in DOMAIN results : results[i].mode = "group-preempt-wait" =>
        \E j \in 1 .. i - 1 :
            /\ results[j].mode = "none" /\ results[j].rows = 1
            /\ results[j].complete /\ results[j].sound
            /\ ~ results[j].graph /\ results[j].config = Plain
            /\ SameWorkAs(results[j], results[i])

\* Nothing long, no graph and no group run without the evidence it must rest on.
EvidenceFirst == Ladder /\ GraphNeedsPrimitive /\ GroupPaired

RunsOf(v) == {i \in DOMAIN results : results[i].invocation = v}

\* "No following configuration executed": in an invocation nothing runs after a
\* run whose status is not COMPLETED; what its rows say stops no invocation.
NothingAfterFailure ==
    \A i, j \in DOMAIN results :
        i < j /\ results[i].invocation = results[j].invocation => results[i].complete

\* The end of a matrix: "Requested runs completed" is written only when every
\* requested mode ran once, in the order asked for, and completed; and after an
\* interrupt, although it is turned into the exit code of whatever process group was
\* waited for (run_process_group, exit 130), no further configuration starts.
MatrixEnds ==
    [][/\ pc # "idle" /\ summary' = "completed" =>
            LET first == Len(results) - Len(options.modes) IN
            /\ RunsOf(invocation) = first + 1 .. Len(results)
            /\ \A i \in DOMAIN options.modes :
                /\ results[first + i].mode = options.modes[i]
                /\ results[first + i].complete
       /\ loop.interrupted /\ pc' = "running" => pc = "running"]_vars
=============================================================================
