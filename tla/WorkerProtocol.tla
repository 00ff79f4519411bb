----------------------------- MODULE WorkerProtocol -----------------------------
(***************************************************************************)
(* The two workers of a run: the controller INT (int_worker.cu) and the    *)
(* owner BG (bg_worker.cu), which share the one-slot command mailbox of    *)
(* protocol.h, and the owner-side recovery of scheduling state             *)
(* (recovery.h) on every way out: the normal end, an exception, a signal,  *)
(* the death of the other.                                                 *)
(*                                                                         *)
(* INT writes the command and then publishes its number; BG reads the      *)
(* number and then the command.  A controller that gives up on a command   *)
(* may reuse the slot while BG still works on it.  A wait may end by its   *)
(* time-out at any moment, a control may fail with or without its effect,  *)
(* and BG may hang in one.  What the kernels do is reduced to the flags    *)
(* both sides poll.                                                        *)
(***************************************************************************)
EXTENDS Integers, Sequences, FiniteSets

CONSTANTS
    Modes,       \* modes of the run to consider
    Trials,      \* bound: trials of a run
    MaxSignals,  \* bound: SIGTERMs sent to the process group
    MaxCrashes   \* bound: processes killed from outside

ASSUME ProtocolAssumption ==
    /\ Modes \subseteq {"none", "timeslice", "realtime-only", "realtime-restart",
                        "preempt-wait", "preempt-async", "group-bound-none",
                        "group-preempt-wait", "disable", "disable-split"}
    /\ Trials \in Nat \ {0} /\ MaxSignals \in Nat /\ MaxCrashes \in Nat

(* The scheduling properties a run may change, and who owns each.             *)
BgProperties == {"disabled", "bgTimeslice"}
IntProperties == {"realtime", "intTimeslice"}
Properties == BgProperties \cup IntProperties

VARIABLES
    mode,
    \* the mailbox, HostState
    ready, error, command, commandSeq, ackSeq, result,
    \* the telemetry both poll
    started, bgDone, intDone,
    \* INT
    ipc, position, purpose, seq, possiblyDisabled, cleanupOk, failing, reaped,
    trialFailed, observing, stopInt,
    \* BG
    bpc, seen, taken, doing, prepared, inFlight, armed, stopBg,
    \* scheduling state and its dirty flags (Recovery)
    altered, dirty,
    \* evidence on disk
    intLog, bgLog, childLog,
    \* history: the command and result INT accepted last, failed restores, bounds
    accepted, tries, signals, crashes

mailbox == <<ready, error, command, commandSeq, ackSeq, result>>
telemetry == <<started, bgDone, intDone>>
control == <<ipc, position, purpose, failing>>
local == <<seq, possiblyDisabled, cleanupOk, reaped, trialFailed, observing>>
owner == <<bpc, seen, taken, doing, prepared, inFlight, armed>>
stops == <<stopInt, stopBg>>
scheduling == <<altered, dirty, tries>>
logs == <<intLog, bgLog, childLog>>
history == <<accepted, signals, crashes>>
vars == <<mode, mailbox, telemetry, control, local, owner, stops, scheduling, logs, history>>

Group == mode \in {"group-bound-none", "group-preempt-wait"}
Disables == mode \in {"disable", "disable-split"}
Identity == mode # "none" /\ ~Group

(* ModePlan::operation and the choice of the command in the trial loop.  The  *)
(* trigger of realtime-restart is a control of INT's own, which leaves no      *)
(* state: the command is None, and a refusal one more reason to give up.       *)
TriggerOf(m) ==
    CASE m = "preempt-wait"       -> "PreemptWait"
      [] m = "preempt-async"      -> "PreemptAsync"
      [] m = "group-bound-none"   -> "GroupPrepareNoop"
      [] m = "group-preempt-wait" -> "GroupPreemptWait"
      [] m = "disable"            -> "Disable"
      [] m = "disable-split"      -> "DisableScheduling"
      [] OTHER                    -> "None"

GroupTriggers == {"GroupPrepareNoop", "GroupPreemptWait"}
Triggers == {"PreemptWait", "PreemptAsync", "Disable", "DisableScheduling", "None"}
            \cup GroupTriggers

Step(cmd, needs) == [cmd |-> cmd, needs |-> needs]

(* The commands of a trial, each with the flags INT waits for before it.      *)
Trial ==
    <<Step("Prepare", {}), Step("Launch", {}), Step(TriggerOf(mode), {"started"})>>
    \o (IF Disables THEN <<Step("Enable", {"intDone"})>> ELSE <<>>)
    \o <<Step("Drain", {"intDone", "bgDone"})>>
    \o (IF mode = "none" \/ Group THEN <<Step("CheckReuse", {})>> ELSE <<>>)

TrialLength == Len(Trial)

Setup == IF Identity THEN <<Step("ReadMode", {})>> ELSE <<>>

(* parse() admits a single trial in the group modes.                          *)
RunTrials == IF Group THEN 1 ELSE Trials

Length == Len(Setup) + RunTrials * TrialLength

StepAt(k) ==
    IF k <= Len(Setup) THEN Setup[k]
    ELSE Trial[((k - Len(Setup) - 1) % TrialLength) + 1]

Raised == {flag \in {"started", "bgDone", "intDone"} :
              \/ flag = "started" /\ started
              \/ flag = "bgDone" /\ bgDone
              \/ flag = "intDone" /\ intDone}

NoResult == [cmd |-> "none", ok |-> FALSE]

IntEnded == {"completed", "failed", "crashed"}
BgEnded == {"exit0", "exit1", "killed"}

Init ==
    /\ mode \in Modes
    /\ ready = FALSE /\ error = FALSE /\ command = "None"
    /\ commandSeq = 0 /\ ackSeq = 0 /\ result = NoResult
    /\ started = FALSE /\ bgDone = FALSE /\ intDone = FALSE
    /\ ipc = "start" /\ position = 1 /\ purpose = "script" /\ seq = 0
    /\ possiblyDisabled = FALSE /\ cleanupOk = TRUE /\ failing = FALSE
    /\ reaped = FALSE /\ trialFailed = FALSE /\ observing = FALSE /\ stopInt = FALSE
    /\ bpc = "unborn" /\ seen = 0 /\ taken = 0 /\ doing = "None"
    /\ prepared = FALSE /\ inFlight = FALSE /\ armed = FALSE /\ stopBg = FALSE
    /\ altered = {} /\ dirty = {}
    /\ intLog = {} /\ bgLog = {} /\ childLog = "none"
    /\ accepted = [asked |-> "none", did |-> "none"]
    /\ tries = [p \in Properties |-> 0]
    /\ signals = 0 /\ crashes = 0

-----------------------------------------------------------------------------
(* Controls that change scheduling state.  The dirty flag goes up first; a    *)
(* control that failed may have had its effect.                               *)
\* Variant: the flag goes up when the control was accepted.
ChangesIfAccepted(p, ok) ==
    /\ dirty' = IF ok THEN dirty \cup {p} ELSE dirty
    /\ altered' \in IF ok THEN {altered \cup {p}} ELSE {altered, altered \cup {p}}
    /\ UNCHANGED tries

Changes(p, ok) ==
    /\ dirty' = dirty \cup {p}
    /\ altered' \in IF ok THEN {altered \cup {p}} ELSE {altered, altered \cup {p}}
    /\ UNCHANGED tries

(* Recovery::restore on the owner's properties: done is the set of those whose *)
(* control is accepted; a failed one keeps its flag.                          *)
Restores(owned, done) ==
    LET todo == dirty \cap owned IN
    /\ done \subseteq todo
    /\ dirty' = dirty \ done
    /\ \E lost \in SUBSET (todo \ done) : altered' = altered \ (done \cup lost)
    /\ tries' = [p \in Properties |-> IF p \in todo THEN tries[p] + 1 ELSE tries[p]]

Restored(owned) == dirty' \cap owned = {}

Log(ok) == IF ok THEN "RESTORED" ELSE "FAILED"

-----------------------------------------------------------------------------
(* INT: start, configuration.                                                 *)
AtInt(where) == ipc' = where

\* fork and exec of the owner; a SIGTERM may come from here on.
Fork ==
    /\ ipc = "start"
    /\ bpc' = "born" /\ AtInt("awaitReady")
    /\ UNCHANGED <<mode, mailbox, telemetry, position, purpose, failing, local, seen,
                   taken, doing, prepared, inFlight, armed, stops, scheduling, logs, history>>

SeesReady ==
    /\ ipc = "awaitReady" /\ ready
    /\ AtInt("configure")
    /\ UNCHANGED <<mode, mailbox, telemetry, position, purpose, failing, local, owner,
                   stops, scheduling, logs, history>>

\* The property INT changes in its own process: SET_TIMESLICE or MAKE_REALTIME.
OwnProperty ==
    IF mode = "timeslice" THEN {"intTimeslice"}
    ELSE IF mode \in {"realtime-only", "realtime-restart"} THEN {"realtime"} ELSE {}

ConfigureInt ==
    /\ ipc = "configure"
    /\ \/ OwnProperty = {} /\ AtInt("write") /\ UNCHANGED scheduling
       \/ \E p \in OwnProperty, ok \in BOOLEAN :
             Changes(p, ok) /\ AtInt(IF ok THEN "write" ELSE "raise")
    /\ UNCHANGED <<mode, mailbox, telemetry, position, purpose, failing, local, owner,
                   stops, logs, history>>

(* Child::command in three steps: checks and the write of the slot, the       *)
(* publication of its number, the wait for the acknowledgement.               *)
Asked ==
    CASE purpose = "script" -> StepAt(position).cmd
      [] purpose = "recovery" -> "Enable"
      [] purpose = "exit" -> "Exit"

MaySend == ~error /\ ~stopInt

\* Variant: the observer thread is started before BG has reset its telemetry.
StartsObserverEarly == purpose = "script" /\ Asked \in {"Prepare", "Launch"}

StartsObserver == purpose = "script" /\ Asked = "Launch"

\* The trial resets INT's own flags first and starts its observer after Prepare.
WriteCommand ==
    /\ ipc = "write" /\ MaySend
    /\ purpose = "script" => position <= Length /\ StepAt(position).needs \subseteq Raised
    /\ command' = Asked
    /\ intDone' = (intDone /\ Asked # "Prepare")
    /\ possiblyDisabled' = (possiblyDisabled
          \/ (purpose = "script" /\ Asked \in {"Disable", "DisableScheduling"}))
    /\ observing' = (observing \/ StartsObserver)
    /\ AtInt("post")
    /\ UNCHANGED <<mode, ready, error, commandSeq, ackSeq, result, started, bgDone,
                   position, purpose, failing, seq, cleanupOk, reaped, trialFailed,
                   owner, stops, scheduling, logs, history>>

PostCommand ==
    /\ ipc = "post"
    /\ seq' = seq + 1 /\ commandSeq' = seq + 1
    /\ AtInt("await")
    /\ UNCHANGED <<mode, ready, error, command, ackSeq, result, telemetry, position,
                   purpose, failing, possiblyDisabled, cleanupOk, reaped, trialFailed,
                   observing, owner, stops, scheduling, logs, history>>

\* Variant: any acknowledgement will do.
AckOfAny == ackSeq > 0

AckOfMine == ackSeq = seq

\* What the controller makes of the result: the trial goes on, or it throws.
TriggerRejected ==
    purpose = "script" /\ Asked \in Triggers \ {"None"} /\ ~result.ok /\ ~Group

\* Noted and reported at the end, unless the target had completed; the no-op that
\* is skipped by design counts as accepted.
GroupTriggerFailed == purpose = "script" /\ Asked \in GroupTriggers /\ ~result.ok

EnableRefused == purpose = "script" /\ Asked = "Enable" /\ ~result.ok

Accept ==
    /\ ipc = "await" /\ AckOfMine
    /\ accepted' = [asked |-> Asked, did |-> result.cmd]
    /\ possiblyDisabled' = (possiblyDisabled /\ ~(Asked = "Enable" /\ result.ok))
    /\ cleanupOk' = IF purpose = "recovery" THEN result.ok ELSE cleanupOk
    /\ trialFailed' \in {trialFailed, trialFailed \/ GroupTriggerFailed}
    /\ observing' = (observing /\ Asked # "Drain")
    /\ AtInt(CASE purpose = "recovery" -> "restore"
               [] purpose = "exit" -> "reap"
               [] TriggerRejected \/ EnableRefused -> "raise"
               [] OTHER -> IF position = Length THEN "cleanup" ELSE "write")
    /\ position' = IF purpose = "script" /\ position < Length THEN position + 1 ELSE position
    /\ UNCHANGED <<mode, mailbox, telemetry, purpose, failing, seq, reaped, owner,
                   stops, scheduling, logs, signals, crashes>>

(* What ends a wait, or a step, otherwise: the peer's error, a signal, a      *)
(* time-out, a failing call, and BG found dead.  During cleanup the exception *)
(* is caught and written down; elsewhere it ends the run.                     *)
Thrown ==
    IF purpose = "recovery" THEN cleanupOk' = FALSE /\ AtInt("restore")
    ELSE AtInt("raise") /\ UNCHANGED cleanupOk

\* Variant: the wait for an acknowledgement has no deadline.
GivesUpUnlessAwaiting ==
    /\ ipc \in {"awaitReady", "configure", "write", "await"}
    /\ ipc = "await" => error \/ stopInt
    /\ Thrown
    /\ UNCHANGED <<mode, mailbox, telemetry, position, purpose, failing, seq,
                   possiblyDisabled, reaped, trialFailed, observing, owner, stops,
                   scheduling, logs, history>>

\* After the last trial: its correctness checks may throw as well.
GivesUp ==
    /\ ipc \in {"awaitReady", "configure", "write", "await"} \/ (ipc = "cleanup" /\ ~failing)
    /\ Thrown
    /\ UNCHANGED <<mode, mailbox, telemetry, position, purpose, failing, seq,
                   possiblyDisabled, reaped, trialFailed, observing, owner, stops,
                   scheduling, logs, history>>

FindsBgDead ==
    /\ ipc = "await" /\ bpc \in BgEnded
    /\ reaped' = TRUE
    /\ Thrown
    /\ UNCHANGED <<mode, mailbox, telemetry, position, purpose, failing, seq,
                   possiblyDisabled, trialFailed, observing, owner, stops, scheduling,
                   logs, history>>

-----------------------------------------------------------------------------
(* INT: the ways out.  Both the normal end and the handler run cleanup.       *)
Raise ==
    /\ ipc = "raise"
    /\ failing' = TRUE /\ observing' = FALSE
    /\ AtInt("cleanup")
    /\ UNCHANGED <<mode, mailbox, telemetry, position, purpose, seq, possiblyDisabled,
                   cleanupOk, reaped, trialFailed, owner, stops, scheduling, logs, history>>

\* A child that is not there (pid <= 0) is asked nothing, and nothing is noted.
Cleanup ==
    /\ ipc = "cleanup"
    /\ stopInt' = FALSE
    /\ cleanupOk' = TRUE
    /\ IF possiblyDisabled /\ ~reaped
       THEN purpose' = "recovery" /\ AtInt("write")
       ELSE UNCHANGED purpose /\ AtInt("restore")
    /\ UNCHANGED <<mode, mailbox, telemetry, position, failing, seq, possiblyDisabled,
                   reaped, trialFailed, observing, owner, stopBg, scheduling, logs, history>>

RestoreInt ==
    /\ ipc = "restore"
    /\ \E done \in SUBSET IntProperties : Restores(IntProperties, done)
    /\ LET ok == cleanupOk /\ Restored(IntProperties) IN
       /\ intLog' = intLog \cup {Log(ok)}
       /\ IF failing THEN AtInt("stop") /\ UNCHANGED purpose
          ELSE IF ok THEN AtInt("write") /\ purpose' = "exit"
          ELSE AtInt("raise") /\ UNCHANGED purpose
    /\ UNCHANGED <<mode, mailbox, telemetry, position, failing, local, owner, stops,
                   bgLog, childLog, history>>

\* Variant: the exit status of the owner is not looked at.
FinishAnyExit ==
    /\ ipc = "reap" /\ bpc \in BgEnded
    /\ reaped' = TRUE
    /\ \/ ~trialFailed /\ AtInt("completed")
       \/ AtInt("raise")
    /\ UNCHANGED <<mode, mailbox, telemetry, position, purpose, failing, seq,
                   possiblyDisabled, cleanupOk, trialFailed, observing, owner, stops,
                   scheduling, logs, history>>

\* Child::finish and what follows: INT's own shutdown, which may fail, and the
\* report of a trial whose trigger had failed.
Finish ==
    /\ ipc = "reap" /\ bpc \in BgEnded
    /\ reaped' = TRUE
    /\ \/ bpc = "exit0" /\ ~trialFailed /\ AtInt("completed")
       \/ AtInt("raise")
    /\ UNCHANGED <<mode, mailbox, telemetry, position, purpose, failing, seq,
                   possiblyDisabled, cleanupOk, trialFailed, observing, owner, stops,
                   scheduling, logs, history>>

FinishTimeout ==
    /\ ipc = "reap"
    /\ AtInt("raise")
    /\ UNCHANGED <<mode, mailbox, telemetry, position, purpose, failing, local, owner,
                   stops, scheduling, logs, history>>

\* SIGTERM to BG: noted by its handler, deadly before that is installed.
TerminateBg ==
    /\ stopBg' = (stopBg \/ armed)
    /\ bpc' = IF bpc = "born" THEN "killed" ELSE bpc

(* Child::stop: SIGTERM, a bounded wait, SIGKILL.                             *)
StopChild ==
    /\ ipc = "stop"
    /\ IF reaped THEN AtInt("failed") /\ UNCHANGED <<bpc, stopBg>>
       ELSE AtInt("terminate") /\ TerminateBg
    /\ UNCHANGED <<mode, mailbox, telemetry, position, purpose, failing, local, seen, taken,
                   doing, prepared, inFlight, armed, stopInt, scheduling, logs, history>>

ChildStopped ==
    /\ ipc = "terminate" /\ bpc \in BgEnded
    /\ reaped' = TRUE
    /\ childLog' = IF bpc = "exit0" THEN "clean" ELSE "unconfirmed"
    /\ AtInt("failed")
    /\ UNCHANGED <<mode, mailbox, telemetry, position, purpose, failing, seq,
                   possiblyDisabled, cleanupOk, trialFailed, observing, owner, stops,
                   scheduling, intLog, bgLog, history>>

KillChild ==
    /\ ipc = "terminate" /\ bpc \notin BgEnded
    /\ bpc' = "killed" /\ childLog' = "unconfirmed"
    /\ AtInt("failed")
    /\ UNCHANGED <<mode, mailbox, telemetry, position, purpose, failing, local, seen,
                   taken, doing, prepared, inFlight, armed, stops, scheduling, intLog,
                   bgLog, history>>

-----------------------------------------------------------------------------
(* BG: start.  Handlers and the parent-death signal are set up before anything *)
(* can be altered; a parent gone before that is noticed by getppid.           *)
AtBg(where) == bpc' = where

Arm ==
    /\ bpc = "born"
    /\ armed' = TRUE
    /\ AtBg(IF ipc = "crashed" THEN "raise" ELSE "init")
    /\ UNCHANGED <<mode, mailbox, telemetry, control, local, seen, taken, doing,
                   prepared, inFlight, stops, scheduling, logs, history>>

InitBg ==
    /\ bpc = "init"
    /\ \/ AtBg("raise") /\ UNCHANGED <<ready, scheduling>>
       \/ mode # "timeslice" /\ AtBg("loop") /\ ready' = TRUE /\ UNCHANGED scheduling
       \/ /\ mode = "timeslice"
          /\ \E ok \in BOOLEAN :
                /\ Changes("bgTimeslice", ok)
                /\ ready' = ok
                /\ AtBg(IF ok THEN "loop" ELSE "raise")
    /\ UNCHANGED <<mode, error, command, commandSeq, ackSeq, result, telemetry, control,
                   local, seen, taken, doing, prepared, inFlight, armed, stops, logs, history>>

(* The command loop: number, then command, then its work, then the             *)
(* acknowledgement.  Any step of it may throw.                                *)
TakeCommand ==
    /\ bpc = "loop" /\ commandSeq # seen
    /\ taken' = commandSeq
    /\ result' = NoResult
    /\ AtBg("taken")
    /\ UNCHANGED <<mode, ready, error, command, commandSeq, ackSeq, telemetry, control,
                   local, seen, doing, prepared, inFlight, armed, stops, scheduling, logs,
                   history>>

\* check_stop, and the deadline after which the controller is taken for gone.
LoopEnds ==
    /\ bpc = "loop"
    /\ stopBg \/ commandSeq = seen
    /\ AtBg("raise")
    /\ UNCHANGED <<mode, mailbox, telemetry, control, local, seen, taken, doing, prepared,
                   inFlight, armed, stops, scheduling, logs, history>>

ReadCommand ==
    /\ bpc = "taken"
    /\ doing' = command
    /\ AtBg("doing")
    /\ UNCHANGED <<mode, mailbox, telemetry, control, local, seen, taken, prepared,
                   inFlight, armed, stops, scheduling, logs, history>>

\* What a command requires of the owner's state; it throws otherwise.
Accepts(cmd) ==
    CASE cmd \in {"Prepare", "CheckReuse"} -> ~inFlight
      [] cmd = "Launch" -> prepared
      [] cmd \in GroupTriggers -> inFlight /\ started
      [] OTHER -> TRUE

DoTelemetry ==
    /\ prepared' = CASE doing = "Prepare" -> TRUE [] doing = "Launch" -> FALSE
                     [] OTHER -> prepared
    /\ inFlight' = CASE doing = "Launch" -> TRUE [] doing = "Drain" -> FALSE
                     [] OTHER -> inFlight
    /\ started' = (started /\ doing # "Prepare")
    /\ bgDone' = (bgDone /\ doing # "Prepare")

\* A disable may be refused with its effect; an accepted enable clears the flag.
DoScheduling(ok) ==
    CASE doing \in {"Disable", "DisableScheduling"} ->
            \E disableOk \in BOOLEAN :
                /\ ok => disableOk
                /\ disableOk /\ doing = "Disable" => ok
                /\ Changes("disabled", disableOk)
      [] doing = "Enable" ->
            /\ dirty' = IF ok THEN dirty \ {"disabled"} ELSE dirty
            /\ altered' \in IF ok THEN {altered \ {"disabled"}}
                            ELSE {altered, altered \ {"disabled"}}
            /\ UNCHANGED tries
      [] OTHER -> UNCHANGED scheduling

DoCommand ==
    /\ bpc = "doing"
    /\ Accepts(doing)
    /\ \E ok \in BOOLEAN :
          /\ doing \notin (Triggers \ {"None"}) \cup {"Enable"} => ok
          /\ result' = [cmd |-> doing, ok |-> ok]
          /\ DoScheduling(ok)
    /\ DoTelemetry
    /\ AtBg("done")
    /\ UNCHANGED <<mode, ready, error, command, commandSeq, ackSeq, intDone, control, local,
                   seen, taken, doing, armed, stops, logs, history>>

CommandThrows ==
    /\ bpc = "doing"
    /\ AtBg("raise")
    /\ UNCHANGED <<mode, mailbox, telemetry, control, local, seen, taken, doing, prepared,
                   inFlight, armed, stops, scheduling, logs, history>>

\* Variant: the number acknowledged is read from the mailbox again.
AcknowledgeLatest ==
    /\ bpc = "done"
    /\ seen' = commandSeq /\ ackSeq' = commandSeq
    /\ AtBg(IF doing = "Exit" THEN "cleanup" ELSE "loop")
    /\ UNCHANGED <<mode, ready, error, command, commandSeq, result, telemetry, control,
                   local, taken, doing, prepared, inFlight, armed, stops, scheduling, logs,
                   history>>

Acknowledge ==
    /\ bpc = "done"
    /\ seen' = taken /\ ackSeq' = taken
    /\ AtBg(IF doing = "Exit" THEN "cleanup" ELSE "loop")
    /\ UNCHANGED <<mode, ready, error, command, commandSeq, result, telemetry, control,
                   local, taken, doing, prepared, inFlight, armed, stops, scheduling, logs,
                   history>>

(* The ways out: cleanup after Exit, and cleanup in the handler.              *)
RestoreBg ==
    /\ stopBg' = FALSE
    /\ \E done \in SUBSET BgProperties : Restores(BgProperties, done)
    /\ bgLog' = bgLog \cup {Log(Restored(BgProperties))}
    /\ UNCHANGED <<mode, mailbox, telemetry, control, local, seen, taken, doing, prepared,
                   inFlight, armed, stopInt, intLog, childLog, history>>

CleanupBg ==
    /\ bpc = "cleanup"
    /\ RestoreBg
    /\ AtBg(IF Restored(BgProperties) THEN "shutdown" ELSE "raise")

ShutdownBg ==
    /\ bpc = "shutdown"
    /\ AtBg("exit0") \/ AtBg("raise")
    /\ UNCHANGED <<mode, mailbox, telemetry, control, local, seen, taken, doing, prepared,
                   inFlight, armed, stops, scheduling, logs, history>>

ReportError ==
    /\ bpc = "raise"
    /\ error' = TRUE
    /\ AtBg("handler")
    /\ UNCHANGED <<mode, ready, command, commandSeq, ackSeq, result, telemetry, control,
                   local, seen, taken, doing, prepared, inFlight, armed, stops, scheduling,
                   logs, history>>

HandlerBg ==
    /\ bpc = "handler"
    /\ RestoreBg
    /\ AtBg("exit1")

-----------------------------------------------------------------------------
(* The surroundings: kernels on the GPU, signals, processes killed.           *)
IntLaunched ==
    observing /\ Asked # "Launch" /\ (Asked \in Triggers => ipc # "write")

KernelsProgress ==
    /\ \/ inFlight /\ "disabled" \notin altered /\ started' = TRUE /\ UNCHANGED <<bgDone, intDone>>
       \/ inFlight /\ started /\ "disabled" \notin altered /\ bgDone' = TRUE /\ UNCHANGED <<started, intDone>>
       \/ IntLaunched /\ intDone' = TRUE /\ UNCHANGED <<started, bgDone>>
    /\ UNCHANGED <<mode, mailbox, control, local, owner, stops, scheduling, logs, history>>

\* The runner terminates the process group.
SignalGroup ==
    /\ signals < MaxSignals /\ signals' = signals + 1
    /\ ipc \notin IntEnded
    /\ stopInt' = TRUE
    /\ TerminateBg
    /\ UNCHANGED <<mode, mailbox, telemetry, control, local, seen, taken, doing, prepared,
                   inFlight, armed, scheduling, logs, accepted, crashes>>

\* INT is killed; an owner that is armed receives its parent-death signal.
CrashInt ==
    /\ crashes < MaxCrashes /\ crashes' = crashes + 1
    /\ ipc \notin IntEnded
    /\ AtInt("crashed")
    /\ stopBg' = (stopBg \/ armed)
    /\ UNCHANGED <<mode, mailbox, telemetry, position, purpose, failing, local, owner,
                   stopInt, scheduling, logs, accepted, signals>>

CrashBg ==
    /\ crashes < MaxCrashes /\ crashes' = crashes + 1
    /\ bpc \notin BgEnded \cup {"unborn"}
    /\ AtBg("killed")
    /\ UNCHANGED <<mode, mailbox, telemetry, control, local, seen, taken, doing, prepared,
                   inFlight, armed, stops, scheduling, logs, accepted, signals>>

IntStep ==
    \/ Fork \/ SeesReady \/ ConfigureInt \/ WriteCommand \/ PostCommand \/ Accept
    \/ GivesUp \/ FindsBgDead \/ Raise \/ Cleanup \/ RestoreInt \/ Finish
    \/ FinishTimeout \/ StopChild \/ ChildStopped \/ KillChild

BgStep ==
    \/ Arm \/ InitBg \/ TakeCommand \/ LoopEnds \/ ReadCommand \/ DoCommand
    \/ CommandThrows \/ Acknowledge \/ CleanupBg \/ ShutdownBg \/ ReportError \/ HandlerBg

Next == IntStep \/ BgStep \/ KernelsProgress \/ SignalGroup \/ CrashInt \/ CrashBg

Spec == Init /\ [][Next]_vars

\* Every wait of the controller has a deadline; the owner may hang in a control.
FairSpec == Spec /\ WF_vars(IntStep)

-----------------------------------------------------------------------------
Commands == {StepAt(k).cmd : k \in 1 .. Length} \cup {"Enable", "Exit", "None"}

\* The types of mailbox, workers and evidence; a number is published before it is
\* taken, taken before it is acknowledged, and a restore runs at most twice.
ProtocolTypeOK ==
    /\ mode \in Modes
    /\ command \in Commands /\ doing \in Commands
    /\ result \in [cmd : Commands \cup {"none"}, ok : BOOLEAN]
    /\ 0 <= ackSeq /\ ackSeq <= taken /\ taken <= commandSeq /\ commandSeq = seq
    /\ seen = ackSeq
    /\ position \in 1 .. Length
    /\ purpose \in {"script", "recovery", "exit"}
    /\ altered \subseteq Properties /\ dirty \subseteq Properties
    /\ intLog \subseteq {"RESTORED", "FAILED"} /\ bgLog \subseteq {"RESTORED", "FAILED"}
    /\ tries \in [Properties -> 0 .. 2]

\* The result INT takes for the answer to its command is that of its own command,
\* although the slot has no number of its own and is reused after a time-out while
\* BG may be anywhere in the earlier command.
ResultOfOwnCommand == accepted.asked = accepted.did

Confirmed(log) == "RESTORED" \in log /\ "FAILED" \notin log

\* When the recovery file of a worker says CONFIGURATION_RESTORED and never the
\* opposite (what run_paired.py:107 accepts), nothing that worker may have changed
\* is left changed, whichever of its controls failed half-way.
EvidenceOfRestoration ==
    /\ Confirmed(bgLog) => altered \cap BgProperties = {}
    /\ Confirmed(intLog) => altered \cap IntProperties = {}

\* A run that reports COMPLETED has lost its owner to a clean exit and left no
\* scheduling property changed by either worker.
CompletedIsClean ==
    ipc = "completed" =>
        /\ bpc = "exit0" /\ altered = {}
        /\ Confirmed(intLog) /\ Confirmed(bgLog)

\* A controller that ends by itself leaves no owner behind, even one that hangs
\* in a control: SIGTERM, a bounded wait, SIGKILL.
NoOrphanOwner == ipc \in {"completed", "failed"} => bpc \in BgEnded \cup {"unborn"}

\* A run ends clean: no owner outlives its controller, and a run that says COMPLETED
\* has nothing left to restore.
EndsClean == CompletedIsClean /\ NoOrphanOwner

\* BG never resets the telemetry while INT's observer reads it ("reset before
\* observer, never concurrently", int_worker.cu:298), in whatever trial.
ResetNeverObserved == bpc = "doing" /\ doing = "Prepare" => ~observing

\* The controller always ends: hung, dead or silent owners run into its deadlines.
ControllerEnds == <>(ipc \in IntEnded)

\* measurement.md:67: a recovery that is not confirmed must not be written down as
\* a success.  INT writes CONFIGURATION_RESTORED only if it no longer takes the
\* owner's channels for possibly disabled.
ClaimIsConfirmed == "RESTORED" \in intLog => ~possiblyDisabled
=============================================================================
