------------------------ MODULE WorkerProtocol_proofs ------------------------
(***************************************************************************)
(* Safety of the controller and the owner, for any number of trials,       *)
(* signals and deaths: the answer accepted is the answer to the command    *)
(* asked, evidence of restoration is true, a run reported as completed is  *)
(* clean, no owner is left behind, and no reset is seen by an observer.    *)
(*                                                                         *)
(* Three invariants.  MailboxInv follows a command through the slot: while *)
(* the controller waits, only its own number can lead the owner to an      *)
(* acknowledgement that counts.  RecoveryInv ties what may be altered to   *)
(* the dirty flags, the flags to the evidence, and the evidence to where   *)
(* both programs are.  ObserverInv places the observer within its trial;   *)
(* with TypesInv the three give the type invariant.                        *)
(***************************************************************************)
EXTENDS WorkerProtocol, TLAPS

MailboxInv ==
    /\ seq \in Nat /\ ackSeq \in Nat /\ taken \in Nat
    /\ commandSeq = seq /\ seen = ackSeq /\ ackSeq <= taken /\ taken <= seq
    /\ bpc \in {"taken", "doing", "done"} => ackSeq < taken
    /\ ipc \in {"post", "await"} => command = Asked
    /\ ipc = "await" =>
          /\ bpc \in {"doing", "done"} /\ taken = seq => doing = command
          /\ bpc = "done" /\ taken = seq => result.cmd = doing
          /\ ackSeq = seq => result.cmd = command
    /\ accepted.asked = accepted.did

(* The step leaves the slot, the numbers and the question alone, and neither  *)
(* side enters the part of its loop that uses them.                           *)
MailboxKept ==
    /\ UNCHANGED <<mode, position, purpose, seq, ackSeq, taken, commandSeq, seen, command,
                   doing, result, accepted>>
    /\ ipc' \in {"post", "await"} => ipc' = ipc
    /\ bpc' \in {"taken", "doing", "done"} => bpc' = bpc

LEMMA AskedKept ==
    ASSUME UNCHANGED <<mode, position, purpose>>
    PROVE  Asked' = Asked
BY DEF Asked, StepAt, Setup, Trial, TrialLength, Step, TriggerOf, Identity, Disables, Group

LEMMA KeptPreserves == ASSUME MailboxInv, MailboxKept PROVE MailboxInv'
<1>1. Asked' = Asked
  BY AskedKept DEF MailboxKept
<1> QED BY <1>1 DEF MailboxInv, MailboxKept

(* The ways of the controller that neither ask nor take an answer.            *)
LEMMA IntKeeps ==
    ASSUME \/ Fork \/ SeesReady \/ ConfigureInt \/ GivesUp \/ FindsBgDead \/ Raise
           \/ Finish \/ FinishTimeout \/ StopChild \/ ChildStopped \/ KillChild
    PROVE  MailboxKept
BY DEF Fork, SeesReady, ConfigureInt, GivesUp, FindsBgDead, Raise, Finish, FinishTimeout,
   StopChild, ChildStopped, KillChild, MailboxKept, AtInt, Thrown, TerminateBg, mailbox,
   telemetry, control, local, owner, stops, scheduling, logs, history

LEMMA BgKeeps ==
    ASSUME \/ Arm \/ InitBg \/ LoopEnds \/ CommandThrows \/ CleanupBg \/ ShutdownBg
           \/ ReportError \/ HandlerBg
    PROVE  MailboxKept
BY DEF Arm, InitBg, LoopEnds, CommandThrows, CleanupBg, ShutdownBg, ReportError, HandlerBg,
   RestoreBg, MailboxKept, AtBg, mailbox, telemetry, control, local, owner, stops,
   scheduling, logs, history

LEMMA SurroundingsKeep ==
    ASSUME KernelsProgress \/ SignalGroup \/ CrashInt \/ CrashBg
    PROVE  MailboxKept
BY DEF KernelsProgress, SignalGroup, CrashInt, CrashBg, TerminateBg, MailboxKept, AtInt, AtBg,
   mailbox, telemetry, control, local, owner, stops, scheduling, logs, history

-----------------------------------------------------------------------------
(* The steps that use the slot, the controller's first.                       *)
LEMMA WritePreserves == ASSUME MailboxInv, WriteCommand PROVE MailboxInv'
<1>1. Asked' = Asked
  BY AskedKept DEF WriteCommand
<1>2. /\ ipc' = "post" /\ command' = Asked
      /\ UNCHANGED <<seq, ackSeq, taken, commandSeq, seen, bpc, accepted>>
  BY DEF WriteCommand, AtInt, owner, history
<1> QED BY <1>1, <1>2 DEF MailboxInv

LEMMA PostPreserves == ASSUME MailboxInv, PostCommand PROVE MailboxInv'
<1>1. Asked' = Asked
  BY AskedKept DEF PostCommand
<1>2. /\ ipc = "post" /\ ipc' = "await" /\ seq' = seq + 1 /\ commandSeq' = seq + 1
      /\ UNCHANGED <<command, ackSeq, taken, seen, bpc, doing, result, accepted>>
  BY DEF PostCommand, AtInt, owner, history
<1> QED BY <1>1, <1>2 DEF MailboxInv

LEMMA AcceptPreserves == ASSUME MailboxInv, Accept PROVE MailboxInv'
<1>1. accepted'.asked = accepted'.did
  BY DEF MailboxInv, Accept, AckOfMine
<1>2. ipc' \notin {"post", "await"}
  BY DEF Accept, AtInt
<1>3. UNCHANGED <<seq, ackSeq, taken, commandSeq, seen, bpc>>
  BY DEF Accept, mailbox, owner
<1> QED BY <1>1, <1>2, <1>3 DEF MailboxInv

LEMMA CleanupKeeps == ASSUME MailboxInv, Cleanup \/ RestoreInt PROVE MailboxInv'
<1>1. ipc' \notin {"post", "await"}
  BY DEF Cleanup, RestoreInt, AtInt
<1>2. UNCHANGED <<seq, ackSeq, taken, commandSeq, seen, bpc, accepted>>
  BY DEF Cleanup, RestoreInt, mailbox, local, owner, history
<1> QED BY <1>1, <1>2 DEF MailboxInv

LEMMA TakePreserves == ASSUME MailboxInv, TakeCommand PROVE MailboxInv'
<1>1. Asked' = Asked
  BY AskedKept DEF TakeCommand, control
<1> QED BY <1>1 DEF MailboxInv, TakeCommand, AtBg, control, local, history

LEMMA ReadPreserves == ASSUME MailboxInv, ReadCommand PROVE MailboxInv'
<1>1. Asked' = Asked
  BY AskedKept DEF ReadCommand, control
<1> QED BY <1>1 DEF MailboxInv, ReadCommand, AtBg, mailbox, control, local, history

LEMMA DoPreserves == ASSUME MailboxInv, DoCommand PROVE MailboxInv'
<1>1. Asked' = Asked
  BY AskedKept DEF DoCommand, control
<1>2. result'.cmd = doing /\ bpc = "doing" /\ bpc' = "done"
  BY DEF DoCommand, AtBg
<1>3. UNCHANGED <<ipc, seq, ackSeq, taken, commandSeq, seen, command, doing, accepted>>
  BY DEF DoCommand, control, local, history
<1> QED BY <1>1, <1>2, <1>3 DEF MailboxInv

LEMMA AcknowledgePreserves == ASSUME MailboxInv, Acknowledge PROVE MailboxInv'
<1>1. Asked' = Asked
  BY AskedKept DEF Acknowledge, control
<1> QED BY <1>1 DEF MailboxInv, Acknowledge, AtBg, control, local, history

LEMMA MailboxInvariance == Spec => []MailboxInv
<1>1. Init => MailboxInv
  BY DEF Init, MailboxInv
<1>2. MailboxInv /\ [Next]_vars => MailboxInv'
  <2> SUFFICES ASSUME MailboxInv, [Next]_vars PROVE MailboxInv'
    OBVIOUS
  <2>1. CASE IntStep
    BY <2>1, IntKeeps, KeptPreserves, WritePreserves, PostPreserves, AcceptPreserves,
       CleanupKeeps DEF IntStep
  <2>2. CASE BgStep
    BY <2>2, BgKeeps, KeptPreserves, TakePreserves, ReadPreserves, DoPreserves,
       AcknowledgePreserves DEF BgStep
  <2>3. CASE KernelsProgress \/ SignalGroup \/ CrashInt \/ CrashBg
    BY <2>3, SurroundingsKeep, KeptPreserves
  <2>4. CASE UNCHANGED vars
    <3>1. MailboxKept
      BY <2>4 DEF MailboxKept, vars, mailbox, control, local, owner, history
    <3> QED BY <3>1, KeptPreserves
  <2> QED BY <2>1, <2>2, <2>3, <2>4 DEF Next
<1> QED BY <1>1, <1>2, PTL DEF Spec

(* The result the controller accepts is the result of the command it asked    *)
(* for, however often it gave up before and reused the slot.                  *)
THEOREM AnswersMatch == Spec => []ResultOfOwnCommand
<1>1. MailboxInv => ResultOfOwnCommand
  BY DEF MailboxInv, ResultOfOwnCommand
<1> QED BY <1>1, MailboxInvariance, PTL

-----------------------------------------------------------------------------
(* Recovery.  What may be altered is flagged; a flag of a worker comes down   *)
(* only in its own restore or by an accepted enable, and goes up only before  *)
(* the worker has written any evidence.                                       *)
DirtyOK == altered \subseteq dirty /\ dirty \subseteq Properties

BgOK ==
    /\ bgLog # {} => bpc \in {"shutdown", "raise", "handler"} \cup BgEnded
    /\ Confirmed(bgLog) => dirty \cap BgProperties = {}
    /\ bpc \in {"shutdown", "exit0"} => bgLog = {"RESTORED"}

IntOK ==
    /\ failing \in BOOLEAN
    /\ ipc \in {"start", "awaitReady", "configure"} => intLog = {} /\ purpose # "exit"
    /\ Confirmed(intLog) => dirty \cap IntProperties = {}
    /\ ~ failing /\ purpose = "exit" => intLog = {"RESTORED"}
    /\ ~ failing /\ purpose # "exit" /\ ipc \notin {"raise", "crashed"} => intLog = {}
    /\ ~ failing /\ ipc \in {"cleanup", "restore"} => purpose # "exit"
    /\ purpose = "exit" /\ ipc \in {"write", "post", "await", "reap", "completed"} => ~ failing
    /\ ipc \in {"reap", "completed"} => purpose = "exit"

ProcessesOK ==
    /\ reaped \in BOOLEAN
    /\ reaped => bpc \in BgEnded
    /\ ipc = "start" => bpc = "unborn" /\ ~ reaped
    /\ ipc \in {"completed", "failed"} => bpc \in BgEnded
    /\ ipc = "completed" => bpc = "exit0"

RecoveryInv == DirtyOK /\ BgOK /\ IntOK /\ ProcessesOK

(* What a control does to the flags.                                          *)
LEMMA ChangesFlags ==
    ASSUME DirtyOK, NEW p \in Properties, NEW ok, Changes(p, ok)
    PROVE  DirtyOK' /\ dirty' = dirty \cup {p}
BY DEF DirtyOK, Changes

LEMMA RestoresFlags ==
    ASSUME DirtyOK, NEW owned, \E done \in SUBSET owned : Restores(owned, done)
    PROVE  DirtyOK' /\ dirty' \subseteq dirty
<1>1. PICK done \in SUBSET owned : Restores(owned, done)
  OBVIOUS
<1>2. dirty' = dirty \ done
      /\ \E lost \in SUBSET ((dirty \cap owned) \ done) : altered' = altered \ (done \cup lost)
  BY <1>1 DEF Restores
<1> QED BY <1>2 DEF DirtyOK

(* Steps that leave scheduling state and evidence alone.                      *)
Uneventful == UNCHANGED <<altered, dirty, intLog, bgLog>>

LEMMA BgUneventful ==
    ASSUME RecoveryInv,
           Arm \/ TakeCommand \/ LoopEnds \/ ReadCommand \/ CommandThrows \/ Acknowledge
           \/ ShutdownBg \/ ReportError
    PROVE  RecoveryInv'
<1>1. Uneventful /\ UNCHANGED <<ipc, purpose, failing, reaped>>
  BY DEF Arm, TakeCommand, LoopEnds, ReadCommand, CommandThrows, Acknowledge,
     ShutdownBg, ReportError, Uneventful, scheduling, logs, control, local
<1>2. bpc \in {"born", "loop", "taken", "doing", "done", "shutdown", "raise"}
  BY DEF Arm, TakeCommand, LoopEnds, ReadCommand, CommandThrows, Acknowledge,
     ShutdownBg, ReportError
<1>3. /\ bpc = "shutdown" => bpc' \in {"exit0", "raise"}
      /\ bpc = "raise" => bpc' = "handler"
      /\ bpc \notin {"shutdown", "raise"} => bpc' \notin {"shutdown", "exit0"}
  BY DEF Arm, TakeCommand, LoopEnds, ReadCommand, CommandThrows, Acknowledge,
     ShutdownBg, ReportError, AtBg
<1>4. DirtyOK' /\ IntOK' /\ Confirmed(bgLog') = Confirmed(bgLog)
  BY <1>1 DEF RecoveryInv, DirtyOK, IntOK, Uneventful, Confirmed
<1>5. BgOK'
  BY <1>1, <1>2, <1>3, <1>4 DEF RecoveryInv, BgOK, Uneventful, BgEnded
<1>6. ProcessesOK'
  BY <1>1, <1>2 DEF RecoveryInv, ProcessesOK, BgEnded
<1> QED BY <1>4, <1>5, <1>6 DEF RecoveryInv

(* The owner's own controls: when it starts, and in a command.                *)
LEMMA BgChangesPreserve == ASSUME RecoveryInv, InitBg \/ DoCommand PROVE RecoveryInv'
<1>1. /\ UNCHANGED <<ipc, purpose, failing, reaped, intLog, bgLog>>
      /\ bpc \in {"init", "doing"} /\ bpc' \in {"raise", "loop", "done"}
  BY DEF InitBg, DoCommand, AtBg, control, local, logs
<1>2. bgLog = {}
  BY <1>1 DEF RecoveryInv, BgOK, BgEnded
<1>3. DirtyOK' /\ dirty' \cap IntProperties = dirty \cap IntProperties
  <2>1. \A p \in BgProperties, ok \in BOOLEAN : Changes(p, ok) =>
           DirtyOK' /\ dirty' \cap IntProperties = dirty \cap IntProperties
    BY ChangesFlags DEF RecoveryInv, Properties, BgProperties, IntProperties
  <2>2. CASE InitBg
    <3>1. UNCHANGED scheduling \/ \E ok \in BOOLEAN : Changes("bgTimeslice", ok)
      BY <2>2 DEF InitBg
    <3> QED BY <2>1, <3>1 DEF BgProperties, scheduling, RecoveryInv, DirtyOK
  <2>3. CASE DoCommand
    <3>1. PICK ok \in BOOLEAN : DoScheduling(ok)
      BY <2>3 DEF DoCommand
    <3>2. CASE doing \in {"Disable", "DisableScheduling"}
      BY <2>1, <3>1, <3>2 DEF DoScheduling, BgProperties
    <3>3. CASE doing = "Enable"
      <4>1. /\ dirty' = IF ok THEN dirty \ {"disabled"} ELSE dirty
            /\ altered' \in IF ok THEN {altered \ {"disabled"}}
                            ELSE {altered, altered \ {"disabled"}}
        BY <3>1, <3>3 DEF DoScheduling
      <4> QED BY <4>1 DEF RecoveryInv, DirtyOK, IntProperties
    <3>4. CASE doing \notin {"Disable", "DisableScheduling", "Enable"}
      <4>1. UNCHANGED scheduling
        BY <3>1, <3>4 DEF DoScheduling
      <4> QED BY <4>1 DEF RecoveryInv, DirtyOK, scheduling
    <3> QED BY <3>2, <3>3, <3>4
  <2> QED BY <2>2, <2>3
<1>4. BgOK'
  BY <1>1, <1>2 DEF BgOK, Confirmed
<1>5. IntOK'
  BY <1>1, <1>3 DEF RecoveryInv, IntOK, Confirmed
<1>6. ProcessesOK'
  BY <1>1 DEF RecoveryInv, ProcessesOK, BgEnded
<1> QED BY <1>3, <1>4, <1>5, <1>6 DEF RecoveryInv

(* The owner's restore, on the normal way out and in its handler.             *)
LEMMA BgRestorePreserves == ASSUME RecoveryInv, CleanupBg \/ HandlerBg PROVE RecoveryInv'
<1>1. /\ UNCHANGED <<ipc, purpose, failing, reaped, intLog>>
      /\ \E done \in SUBSET BgProperties : Restores(BgProperties, done)
      /\ bgLog' = bgLog \cup {Log(Restored(BgProperties))}
  BY DEF CleanupBg, HandlerBg, RestoreBg, control, local
<1>2. DirtyOK' /\ dirty' \subseteq dirty
  BY <1>1, RestoresFlags DEF RecoveryInv
<1>3. /\ "RESTORED" \in bgLog' \/ "FAILED" \in bgLog'
      /\ Confirmed(bgLog') => dirty' \cap BgProperties = {}
  BY <1>1 DEF Confirmed, Log, Restored
<1>4. IntOK'
  BY <1>1, <1>2 DEF RecoveryInv, IntOK, Confirmed
<1>5. BgOK'
  <2>1. CASE CleanupBg
    <3>1. bgLog = {} /\ bpc' \in {"shutdown", "raise"}
          /\ (bpc' = "shutdown" => Restored(BgProperties))
      BY <2>1 DEF RecoveryInv, BgOK, BgEnded, CleanupBg, AtBg
    <3> QED BY <1>1, <1>3, <3>1 DEF BgOK, Log
  <2>2. CASE HandlerBg
    BY <1>3, <2>2 DEF BgOK, HandlerBg, AtBg, BgEnded
  <2> QED BY <2>1, <2>2
<1>6. ProcessesOK'
  <2>1. bpc \in {"cleanup", "handler"}
    BY DEF CleanupBg, HandlerBg
  <2> QED BY <1>1, <2>1 DEF RecoveryInv, ProcessesOK, BgEnded
<1> QED BY <1>2, <1>4, <1>5, <1>6 DEF RecoveryInv

-----------------------------------------------------------------------------
(* The controller.                                                            *)
LEMMA IntUneventful ==
    ASSUME RecoveryInv,
           \/ Fork \/ SeesReady \/ WriteCommand \/ PostCommand \/ Accept \/ GivesUp
           \/ FindsBgDead \/ Raise \/ Cleanup
    PROVE  RecoveryInv'
<1>1. Uneventful
  BY DEF Fork, SeesReady, WriteCommand, PostCommand, Accept, GivesUp, FindsBgDead, Raise,
     Cleanup, Uneventful, scheduling, logs
<1>2. DirtyOK' /\ Confirmed(bgLog') = Confirmed(bgLog) /\ Confirmed(intLog') = Confirmed(intLog)
  BY <1>1 DEF RecoveryInv, DirtyOK, Uneventful, Confirmed
<1>3. BgOK'
  <2>1. bpc' = bpc \/ (bpc = "unborn" /\ bpc' = "born")
    BY DEF RecoveryInv, ProcessesOK, Fork, SeesReady, WriteCommand, PostCommand, Accept,
       GivesUp, FindsBgDead, Raise, Cleanup, owner
  <2> QED BY <1>1, <1>2, <2>1 DEF RecoveryInv, BgOK, Uneventful, BgEnded, Confirmed
<1>4. ProcessesOK'
  <2>1. CASE Fork
    BY <2>1 DEF RecoveryInv, ProcessesOK, BgEnded, AtInt, Fork, local
  <2>2. CASE FindsBgDead
    <3>1. bpc' = bpc /\ bpc \in BgEnded /\ reaped' = TRUE /\ ipc' \in {"restore", "raise"}
      BY <2>2 DEF FindsBgDead, Thrown, AtInt, owner
    <3> QED BY <3>1 DEF ProcessesOK
  <2>3. CASE Accept
    <3>1. bpc' = bpc /\ reaped' = reaped
          /\ ipc' \in {"restore", "reap", "raise", "cleanup", "write"}
      BY <2>3 DEF Accept, AtInt, owner
    <3> QED BY <3>1 DEF RecoveryInv, ProcessesOK
  <2>4. CASE SeesReady \/ WriteCommand \/ PostCommand \/ GivesUp \/ Raise \/ Cleanup
    <3>1. bpc' = bpc /\ reaped' = reaped
          /\ ipc' \in {"configure", "post", "await", "restore", "raise", "cleanup", "write"}
      BY <2>4 DEF SeesReady, WriteCommand, PostCommand, GivesUp, Raise, Cleanup, Thrown,
         AtInt, owner, local
    <3> QED BY <3>1 DEF RecoveryInv, ProcessesOK
  <2> QED BY <2>1, <2>2, <2>3, <2>4
<1>5. IntOK'
  <2>1. CASE Fork \/ SeesReady \/ WriteCommand \/ PostCommand
    BY <1>1, <1>2, <2>1 DEF RecoveryInv, IntOK, Uneventful, AtInt, Fork, SeesReady,
       WriteCommand, PostCommand
  <2>2. CASE Accept
    <3>1. UNCHANGED <<purpose, failing>> /\ ipc = "await"
      BY <2>2 DEF Accept
    <3>2. /\ purpose = "recovery" => ipc' = "restore"
          /\ purpose = "exit" => ipc' = "reap"
          /\ purpose \notin {"recovery", "exit"} => ipc' \in {"raise", "cleanup", "write"}
      <4>1. TriggerRejected \/ EnableRefused => purpose = "script"
        BY DEF TriggerRejected, EnableRefused
      <4>2. CASE purpose = "recovery"
        BY <2>2, <4>1, <4>2 DEF Accept, AtInt
      <4>3. CASE purpose = "exit"
        BY <2>2, <4>1, <4>3 DEF Accept, AtInt
      <4>4. CASE purpose \notin {"recovery", "exit"}
        BY <2>2, <4>4 DEF Accept, AtInt
      <4> QED BY <4>2, <4>3, <4>4
    <3> QED BY <1>1, <1>2, <3>1, <3>2 DEF RecoveryInv, IntOK, Uneventful
  <2>3. CASE GivesUp \/ FindsBgDead
    <3>1. /\ UNCHANGED <<purpose, failing>>
          /\ ipc \in {"awaitReady", "configure", "write", "await", "cleanup"}
          /\ ipc' = IF purpose = "recovery" THEN "restore" ELSE "raise"
      BY <2>3 DEF GivesUp, FindsBgDead, Thrown, AtInt
    <3> QED BY <1>1, <1>2, <3>1 DEF RecoveryInv, IntOK, Uneventful
  <2>4. CASE Raise
    BY <1>1, <1>2, <2>4 DEF RecoveryInv, IntOK, Uneventful, AtInt, Raise
  <2>5. CASE Cleanup
    BY <1>1, <1>2, <2>5 DEF RecoveryInv, IntOK, Uneventful, AtInt, Cleanup
  <2> QED BY <2>1, <2>2, <2>3, <2>4, <2>5
<1> QED BY <1>2, <1>3, <1>4, <1>5 DEF RecoveryInv

(* Its own control, which only a worker that has restored nothing yet issues. *)
LEMMA ConfigurePreserves == ASSUME RecoveryInv, ConfigureInt PROVE RecoveryInv'
<1>1. /\ UNCHANGED <<purpose, failing, reaped, bpc, intLog, bgLog>>
      /\ ipc = "configure" /\ ipc' \in {"write", "raise"}
  BY DEF ConfigureInt, AtInt, local, owner, logs
<1>2. DirtyOK' /\ dirty' \cap BgProperties = dirty \cap BgProperties
  <2>1. UNCHANGED scheduling \/ \E p \in OwnProperty, ok \in BOOLEAN : Changes(p, ok)
    BY DEF ConfigureInt
  <2>2. OwnProperty \subseteq IntProperties
    BY DEF OwnProperty, IntProperties
  <2>3. CASE UNCHANGED scheduling
    BY <2>3 DEF RecoveryInv, DirtyOK, scheduling
  <2>4. ASSUME NEW p \in OwnProperty, NEW ok \in BOOLEAN, Changes(p, ok)
        PROVE  DirtyOK' /\ dirty' \cap BgProperties = dirty \cap BgProperties
    BY <2>2, <2>4, ChangesFlags DEF RecoveryInv, Properties, BgProperties, IntProperties
  <2> QED BY <2>1, <2>3, <2>4
<1>3. BgOK'
  BY <1>1, <1>2 DEF RecoveryInv, BgOK, Confirmed
<1>4. IntOK'
  BY <1>1 DEF RecoveryInv, IntOK, Confirmed
<1>5. ProcessesOK'
  BY <1>1 DEF RecoveryInv, ProcessesOK
<1> QED BY <1>2, <1>3, <1>4, <1>5 DEF RecoveryInv

LEMMA RestoreIntPreserves == ASSUME RecoveryInv, RestoreInt PROVE RecoveryInv'
<1> DEFINE ok == cleanupOk /\ Restored(IntProperties)
<1>1. /\ UNCHANGED <<failing, reaped, bpc, bgLog>> /\ ipc = "restore"
      /\ \E done \in SUBSET IntProperties : Restores(IntProperties, done)
      /\ intLog' = intLog \cup {Log(ok)}
  BY DEF RestoreInt, local, owner
<1>2. \/ failing /\ ipc' = "stop" /\ purpose' = purpose
      \/ ~ failing /\ ok /\ ipc' = "write" /\ purpose' = "exit"
      \/ ~ failing /\ ~ ok /\ ipc' = "raise" /\ purpose' = purpose
  BY DEF RestoreInt, AtInt
<1>3. DirtyOK' /\ dirty' \subseteq dirty
  BY <1>1, RestoresFlags DEF RecoveryInv
<1>4. Confirmed(intLog') => dirty' \cap IntProperties = {}
  BY <1>1 DEF Confirmed, Log, Restored
<1>5. /\ ~ failing => intLog = {} /\ purpose # "exit"
      /\ ok => Log(ok) = "RESTORED"
  BY <1>1 DEF RecoveryInv, IntOK, Log
<1>6. IntOK'
  BY <1>1, <1>2, <1>4, <1>5 DEF RecoveryInv, IntOK
<1>7. BgOK'
  BY <1>1, <1>3 DEF RecoveryInv, BgOK, Confirmed
<1>8. ProcessesOK'
  BY <1>1, <1>2 DEF RecoveryInv, ProcessesOK
<1> QED BY <1>3, <1>6, <1>7, <1>8 DEF RecoveryInv

(* The end of a process, by its own step or by somebody else's.               *)
LEMMA EndsPreserve ==
    ASSUME RecoveryInv,
           \/ Finish \/ FinishTimeout \/ StopChild \/ ChildStopped \/ KillChild
           \/ SignalGroup \/ CrashInt \/ CrashBg \/ KernelsProgress
    PROVE  RecoveryInv'
<1>1. UNCHANGED <<altered, dirty, intLog, bgLog, purpose, failing>>
  BY DEF Finish, FinishTimeout, StopChild, ChildStopped, KillChild, SignalGroup, CrashInt,
     CrashBg, KernelsProgress, scheduling, logs, control
<1>2. DirtyOK' /\ Confirmed(bgLog') = Confirmed(bgLog) /\ Confirmed(intLog') = Confirmed(intLog)
  BY <1>1 DEF RecoveryInv, DirtyOK, Confirmed
<1>3. bpc' = bpc \/ bpc' = "killed"
  BY DEF Finish, FinishTimeout, StopChild, ChildStopped, KillChild, SignalGroup, CrashInt,
     CrashBg, KernelsProgress, TerminateBg, AtBg, owner
<1>4. BgOK'
  BY <1>1, <1>2, <1>3 DEF RecoveryInv, BgOK, BgEnded
<1>5. IntOK'
  <2>1. /\ ipc' \in {ipc, "raise", "failed", "terminate", "completed", "crashed"}
        /\ ipc' = "completed" => ipc \in {"reap", "completed"}
        /\ ipc' = "failed" => ipc \in {"failed", "stop", "terminate"}
        /\ ipc' = "terminate" => ipc \in {"stop", "terminate"}
    BY DEF Finish, FinishTimeout, StopChild, ChildStopped, KillChild, SignalGroup, CrashInt,
       CrashBg, KernelsProgress, AtInt, control
  <2> QED BY <1>1, <1>2, <2>1 DEF RecoveryInv, IntOK
<1>6. ProcessesOK'
  <2>1. CASE Finish \/ ChildStopped
    <3>1. bpc' = bpc /\ bpc \in BgEnded /\ reaped' = TRUE
          /\ ipc' \in {"completed", "raise", "failed"} /\ (ipc' = "completed" => bpc = "exit0")
      BY <2>1 DEF Finish, ChildStopped, AtInt, owner
    <3> QED BY <3>1 DEF ProcessesOK
  <2>5. CASE FinishTimeout
    BY <2>5 DEF RecoveryInv, ProcessesOK, FinishTimeout, AtInt, owner, local
  <2>6. CASE KillChild
    BY <2>6 DEF RecoveryInv, ProcessesOK, BgEnded, KillChild, AtInt, local
  <2>2. CASE StopChild
    BY <2>2 DEF RecoveryInv, ProcessesOK, BgEnded, StopChild, TerminateBg, AtInt, local
  <2>3. CASE SignalGroup
    BY <2>3 DEF RecoveryInv, ProcessesOK, BgEnded, SignalGroup, TerminateBg, control, local
  <2>4. CASE CrashInt \/ CrashBg \/ KernelsProgress
    BY <2>4 DEF RecoveryInv, ProcessesOK, BgEnded, CrashInt, CrashBg, KernelsProgress, AtInt,
       AtBg, control, local, owner
  <2> QED BY <2>1, <2>2, <2>3, <2>4, <2>5, <2>6
<1> QED BY <1>2, <1>4, <1>5, <1>6 DEF RecoveryInv

LEMMA RecoveryInvariance == Spec => []RecoveryInv
<1>1. Init => RecoveryInv
  BY DEF Init, RecoveryInv, DirtyOK, BgOK, IntOK, ProcessesOK, Confirmed, BgEnded
<1>2. RecoveryInv /\ [Next]_vars => RecoveryInv'
  <2> SUFFICES ASSUME RecoveryInv, [Next]_vars PROVE RecoveryInv'
    OBVIOUS
  <2>1. CASE IntStep
    BY <2>1, IntUneventful, ConfigurePreserves, RestoreIntPreserves, EndsPreserve DEF IntStep
  <2>2. CASE BgStep
    BY <2>2, BgUneventful, BgChangesPreserve, BgRestorePreserves DEF BgStep
  <2>3. CASE KernelsProgress \/ SignalGroup \/ CrashInt \/ CrashBg
    BY <2>3, EndsPreserve
  <2>4. CASE UNCHANGED vars
    <3>1. UNCHANGED <<ipc, purpose, failing, reaped, bpc, altered, dirty, intLog, bgLog>>
      BY <2>4 DEF vars, control, local, owner, scheduling, logs
    <3> QED BY <3>1 DEF RecoveryInv, DirtyOK, BgOK, IntOK, ProcessesOK, Confirmed
  <2> QED BY <2>1, <2>2, <2>3, <2>4 DEF Next
<1> QED BY <1>1, <1>2, PTL DEF Spec

-----------------------------------------------------------------------------
(* A recovery file that says CONFIGURATION_RESTORED and never the opposite is *)
(* true of its worker, however many controls failed and wherever either       *)
(* process died: a property leaves the dirty set only by an accepted restore, *)
(* and nothing is changed after the first line of a file.                     *)
THEOREM EvidenceTrue == Spec => []EvidenceOfRestoration
<1>1. RecoveryInv => EvidenceOfRestoration
  BY DEF RecoveryInv, DirtyOK, BgOK, IntOK, EvidenceOfRestoration
<1> QED BY <1>1, RecoveryInvariance, PTL

(* A run that reports COMPLETED has seen its owner exit with 0 and leaves no  *)
(* scheduling property changed by either worker.                              *)
LEMMA CompletedRunsAreClean == Spec => []CompletedIsClean
<1>1. RecoveryInv => CompletedIsClean
  <2> SUFFICES ASSUME RecoveryInv, ipc = "completed"
               PROVE  bpc = "exit0" /\ altered = {} /\ Confirmed(intLog) /\ Confirmed(bgLog)
    BY DEF CompletedIsClean
  <2>1. bpc = "exit0" /\ bgLog = {"RESTORED"} /\ intLog = {"RESTORED"}
    BY DEF RecoveryInv, ProcessesOK, BgOK, IntOK
  <2>2. Confirmed(intLog) /\ Confirmed(bgLog)
    BY <2>1 DEF Confirmed
  <2>3. dirty \cap BgProperties = {} /\ dirty \cap IntProperties = {}
    BY <2>2 DEF RecoveryInv, BgOK, IntOK
  <2> QED BY <2>1, <2>2, <2>3 DEF RecoveryInv, DirtyOK, Properties
<1> QED BY <1>1, RecoveryInvariance, PTL

(* A controller that ends by itself leaves no owner running, not even one     *)
(* that hangs in a control.                                                   *)
LEMMA NoOwnerLeft == Spec => []NoOrphanOwner
<1>1. RecoveryInv => NoOrphanOwner
  BY DEF RecoveryInv, ProcessesOK, NoOrphanOwner
<1> QED BY <1>1, RecoveryInvariance, PTL

(* A run ends clean: no owner outlives the controller that ends by itself,    *)
(* and COMPLETED is said only of a run with nothing left to restore.          *)
THEOREM RunsEndClean == Spec => []EndsClean
BY CompletedRunsAreClean, NoOwnerLeft, PTL DEF EndsClean

-----------------------------------------------------------------------------
(* The observer.  It runs from the launch of a trial to its drain; the        *)
(* commands in between are Watched, and none of them is the reset.            *)
Watched == {"Launch", "Enable", "Drain"} \cup Triggers

LEMMA TriggersAreTriggers == \A m : TriggerOf(m) \in Triggers
BY DEF TriggerOf, Triggers, GroupTriggers

(* A trial: the steps of Watched follow one another up to the drain.          *)
LEMMA TrialSteps ==
    \/ /\ TrialLength = 5
       /\ Trial[1].cmd = "Prepare" /\ Trial[2].cmd = "Launch" /\ Trial[3].cmd = TriggerOf(mode)
       /\ Trial[4].cmd = "Enable" /\ Trial[5].cmd = "Drain"
    \/ /\ TrialLength = 5
       /\ Trial[1].cmd = "Prepare" /\ Trial[2].cmd = "Launch" /\ Trial[3].cmd = TriggerOf(mode)
       /\ Trial[4].cmd = "Drain" /\ Trial[5].cmd = "CheckReuse"
    \/ /\ TrialLength = 4
       /\ Trial[1].cmd = "Prepare" /\ Trial[2].cmd = "Launch" /\ Trial[3].cmd = TriggerOf(mode)
       /\ Trial[4].cmd = "Drain"
<1> DEFINE before == <<Step("Prepare", {}), Step("Launch", {}), Step(TriggerOf(mode), {"started"})>>
           enabling == <<Step("Enable", {"intDone"})>>
           draining == <<Step("Drain", {"intDone", "bgDone"})>>
           reusing == <<Step("CheckReuse", {})>>
<1>1. CASE Disables
  <2>1. Trial = before \o enabling \o draining \o <<>>
    BY <1>1 DEF Trial, Disables, Group
  <2> QED BY <2>1 DEF TrialLength, Step
<1>2. CASE ~ Disables /\ (mode = "none" \/ Group)
  <2>1. Trial = before \o <<>> \o draining \o reusing
    BY <1>2 DEF Trial
  <2> QED BY <2>1 DEF TrialLength, Step
<1>3. CASE ~ Disables /\ ~ (mode = "none" \/ Group)
  <2>1. Trial = before \o <<>> \o draining \o <<>>
    BY <1>3 DEF Trial
  <2> QED BY <2>1 DEF TrialLength, Step
<1> QED BY <1>1, <1>2, <1>3

LEMMA TrialShape ==
    /\ TrialLength \in {4, 5}
    /\ \A i \in 1 .. TrialLength : Trial[i].cmd \in Watched \ {"Drain"} =>
          i < TrialLength /\ Trial[i + 1].cmd \in Watched
BY TrialSteps, TriggersAreTriggers DEF Watched, Triggers, GroupTriggers

LEMMA SetupShape ==
    /\ Len(Setup) \in {0, 1}
    /\ \A i \in 1 .. Len(Setup) : Setup[i].cmd \notin Watched
BY DEF Setup, Step, Watched, Triggers, GroupTriggers

LEMMA NextIsWatched ==
    ASSUME NEW k \in 1 .. Length, StepAt(k).cmd \in Watched \ {"Drain"}
    PROVE  k < Length /\ StepAt(k + 1).cmd \in Watched
<1> DEFINE j == k - Len(Setup) - 1
           i == (j % TrialLength) + 1
<1>1. k > Len(Setup)
  BY SetupShape DEF StepAt
<1>2. RunTrials \in Nat /\ TrialLength \in {4, 5} /\ Len(Setup) \in {0, 1} /\ j \in Nat
  BY <1>1, ProtocolAssumption, TrialShape, SetupShape DEF RunTrials
<1>3. StepAt(k) = Trial[i] /\ i \in 1 .. TrialLength
  BY <1>1, <1>2 DEF StepAt
<1>4. i < TrialLength /\ Trial[i + 1].cmd \in Watched
  BY <1>3, TrialShape
<1>5. (j + 1) % TrialLength = i
  <2>1. CASE TrialLength = 4 BY <1>2, <1>4, <2>1
  <2>2. CASE TrialLength = 5 BY <1>2, <1>4, <2>2
  <2> QED BY <1>2, <2>1, <2>2
<1>6. StepAt(k + 1) = Trial[i + 1]
  BY <1>1, <1>2, <1>5 DEF StepAt
<1>7. k < Length
  <2>1. CASE TrialLength = 4 BY <1>2, <1>4, <2>1 DEF Length
  <2>2. CASE TrialLength = 5 BY <1>2, <1>4, <2>2 DEF Length
  <2> QED BY <1>2, <2>1, <2>2
<1> QED BY <1>4, <1>6, <1>7

(* While the observer runs, no answer but to the commands of its trial is      *)
(* asked for or under way.  The first part says that a trial goes on only      *)
(* after the answer to its last command.                                       *)
ObserverInv ==
    /\ position \in 1 .. Length
    /\ purpose \in {"script", "recovery", "exit"}
    /\ ipc \in {"start", "awaitReady", "configure"} => seq = 0 /\ purpose = "script"
    /\ purpose = "script" /\ ipc \in {"write", "post"} => ackSeq = seq
    /\ observing =>
          /\ purpose = "script" /\ ipc \in {"write", "post", "await", "raise", "crashed"}
          /\ Asked \in Watched
          /\ command # "Prepare" /\ (bpc = "doing" => doing # "Prepare")

LEMMA LengthKept == mode' = mode => Length' = Length
BY DEF Length, Setup, RunTrials, Trial, TrialLength, Step, TriggerOf, Identity, Disables, Group

(* Steps that move the controller at most out of the reach of the observer.   *)
ObserverKept ==
    /\ UNCHANGED <<mode, position, purpose, seq, command, ackSeq>>
    /\ observing' => observing /\ ipc' \in {ipc, "raise", "crashed"}
    /\ ipc' \in {"start", "awaitReady", "configure"} =>
          ipc \in {"start", "awaitReady", "configure"}
    /\ ipc' \in {"write", "post"} => ipc' = ipc \/ ipc = "configure"
    /\ bpc' = "doing" => (bpc = "doing" /\ doing' = doing) \/ doing' = command

LEMMA ObserverKeptPreserves ==
    ASSUME MailboxInv, ObserverInv, ObserverKept
    PROVE  ObserverInv'
<1>1. Asked' = Asked /\ Length' = Length
  BY AskedKept, LengthKept DEF ObserverKept
<1>2. purpose = "script" /\ ipc = "configure" => ackSeq = seq
  BY DEF MailboxInv, ObserverInv
<1> QED BY <1>1, <1>2 DEF ObserverInv, ObserverKept

LEMMA IntKeepsObserver ==
    ASSUME ObserverInv,
           \/ Fork \/ SeesReady \/ ConfigureInt \/ GivesUp \/ FindsBgDead \/ Raise
           \/ Finish \/ FinishTimeout \/ StopChild \/ ChildStopped \/ KillChild
    PROVE  ObserverKept
<1>1. CASE Fork \/ SeesReady \/ ConfigureInt \/ StopChild \/ KillChild \/ FinishTimeout
  BY <1>1 DEF ObserverInv, Fork, SeesReady, ConfigureInt, StopChild, KillChild, FinishTimeout,
     TerminateBg, ObserverKept, AtInt, mailbox, local, owner
<1>2. CASE GivesUp \/ FindsBgDead \/ Raise \/ Finish \/ ChildStopped
  BY <1>2 DEF ObserverInv, GivesUp, FindsBgDead, Raise, Finish, ChildStopped, ObserverKept,
     AtInt, Thrown, mailbox, local, owner
<1> QED BY <1>1, <1>2

LEMMA BgKeepsObserver ==
    ASSUME MailboxInv, ObserverInv,
           \/ Arm \/ InitBg \/ TakeCommand \/ LoopEnds \/ ReadCommand \/ DoCommand
           \/ CommandThrows \/ CleanupBg \/ ShutdownBg \/ ReportError \/ HandlerBg
    PROVE  ObserverKept
BY DEF Arm, InitBg, TakeCommand, LoopEnds, ReadCommand, DoCommand, CommandThrows, CleanupBg,
   ShutdownBg, ReportError, HandlerBg, RestoreBg, ObserverKept, AtBg, mailbox, control, local

LEMMA SurroundingsKeepObserver ==
    ASSUME KernelsProgress \/ SignalGroup \/ CrashInt \/ CrashBg
    PROVE  ObserverKept
BY DEF KernelsProgress, SignalGroup, CrashInt, CrashBg, TerminateBg, ObserverKept, AtInt, AtBg,
   mailbox, control, local, owner

LEMMA AcknowledgeKeepsObserver ==
    ASSUME MailboxInv, ObserverInv, Acknowledge PROVE ObserverInv'
<1>1. Asked' = Asked /\ Length' = Length
  BY AskedKept, LengthKept DEF Acknowledge, control
<1>2. ackSeq # seq
  BY DEF MailboxInv, Acknowledge
<1> QED BY <1>1, <1>2 DEF ObserverInv, Acknowledge, AtBg, control, local

LEMMA WriteKeepsObserver ==
    ASSUME MailboxInv, ObserverInv, WriteCommand PROVE ObserverInv'
<1>1. Asked' = Asked /\ Length' = Length
  BY AskedKept, LengthKept DEF WriteCommand
<1>2. purpose = "script" => bpc # "doing"
  BY DEF MailboxInv, ObserverInv, WriteCommand
<1>3. observing' => purpose = "script" /\ Asked \in Watched
  BY DEF WriteCommand, StartsObserver, ObserverInv, Watched
<1>4. "Prepare" \notin Watched
  BY DEF Watched, Triggers, GroupTriggers
<1> QED BY <1>1, <1>2, <1>3, <1>4 DEF ObserverInv, WriteCommand, AtInt, owner

LEMMA PostKeepsObserver ==
    ASSUME MailboxInv, ObserverInv, PostCommand PROVE ObserverInv'
<1>1. Asked' = Asked /\ Length' = Length
  BY AskedKept, LengthKept DEF PostCommand
<1> QED BY <1>1 DEF ObserverInv, PostCommand, AtInt, owner

LEMMA CleanupKeepsObserver ==
    ASSUME MailboxInv, ObserverInv, Cleanup \/ RestoreInt PROVE ObserverInv'
<1>1. /\ ~ observing' /\ position' = position /\ mode' = mode
      /\ purpose' \in {"script", "recovery", "exit"}
      /\ ipc' \in {"write", "restore", "stop", "raise"}
      /\ ipc' = "write" => purpose' # "script"
  BY DEF ObserverInv, Cleanup, RestoreInt, AtInt, local
<1> QED BY <1>1, LengthKept DEF ObserverInv

LEMMA AcceptKeepsObserver ==
    ASSUME MailboxInv, ObserverInv, Accept PROVE ObserverInv'
<1>1. /\ UNCHANGED <<mode, purpose, seq, command, ackSeq, bpc, doing>>
      /\ ipc = "await" /\ ackSeq = seq
      /\ ipc' \in {"restore", "reap", "raise", "cleanup", "write"}
      /\ observing' = (observing /\ Asked # "Drain")
      /\ position' = IF purpose = "script" /\ position < Length THEN position + 1 ELSE position
  BY DEF Accept, AckOfMine, AtInt, mailbox, owner
<1>2. Length' = Length /\ Length \in Int
  BY <1>1, LengthKept, TrialShape, SetupShape, ProtocolAssumption DEF Length, RunTrials
<1>3. position' \in 1 .. Length'
  BY <1>1, <1>2 DEF ObserverInv
<1>4. ASSUME observing' PROVE Asked' \in Watched /\ ipc' \in {"raise", "write"}
  <2>1. purpose = "script" /\ StepAt(position).cmd \in Watched \ {"Drain"}
    BY <1>1, <1>4 DEF ObserverInv, Asked
  <2>2. position < Length /\ StepAt(position + 1).cmd \in Watched
    BY <2>1, NextIsWatched DEF ObserverInv
  <2>3. Asked' = StepAt(position + 1).cmd
    BY <1>1, <2>1, <2>2 DEF Asked, StepAt, Setup, Trial, TrialLength, Step, TriggerOf,
       Identity, Disables, Group
  <2>4. position # Length
    BY <1>2, <2>2 DEF ObserverInv
  <2>5. ipc' \in {"raise", "write"}
    BY <2>1, <2>4 DEF Accept, AtInt
  <2> QED BY <2>2, <2>3, <2>5
<1> QED BY <1>1, <1>2, <1>3, <1>4 DEF ObserverInv

LEMMA ObserverInvariance == Spec => []ObserverInv
<1>1. Init => ObserverInv
  <2>1. RunTrials \in Nat \ {0} /\ TrialLength \in {4, 5} /\ Len(Setup) \in {0, 1}
    BY ProtocolAssumption, TrialShape, SetupShape DEF RunTrials
  <2>2. Length \in Nat \ {0}
    BY <2>1 DEF Length
  <2> QED BY <2>2 DEF Init, ObserverInv
<1>2. MailboxInv /\ ObserverInv /\ [Next]_vars => ObserverInv'
  <2> SUFFICES ASSUME MailboxInv, ObserverInv, [Next]_vars PROVE ObserverInv'
    OBVIOUS
  <2>1. CASE IntStep
    BY <2>1, IntKeepsObserver, ObserverKeptPreserves, WriteKeepsObserver, PostKeepsObserver,
       AcceptKeepsObserver, CleanupKeepsObserver DEF IntStep
  <2>2. CASE BgStep
    BY <2>2, BgKeepsObserver, ObserverKeptPreserves, AcknowledgeKeepsObserver DEF BgStep
  <2>3. CASE KernelsProgress \/ SignalGroup \/ CrashInt \/ CrashBg
    BY <2>3, SurroundingsKeepObserver, ObserverKeptPreserves
  <2>4. CASE UNCHANGED vars
    <3>1. ObserverKept
      BY <2>4 DEF ObserverKept, vars, mailbox, control, local, owner
    <3> QED BY <3>1, ObserverKeptPreserves
  <2> QED BY <2>1, <2>2, <2>3, <2>4 DEF Next
<1> QED BY <1>1, <1>2, MailboxInvariance, PTL DEF Spec

(* The owner never resets the telemetry while the observer of the controller   *)
(* reads it, in whatever trial, and whichever command was given up: the        *)
(* observer starts only after the reset was acknowledged, and is gone before a  *)
(* reset is asked for again.                                                   *)
THEOREM ResetsUnobserved == Spec => []ResetNeverObserved
<1>1. ObserverInv => ResetNeverObserved
  BY DEF ObserverInv, ResetNeverObserved
<1> QED BY <1>1, ObserverInvariance, PTL

-----------------------------------------------------------------------------
(* Types.  What is in the slot is a command of the run, and a worker restores *)
(* at most twice: once on its normal way out, once in its handler.            *)
ContentsOK ==
    /\ mode \in Modes
    /\ command \in Commands /\ doing \in Commands
    /\ result \in [cmd : Commands \cup {"none"}, ok : BOOLEAN]

RestoresOK ==
    /\ intLog \subseteq {"RESTORED", "FAILED"} /\ bgLog \subseteq {"RESTORED", "FAILED"}
    /\ tries \in [Properties -> 0 .. 2]
    /\ bgLog = {} => \A p \in BgProperties : tries[p] = 0
    /\ bpc \in {"shutdown", "raise", "handler"} => \A p \in BgProperties : tries[p] <= 1
    /\ intLog = {} => \A p \in IntProperties : tries[p] = 0
    /\ ipc \notin {"stop", "terminate", "failed", "crashed"} =>
          \A p \in IntProperties : tries[p] <= 1
    /\ ~ failing => \A p \in IntProperties : tries[p] <= 1
    /\ failing => /\ ipc \in {"cleanup", "write", "post", "await", "restore", "stop",
                              "terminate", "failed", "crashed"}
                  /\ ipc \in {"write", "post", "await"} => purpose = "recovery"

TypesInv == ContentsOK /\ RestoresOK

LEMMA CommandsKept == ASSUME mode' = mode PROVE Commands' = Commands
BY DEF Commands, StepAt, Length, Setup, RunTrials, Trial, TrialLength, Step, TriggerOf,
   Identity, Disables, Group

LEMMA AskedIsCommand == ASSUME ObserverInv PROVE Asked \in Commands
BY DEF ObserverInv, Asked, Commands

LEMMA NextKeepsMode == ASSUME [Next]_vars PROVE mode' = mode
<1>1. CASE IntStep
  BY <1>1 DEF IntStep, Fork, SeesReady, ConfigureInt, WriteCommand, PostCommand, Accept,
     GivesUp, FindsBgDead, Raise, Cleanup, RestoreInt, Finish, FinishTimeout, StopChild,
     ChildStopped, KillChild
<1>2. CASE BgStep
  BY <1>2 DEF BgStep, Arm, InitBg, TakeCommand, LoopEnds, ReadCommand, DoCommand,
     CommandThrows, Acknowledge, CleanupBg, ShutdownBg, ReportError, HandlerBg, RestoreBg
<1>3. CASE KernelsProgress \/ SignalGroup \/ CrashInt \/ CrashBg
  BY <1>3 DEF KernelsProgress, SignalGroup, CrashInt, CrashBg
<1> QED BY <1>1, <1>2, <1>3 DEF Next, vars

LEMMA ContentsPreserved ==
    ASSUME ObserverInv, ContentsOK, [Next]_vars PROVE ContentsOK'
<1>1. mode' = mode /\ Commands' = Commands
  BY NextKeepsMode, CommandsKept
<1>2. CASE IntStep
  <2>1. command' = command \/ command' = Asked
    BY <1>2 DEF IntStep, Fork, SeesReady, ConfigureInt, WriteCommand, PostCommand, Accept,
       GivesUp, FindsBgDead, Raise, Cleanup, RestoreInt, Finish, FinishTimeout, StopChild,
       ChildStopped, KillChild, mailbox
  <2>2. UNCHANGED <<doing, result>>
    BY <1>2 DEF IntStep, Fork, SeesReady, ConfigureInt, WriteCommand, PostCommand, Accept,
       GivesUp, FindsBgDead, Raise, Cleanup, RestoreInt, Finish, FinishTimeout, StopChild,
       ChildStopped, KillChild, mailbox, owner
  <2> QED BY <1>1, <2>1, <2>2, AskedIsCommand DEF ContentsOK
<1>3. CASE BgStep
  <2>1. command' = command /\ doing' \in {doing, command}
    BY <1>3 DEF BgStep, Arm, InitBg, TakeCommand, LoopEnds, ReadCommand, DoCommand,
       CommandThrows, Acknowledge, CleanupBg, ShutdownBg, ReportError, HandlerBg, RestoreBg,
       mailbox
  <2>2. \/ result' = result \/ result' = NoResult
        \/ \E ok \in BOOLEAN : result' = [cmd |-> doing, ok |-> ok]
    <3>1. CASE DoCommand
      BY <3>1 DEF DoCommand
    <3>2. CASE ~ DoCommand
      BY <1>3, <3>2 DEF BgStep, Arm, InitBg, TakeCommand, LoopEnds, ReadCommand,
         CommandThrows, Acknowledge, CleanupBg, ShutdownBg, ReportError, HandlerBg,
         RestoreBg, mailbox
    <3> QED BY <3>1, <3>2
  <2>3. result' \in [cmd : Commands \cup {"none"}, ok : BOOLEAN]
    <3>1. CASE result' = NoResult
      BY <3>1 DEF NoResult
    <3>2. CASE \E ok \in BOOLEAN : result' = [cmd |-> doing, ok |-> ok]
      BY <3>2 DEF ContentsOK
    <3> QED BY <2>2, <3>1, <3>2 DEF ContentsOK
  <2> QED BY <1>1, <2>1, <2>3 DEF ContentsOK
<1>4. CASE KernelsProgress \/ SignalGroup \/ CrashInt \/ CrashBg \/ UNCHANGED vars
  <2>1. UNCHANGED <<command, doing, result>>
    BY <1>4 DEF KernelsProgress, SignalGroup, CrashInt, CrashBg, TerminateBg, vars, mailbox,
       owner
  <2> QED BY <1>1, <2>1 DEF ContentsOK
<1> QED BY <1>2, <1>3, <1>4 DEF Next

(* A restore counts once for each of its own dirty properties.                *)
LEMMA RestoresCount ==
    ASSUME NEW owned, NEW done, Restores(owned, done), tries \in [Properties -> 0 .. 2],
           \A p \in owned \cap Properties : tries[p] <= 1
    PROVE  /\ tries' \in [Properties -> 0 .. 2]
           /\ \A p \in Properties \ owned : tries'[p] = tries[p]
           /\ \A p \in Properties : tries'[p] <= tries[p] + 1
BY DEF Restores

LEMMA BgRestoresPreserve ==
    ASSUME RecoveryInv, RestoresOK, CleanupBg \/ HandlerBg PROVE RestoresOK'
<1>1. PICK done \in SUBSET BgProperties : Restores(BgProperties, done)
  BY DEF CleanupBg, HandlerBg, RestoreBg
<1>2. /\ UNCHANGED <<ipc, purpose, failing, intLog>>
      /\ bgLog' = bgLog \cup {Log(Restored(BgProperties))}
      /\ bpc' \in {"shutdown", "raise", "exit1"}
  BY DEF CleanupBg, HandlerBg, RestoreBg, AtBg, control
<1>3. \A p \in BgProperties : tries[p] <= 1
  BY DEF RecoveryInv, BgOK, BgEnded, RestoresOK, CleanupBg, HandlerBg, BgProperties, Properties
<1>4. /\ tries' \in [Properties -> 0 .. 2]
      /\ \A p \in IntProperties : tries'[p] = tries[p]
      /\ \A p \in BgProperties : tries'[p] <= tries[p] + 1
  BY <1>1, <1>3, RestoresCount DEF RestoresOK, Properties, BgProperties, IntProperties
<1>5. CASE CleanupBg
  <2>1. bgLog = {}
    BY <1>5 DEF RecoveryInv, BgOK, BgEnded, CleanupBg
  <2>2. \A p \in BgProperties : tries'[p] <= 1
    BY <1>4, <2>1 DEF RestoresOK, BgProperties, Properties
  <2> QED BY <1>2, <1>4, <2>2 DEF RestoresOK, Log
<1>6. CASE HandlerBg
  <2>1. bpc' = "exit1"
    BY <1>6 DEF HandlerBg, AtBg
  <2> QED BY <1>2, <1>4, <2>1 DEF RestoresOK, Log
<1> QED BY <1>5, <1>6

LEMMA IntRestorePreserves ==
    ASSUME RecoveryInv, RestoresOK, RestoreInt PROVE RestoresOK'
<1>1. PICK done \in SUBSET IntProperties : Restores(IntProperties, done)
  BY DEF RestoreInt
<1>2. /\ UNCHANGED <<bpc, bgLog, failing>>
      /\ ipc = "restore" /\ intLog' \cap {"RESTORED", "FAILED"} = intLog' /\ intLog' # {}
      /\ failing => ipc' = "stop"
      /\ ~ failing => ipc' \in {"write", "raise"}
  BY DEF RestoreInt, AtInt, Log, RestoresOK, local, owner
<1>3. \A p \in IntProperties : tries[p] <= 1
  BY <1>2 DEF RestoresOK
<1>4. /\ tries' \in [Properties -> 0 .. 2]
      /\ \A p \in BgProperties : tries'[p] = tries[p]
      /\ \A p \in IntProperties : tries'[p] <= tries[p] + 1
  BY <1>1, <1>3, RestoresCount DEF RestoresOK, Properties, BgProperties, IntProperties
<1>5. ~ failing => \A p \in IntProperties : tries'[p] <= 1
  <2>1. ~ failing => intLog = {}
    BY <1>2 DEF RecoveryInv, IntOK
  <2> QED BY <1>4, <2>1 DEF RestoresOK, Properties, IntProperties
<1>6. failing \in BOOLEAN
  BY DEF RecoveryInv, IntOK
<1> QED BY <1>2, <1>4, <1>5, <1>6 DEF RestoresOK

(* Every other step leaves the counts and the evidence as they are.           *)
LEMMA IntTypesKept ==
    ASSUME RecoveryInv, RestoresOK,
           \/ Fork \/ SeesReady \/ ConfigureInt \/ WriteCommand \/ PostCommand \/ Accept
           \/ GivesUp \/ FindsBgDead \/ Raise \/ Cleanup \/ Finish \/ FinishTimeout
           \/ StopChild \/ ChildStopped \/ KillChild
    PROVE  RestoresOK'
<1>1. UNCHANGED <<tries, intLog, bgLog>>
  BY DEF Fork, SeesReady, ConfigureInt, WriteCommand, PostCommand, Accept, GivesUp,
     FindsBgDead, Raise, Cleanup, Finish, FinishTimeout, StopChild, ChildStopped, KillChild,
     Changes, scheduling, logs
<1>2. bpc' = bpc \/ bpc' \in {"born", "killed"}
  BY DEF Fork, SeesReady, ConfigureInt, WriteCommand, PostCommand, Accept, GivesUp,
     FindsBgDead, Raise, Cleanup, Finish, FinishTimeout, StopChild, ChildStopped, KillChild,
     TerminateBg, owner
<1>3. \/ failing' = failing
      \/ Raise /\ failing' = TRUE /\ ~ failing /\ ipc' = "cleanup"
  BY DEF Fork, SeesReady, ConfigureInt, WriteCommand, PostCommand, Accept, GivesUp,
     FindsBgDead, Raise, Cleanup, Finish, FinishTimeout, StopChild, ChildStopped, KillChild,
     AtInt, RestoresOK
<1>4. failing /\ failing' = failing =>
        /\ ipc \notin {"stop", "terminate", "failed", "crashed"} =>
             /\ ipc' \in {"cleanup", "write", "post", "await", "restore"}
             /\ ipc' \in {"write", "post", "await"} => purpose' = "recovery"
        /\ ipc \in {"stop", "terminate", "failed", "crashed"} =>
             ipc' \in {"terminate", "failed"}
  <2> SUFFICES ASSUME failing, failing' = failing PROVE
        /\ ipc \notin {"stop", "terminate", "failed", "crashed"} =>
             /\ ipc' \in {"cleanup", "write", "post", "await", "restore"}
             /\ ipc' \in {"write", "post", "await"} => purpose' = "recovery"
        /\ ipc \in {"stop", "terminate", "failed", "crashed"} =>
             ipc' \in {"terminate", "failed"}
    OBVIOUS
  <2>1. CASE Accept
    <3>1. ipc = "await" /\ purpose = "recovery" /\ purpose' = purpose
      BY <2>1 DEF Accept, RestoresOK
    <3>2. ipc' = "restore"
      BY <2>1, <3>1 DEF Accept, AtInt, TriggerRejected, EnableRefused
    <3> QED BY <3>1, <3>2
  <2>2. CASE ~ Accept
    BY <2>2 DEF Fork, SeesReady, ConfigureInt, WriteCommand, PostCommand, GivesUp,
       FindsBgDead, Raise, Cleanup, Finish, FinishTimeout, StopChild, ChildStopped,
       KillChild, AtInt, Thrown, RestoresOK
  <2> QED BY <2>1, <2>2
<1>5. ipc' \in {"stop", "terminate", "failed", "crashed"} =>
         ipc \in {"stop", "terminate", "failed", "crashed"}
  BY DEF Fork, SeesReady, ConfigureInt, WriteCommand, PostCommand, Accept, GivesUp,
     FindsBgDead, Raise, Cleanup, Finish, FinishTimeout, StopChild, ChildStopped, KillChild,
     AtInt, Thrown
<1>6. failing \in BOOLEAN
  BY DEF RecoveryInv, IntOK
<1> QED BY <1>1, <1>2, <1>3, <1>4, <1>5, <1>6 DEF RestoresOK

LEMMA BgTypesKept ==
    ASSUME RecoveryInv, RestoresOK,
           \/ Arm \/ InitBg \/ TakeCommand \/ LoopEnds \/ ReadCommand \/ DoCommand
           \/ CommandThrows \/ Acknowledge \/ ShutdownBg \/ ReportError
    PROVE  RestoresOK'
<1>1. UNCHANGED <<intLog, bgLog, ipc, purpose, failing>>
  BY DEF Arm, InitBg, TakeCommand, LoopEnds, ReadCommand, DoCommand, CommandThrows,
     Acknowledge, ShutdownBg, ReportError, logs, control
<1>2. tries' = tries
  BY DEF Arm, InitBg, TakeCommand, LoopEnds, ReadCommand, DoCommand, CommandThrows,
     Acknowledge, ShutdownBg, ReportError, DoScheduling, Changes, scheduling
<1>3. bgLog # {} => bpc \in {"shutdown", "raise"}
  BY DEF RecoveryInv, BgOK, BgEnded, Arm, InitBg, TakeCommand, LoopEnds, ReadCommand,
     DoCommand, CommandThrows, Acknowledge, ShutdownBg, ReportError
<1>4. bgLog = {} => \A p \in BgProperties : tries[p] <= 1
  BY DEF RestoresOK
<1> QED BY <1>1, <1>2, <1>3, <1>4 DEF RestoresOK

LEMMA SurroundingsTypesKept ==
    ASSUME RecoveryInv, RestoresOK,
           KernelsProgress \/ SignalGroup \/ CrashInt \/ CrashBg \/ UNCHANGED vars
    PROVE  RestoresOK'
<1>1. UNCHANGED <<tries, intLog, bgLog, purpose, failing>>
  BY DEF KernelsProgress, SignalGroup, CrashInt, CrashBg, vars, scheduling, logs, control
<1>2. bpc' \in {bpc, "killed"} /\ ipc' \in {ipc, "crashed"}
  BY DEF KernelsProgress, SignalGroup, CrashInt, CrashBg, TerminateBg, AtInt, AtBg, vars,
     control, owner
<1> QED BY <1>1, <1>2 DEF RestoresOK

LEMMA TypesInvariance == Spec => []TypesInv
<1>1. Init => TypesInv
  BY DEF Init, TypesInv, ContentsOK, RestoresOK, Commands, NoResult, BgProperties,
     IntProperties, Properties
<1>2. RecoveryInv /\ ObserverInv /\ TypesInv /\ [Next]_vars => TypesInv'
  <2> SUFFICES ASSUME RecoveryInv, ObserverInv, ContentsOK, RestoresOK, [Next]_vars
               PROVE  ContentsOK' /\ RestoresOK'
    BY DEF TypesInv
  <2>1. CASE IntStep
    BY <2>1, IntTypesKept, IntRestorePreserves, ContentsPreserved DEF IntStep
  <2>2. CASE BgStep
    BY <2>2, BgTypesKept, BgRestoresPreserve, ContentsPreserved DEF BgStep
  <2>3. CASE KernelsProgress \/ SignalGroup \/ CrashInt \/ CrashBg \/ UNCHANGED vars
    BY <2>3, SurroundingsTypesKept, ContentsPreserved
  <2> QED BY <2>1, <2>2, <2>3 DEF Next
<1> QED BY <1>1, <1>2, RecoveryInvariance, ObserverInvariance, PTL DEF Spec

(* The numbers of the mailbox are in order, its contents are commands of the  *)
(* run, and neither worker restores more than twice: an error while restoring  *)
(* is not the start of another restore, and another.                          *)
THEOREM ProtocolTyped == Spec => []ProtocolTypeOK
<1>1. MailboxInv /\ RecoveryInv /\ ObserverInv /\ TypesInv => ProtocolTypeOK
  BY DEF MailboxInv, RecoveryInv, DirtyOK, ObserverInv, TypesInv, ContentsOK, RestoresOK,
     ProtocolTypeOK
<1> QED BY <1>1, MailboxInvariance, RecoveryInvariance, ObserverInvariance, TypesInvariance, PTL
=============================================================================
