----------------------------- MODULE StrictControl -----------------------------
(***************************************************************************)
(* The controls of the strict channel identity: discover_owned_compute_    *)
(* group() takes a binding and verifies it with one GET_INFO, RmControl    *)
(* keeps it, and issue() decides, under the capture lock, which commands   *)
(* reach the driver.  The registry moves on in between.  The worker notes  *)
(* in Recovery, before the call, which settings it may have to restore.    *)
(***************************************************************************)
EXTENDS BindingSnapshot

CONSTANTS
    MaxEvents,  \* bound of "hist" once there is a control
    Slots,      \* records the control journal has room for (event_capacity)
    Settings    \* what a worker changes and restores: "disabled", "timeslice"...

VARIABLES
    licence,    \* ProfileState: stage, authorization, reviewed GPU
    verified,   \* c.verified_binding, or NoBinding
    control,    \* the binding of the RmControl, or NoBinding before it is built
    pending,    \* AsyncPreemptGate
    slots,      \* records taken in the control journal
    dirty,      \* the flags of Recovery
    altered,    \* the driver's side: <<setting, handle>> of what is not as it was
    sent        \* history: the active command the last step handed to the driver

controlVars == <<licence, verified, control, pending, slots, dirty, altered>>

strictVars == <<vars, controlVars, sent>>

NotSent == [command |-> "none"]

Licences ==
    {l \in [stage : {"group", "observe", "readonly", "active"},
            authorized : BOOLEAN, reviewed : BOOLEAN] :
        l.authorized => l.stage = "active"}

-----------------------------------------------------------------------------
(* issue(): every call takes a record, refused ones too; without a record it  *)
(* is refused.  An active command also needs the licence, the identity that   *)
(* GET_INFO verified, and that identity still valid.                          *)
TakeRecord == slots' = IF slots < Slots THEN slots + 1 ELSE slots

Licensed ==
    /\ licence.stage = "active" /\ licence.authorized /\ licence.reviewed
    /\ verified # NoBinding /\ control = verified

\* Variant: the binding is not looked at again after the control was built.
MayActAsBuilt == slots < Slots /\ Licensed

MayAct == slots < Slots /\ Licensed /\ ValidStrict(control)

(* A command names handles; the driver finds whatever they stand for then.    *)
Found(tokens) ==
    {Token(<<control.client, t[1]>>) : t \in tokens}

Send(command, tokens) ==
    sent' = [command |-> command,
             found   |-> Found(tokens),
             members |-> {Token(ch) : ch \in Members(<<control.client, control.group[1]>>)}]

-----------------------------------------------------------------------------
(* discover_owned_compute_group(): observe, ask GET_INFO, keep it if verified.*)
Discover ==
    /\ licence.stage # "group"
    /\ TakeStrict
    /\ TakeRecord
    /\ \/ /\ slots < Slots /\ licence.stage \in {"readonly", "active"}
          /\ verified' = strict'
       \/ UNCHANGED verified
    /\ sent' = NotSent
    /\ UNCHANGED <<licence, control, pending, dirty, altered>>

(* RmControl::RmControl() refuses an identity that is stale by now.           *)
Build ==
    /\ control = NoBinding
    /\ verified # NoBinding /\ strict = verified /\ ValidStrict(strict)
    /\ control' = strict
    /\ sent' = NotSent
    /\ UNCHANGED <<vars, licence, verified, pending, slots, dirty, altered>>

(* GET_TIMESLICE, GR_GET_CTXSW_MODES and commands that issue() refuses.       *)
ReadOrRefused ==
    /\ control # NoBinding
    /\ slots < Slots
    /\ TakeRecord
    /\ sent' = NotSent
    /\ UNCHANGED <<vars, licence, verified, control, pending, dirty, altered>>

(* preempt(wait) and the gate that an asynchronous one closes.                *)
Preempt(wait) ==
    /\ control # NoBinding
    /\ MayAct /\ ~ pending
    /\ TakeRecord
    /\ Send("preempt", {control.group})
    /\ pending' = (pending \/ ~ wait)
    /\ UNCHANGED <<vars, licence, verified, control, dirty, altered>>

Restart ==
    /\ control # NoBinding
    /\ MayAct
    /\ TakeRecord
    /\ Send("restart", {control.compute})
    /\ UNCHANGED <<vars, licence, verified, control, pending, dirty, altered>>

MarkWorkDrained ==
    /\ pending /\ pending' = FALSE
    /\ sent' = NotSent
    /\ UNCHANGED <<vars, licence, verified, control, slots, dirty, altered>>

(* The objects whose setting a command changes; disable() lists every channel *)
(* in one command to the subdevice.                                           *)
Targets(setting) == IF setting = "disabled" THEN control.channels ELSE {control.group}

Addressed(setting) ==
    Targets(setting) \cup (IF setting = "disabled" THEN {control.subdevice} ELSE {})

Altered(setting, tokens) == {<<setting, t[1]>> : t \in tokens}

\* Variant: the flag is raised when the command has succeeded.
ChangeThenFlag(setting) ==
    /\ control # NoBinding
    /\ MayAct
    /\ TakeRecord
    /\ Send(setting, Addressed(setting))
    /\ \E touched \in SUBSET Targets(setting) :
        /\ altered' = altered \cup Altered(setting, touched)
        /\ dirty' = IF touched = Targets(setting) THEN dirty \cup {setting} ELSE dirty
    /\ UNCHANGED <<vars, licence, verified, control, pending>>

(* The flag is raised before the call, which may be refused, fail half done   *)
(* or succeed.                                                                *)
Change(setting) ==
    /\ control # NoBinding
    /\ dirty' = dirty \cup {setting}
    /\ TakeRecord
    /\ \/ /\ MayAct
          /\ Send(setting, Addressed(setting))
          /\ \E touched \in SUBSET Targets(setting) :
                altered' = altered \cup Altered(setting, touched)
       \/ /\ ~ MayAct
          /\ sent' = NotSent
          /\ UNCHANGED altered
    /\ UNCHANGED <<vars, licence, verified, control, pending>>

(* Command::Enable, which asks no flag, and Recovery::restore(), which does:  *)
(* the flag falls only if it worked.                                          *)
Restore(setting) ==
    /\ control # NoBinding
    /\ setting = "disabled" \/ setting \in dirty
    /\ TakeRecord
    /\ \/ /\ MayAct
          /\ Send(setting, Addressed(setting))
          /\ \E touched \in SUBSET Targets(setting) :
                /\ altered' = altered \ Altered(setting, touched)
                /\ \/ touched = Targets(setting) /\ dirty' = dirty \ {setting}
                   \/ UNCHANGED dirty
       \/ /\ ~ MayAct
          /\ sent' = NotSent
          /\ UNCHANGED <<dirty, altered>>
    /\ UNCHANGED <<vars, licence, verified, control, pending>>

(* A bind gives a node a new generation, the driver's object lives on.  (So   *)
(* does, here, one whose handle is allocated anew with the same class and     *)
(* parent and no child: then "altered" holds more than the driver keeps.)     *)
LivesOn(h) ==
    LET k == <<control.client, h>> IN
    current'[k].gen = current[k].gen \/ Bind(control.client, h)

(* The application goes on; the driver forgets the settings of a dead object. *)
ApplicationStep ==
    /\ control # NoBinding => hist < MaxEvents
    /\ RegistryStep
    /\ altered' = {a \in altered : LivesOn(a[2])}
    /\ sent' = NotSent
    /\ UNCHANGED <<licence, verified, control, pending, slots, dirty>>

InspectOwnedTsg ==
    /\ licence.stage = "group"
    /\ TakeGroup
    /\ UNCHANGED <<controlVars, sent>>

ControlInit ==
    /\ licence \in Licences
    /\ verified = NoBinding /\ control = NoBinding
    /\ pending = FALSE
    /\ slots = 0
    /\ dirty = {} /\ altered = {}
    /\ sent = NotSent

ControlNext ==
    \/ ApplicationStep
    \/ InspectOwnedTsg
    \/ Discover
    \/ Build
    \/ ReadOrRefused
    \/ \E wait \in BOOLEAN : Preempt(wait)
    \/ Restart
    \/ MarkWorkDrained
    \/ \E setting \in Settings : Change(setting) \/ Restore(setting)

StrictSpec == SnapshotInit /\ ControlInit /\ [][ControlNext]_strictVars

-----------------------------------------------------------------------------
(* An active command of the strict identity reaches the driver only with the  *)
(* whole licence, finds exactly objects that GET_INFO verified, no new life   *)
(* of their handles, and disabling or enabling names every channel the group  *)
(* has at that moment (issue, 85-95; valid, 119-144).                         *)
OwnObjectsOnly ==
    sent # NotSent =>
        /\ licence = [stage |-> "active", authorized |-> TRUE, reviewed |-> TRUE]
        /\ sent.found \subseteq
             {verified.subdevice, verified.group, verified.compute} \cup verified.channels
        /\ sent.command = "disabled" => sent.found \ {verified.subdevice} = sent.members

(* Whatever a worker changed and did not restore, its flag still says: after  *)
(* half done and refused calls, in a full journal, under a stale binding      *)
(* (recovery.h, the order of flag and call in bg_worker.cu:94-98).            *)
NothingLeftAltered == \A a \in altered : a[1] \in dirty
=============================================================================
