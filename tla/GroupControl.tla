------------------------------ MODULE GroupControl ------------------------------
(***************************************************************************)
(* One worker process issuing group controls: the profile state and its    *)
(* gates (driver_profile.cpp), the single GET_INFO that verifies a group   *)
(* binding and the single PREEMPT that uses it (group_query_internal.cpp), *)
(* the capture-level wrappers that call them under the capture lock        *)
(* (rm_control.cpp 160-299), and the mmap journal they publish to          *)
(* (control_events.cpp).                                                   *)
(*                                                                         *)
(* The object registry is abstracted to an epoch: a snapshot is the epoch  *)
(* it was taken in, and valid_group accepts it while the epoch has not     *)
(* moved and a binding can be discovered, which is what module             *)
(* BindingSnapshot shows of the registry.  An operation holds the lock     *)
(* from its first check to its journal completion, so no observed ioctl    *)
(* interleaves with it.  The process may die in any state: the journal is  *)
(* a shared file mapping, so what a reader recovers after a crash is       *)
(* Recovered in that state, and the evidence invariant speaks of it.       *)
(***************************************************************************)
EXTENDS Integers, Sequences, FiniteSets, FiniteSetsExt

CONSTANTS
    JournalCapacity,  \* event_capacity: slots in the mmap journal
    MaxEpoch,         \* bound: no relevant topology change beyond this epoch
    MaxOperations     \* bound: operations the process starts

ASSUME GroupAssumption ==
    /\ JournalCapacity \in Nat /\ MaxEpoch \in Nat \ {0} /\ MaxOperations \in Nat

\* "Disabled" stands for the strict stages as well: no group gate opens for them.
GroupStages == {"GroupInfo", "GroupActive", "GroupNoop"}
Stages == GroupStages \cup {"Disabled"}
\* "Unspecified" stands for Interactive as well: only Background is compared with.
Owners == {"Unspecified", "Background"}

\* CUDA_VISIBLE_DEVICES: the full UUID of the device CUDA opened, or anything
\* else; None before a value was recorded.
Gpu == "gpu"
Visible == {Gpu, "other"}
None == "none"

Epochs == 1 .. MaxEpoch
NoBinding == 0

\* Trials of a run: only the first one may preempt; -1 before any.
Trials == {-1, 0, 1}

VARIABLES
    state,       \* ProfileState
    visible,     \* the environment variable as getenv returns it now
    driverOk,    \* loaded_driver_version() still matches the build profile
    epoch,       \* registry: topology epoch
    found,       \* registry: discover_group() would succeed
    fdOk,        \* the retained control descriptor is still /dev/nvidiactl
    observed,    \* observed_group
    identities,  \* GroupIdentity values handed out to the worker
    info,        \* GroupInfoOnce
    spent,       \* GroupPreemptOnce::consumed_
    trial,       \* Capture::trial
    opened,      \* the journal file was created and mapped
    journal,     \* published ControlEvent slots
    op,          \* the operation in progress, under the capture lock
    operations,  \* number of operations started (bound)
    sent         \* history: the requests that reached the RM, in order

setupVars == <<visible, driverOk, trial, opened>>
registryVars == <<epoch, found, fdOk>>
bindingVars == <<observed, identities>>
vars == <<state, setupVars, registryVars, bindingVars, info, spent, journal, op,
          operations, sent>>

Idle == [step |-> "idle"]

-----------------------------------------------------------------------------
(* The gates of ProfileState.                                                *)
MayGroupInfo ==
    /\ state.stage \in GroupStages
    /\ state.observing /\ state.cudaReady /\ state.scope # None
    /\ state.bindingObserved

MayGroupPreempt ==
    /\ MayGroupInfo
    /\ state.stage = "GroupActive" /\ state.authorized /\ state.gpuReviewed
    /\ state.owner = "Background"
    /\ state.authScope # None /\ state.authScope = state.scope

\* Variant: the environment is read when the scope is noted, and trusted after.
EnvironmentTrusted ==
    state.observing /\ driverOk /\ state.scope # None

(* group_environment_current: re-read at the start of every operation.        *)
EnvironmentCurrent ==
    state.observing /\ driverOk /\ state.scope # None /\ visible = state.scope

ValidGroup(b) == found /\ b = epoch

\* Variant: a flag that some query succeeded.
VerifiedSomeGroup(b) == info.verified /\ info.scope = state.scope

(* GroupInfoOnce::verified_for: the successful query was about this binding,  *)
(* in the scope that still applies.                                           *)
VerifiedFor(b) ==
    info.verified /\ info.binding = b /\ info.scope = state.scope

(* The journal: begin() publishes a slot as issued or finds none left,        *)
(* complete() makes it returned or rejected.                                  *)
\* Variant: off by one.
HasSlotOrIsFull(j) == opened /\ Len(j) <= JournalCapacity

HasSlot(j) == opened /\ Len(j) < JournalCapacity

Issued(cmd, b) == [cmd |-> cmd, binding |-> b, state |-> "issued", attempted |-> FALSE]

Completed(j, i, attempted) ==
    [j EXCEPT ![i].state = "returned", ![i].attempted = attempted]

\* A control turned down right after its slot was published.
Rejected(j, cmd, b) == Append(j, [Issued(cmd, b) EXCEPT !.state = "returned"])

(* ControlJournal::recover and dump: the published slots, at most a capacity  *)
(* of them; an issued one that never returned tells nothing of its attempt.   *)
Recovered ==
    [i \in 1 .. Min({Len(journal), JournalCapacity}) |->
        [cmd       |-> journal[i].cmd,
         binding   |-> journal[i].binding,
         attempted |-> IF journal[i].state = "issued" THEN "unknown"
                       ELSE IF journal[i].attempted THEN "yes" ELSE "no"]]

-----------------------------------------------------------------------------
Init ==
    /\ state = [configured |-> FALSE, stage |-> "Disabled", observing |-> FALSE,
                authorized |-> FALSE, owner |-> "Unspecified", authScope |-> None,
                cudaReady |-> FALSE, gpuReviewed |-> FALSE, scope |-> None,
                bindingObserved |-> FALSE, infoVerified |-> FALSE]
    /\ visible \in Visible
    /\ driverOk \in BOOLEAN
    /\ epoch = 1 /\ found = FALSE /\ fdOk = FALSE
    /\ observed = NoBinding /\ identities = {}
    /\ info = [consumed |-> FALSE, binding |-> NoBinding, verified |-> FALSE, scope |-> None]
    /\ spent = FALSE
    /\ trial = -1
    /\ opened = FALSE /\ journal = <<>>
    /\ op = Idle
    /\ operations = 0
    /\ sent = <<>>

Unlocked == op = Idle

(* configure_rm: once per process; the authorized scope is the environment    *)
(* at that moment.                                                            *)
Configure(stage, authorized, owner) ==
    /\ Unlocked /\ ~ state.configured
    /\ state' = [state EXCEPT
           !.configured = TRUE, !.stage = stage, !.owner = owner,
           !.observing = driverOk /\ stage # "Disabled",
           !.authorized = authorized /\ stage = "GroupActive",
           !.authScope = IF authorized /\ stage = "GroupActive" THEN visible ELSE None]
    /\ UNCHANGED <<setupVars, registryVars, bindingVars, info, spent, journal, op,
                   operations, sent>>

NoteCudaReady(reviewed) ==
    /\ Unlocked /\ ~ state.cudaReady
    /\ state' = [state EXCEPT !.cudaReady = TRUE, !.gpuReviewed = reviewed]
    /\ UNCHANGED <<setupVars, registryVars, bindingVars, info, spent, journal, op,
                   operations, sent>>

(* note_group_cuda_scope: only a group stage with the CUDA device's full UUID *)
(* as the one visible device.                                                 *)
NoteScope ==
    /\ Unlocked
    /\ state.stage \in GroupStages /\ visible = Gpu
    /\ state' = [state EXCEPT !.scope = visible]
    /\ UNCHANGED <<setupVars, registryVars, bindingVars, info, spent, journal, op,
                   operations, sent>>

(* open_control_journal: once; it throws when the file already exists.        *)
OpenJournal ==
    /\ Unlocked /\ ~ opened
    /\ opened' = TRUE
    /\ UNCHANGED <<state, visible, driverOk, trial, registryVars, bindingVars,
                   info, spent, journal, op, operations, sent>>

RecordTrial(t) ==
    /\ Unlocked
    /\ trial' = t
    /\ UNCHANGED <<state, visible, driverOk, registryVars, bindingVars, info,
                   spent, journal, op, operations, sent, opened>>

(* inspect_owned_tsg: discover, keep the snapshot and hand out an identity.   *)
InspectGroup ==
    /\ Unlocked
    /\ EnvironmentCurrent /\ state.cudaReady /\ state.stage \in GroupStages
    /\ found /\ fdOk
    /\ observed' = epoch
    /\ identities' = identities \cup {epoch}
    /\ state' = [state EXCEPT !.bindingObserved = TRUE]
    /\ UNCHANGED <<setupVars, registryVars, info, spent, journal, op, operations,
                   sent>>

-----------------------------------------------------------------------------
(* GroupInfoOnce::query after the slot was found: AlreadyQueried, Abi,        *)
(* Binding, Stage and Device, in that order; any of them is final.            *)
QueryAccepted(b) ==
    /\ ~ info.consumed
    /\ state.observing
    /\ ValidGroup(b)
    /\ MayGroupInfo
    /\ fdOk

Started == operations < MaxOperations /\ operations' = operations + 1

(* get_group_info: without a current environment and the latest observed      *)
(* binding it returns before the journal; otherwise the query rejects into    *)
(* its slot or spends the one attempt.                                        *)
GetInfoRejected(b) ==
    /\ Unlocked /\ Started
    /\ EnvironmentCurrent /\ b = observed
    /\ ~ (HasSlot(journal) /\ QueryAccepted(b))
    /\ journal' = IF HasSlot(journal) THEN Rejected(journal, "GET_INFO", b) ELSE journal
    /\ UNCHANGED <<state, setupVars, registryVars, bindingVars, info, spent, op,
                   sent>>

GetInfoStart(b) ==
    /\ Unlocked /\ Started
    /\ EnvironmentCurrent /\ b = observed
    /\ HasSlot(journal) /\ QueryAccepted(b)
    /\ journal' = Append(journal, Issued("GET_INFO", b))
    /\ info' = [info EXCEPT !.consumed = TRUE, !.binding = b, !.scope = state.scope]
    /\ op' = [step |-> "query", binding |-> b, slot |-> Len(journal) + 1]
    /\ UNCHANGED <<state, setupVars, registryVars, bindingVars, spent, sent>>

GetInfoIoctl(ok) ==
    /\ op.step = "query"
    /\ sent' = Append(sent, [cmd |-> "GET_INFO", binding |-> op.binding, epoch |-> epoch,
                             ok |-> ok, visible |-> visible])
    /\ op' = [step |-> "queried", slot |-> op.slot, ok |-> ok]
    /\ UNCHANGED <<state, setupVars, registryVars, bindingVars, info, spent,
                   journal, operations>>

GetInfoReturn ==
    /\ op.step = "queried"
    /\ info' = [info EXCEPT !.verified = op.ok]
    /\ state' = [state EXCEPT !.infoVerified = @ \/ op.ok]
    /\ journal' = Completed(journal, op.slot, TRUE)
    /\ op' = Idle
    /\ UNCHANGED <<setupVars, registryVars, bindingVars, spent, operations, sent>>

-----------------------------------------------------------------------------
(* GroupPreemptOnce::action.  The common preparation, shared by the PREEMPT   *)
(* and by its no-op control.                                                  *)
Prepared(b) ==
    /\ state.observing
    /\ EnvironmentCurrent /\ ValidGroup(b)
    /\ fdOk
    /\ VerifiedFor(b)
    /\ state.owner = "Background"
    /\ state.gpuReviewed /\ state.scope # None
    /\ MayGroupInfo /\ state.stage \in {"GroupActive", "GroupNoop"} /\ trial = 0

(* The request's own gate, after its slot was found.                          *)
PreemptAccepted(inRange, targetCompleted) ==
    /\ ~ spent
    /\ inRange
    /\ state.stage = "GroupActive"
    /\ state.authorized
    /\ state.authScope # None /\ state.authScope = state.scope
    /\ MayGroupPreempt
    /\ ~ targetCompleted

ActionStart(b, noop, inRange, targetCompleted) ==
    /\ Unlocked /\ Started
    /\ b \in identities
    /\ \/ /\ ~ HasSlot(journal)
          /\ UNCHANGED <<journal, op>>
       \/ /\ HasSlot(journal)
          /\ journal' = Append(journal, Issued("PREPARE", b))
          /\ op' = [step |-> "prepare", binding |-> b, slot |-> Len(journal) + 1,
                    noop |-> noop, inRange |-> inRange, completed |-> targetCompleted]
    /\ UNCHANGED <<state, setupVars, registryVars, bindingVars, info, spent, sent>>

(* Rejected in preparation, or the no-op, which is skipped by design.         *)
ActionSkip ==
    /\ op.step = "prepare"
    /\ ~ Prepared(op.binding) \/ op.noop
    /\ journal' = Completed(journal, op.slot, FALSE)
    /\ op' = Idle
    /\ UNCHANGED <<state, setupVars, registryVars, bindingVars, info, spent,
                   operations, sent>>

PreemptRejected ==
    /\ op.step = "prepare"
    /\ Prepared(op.binding) /\ ~ op.noop
    /\ ~ (HasSlot(journal) /\ PreemptAccepted(op.inRange, op.completed))
    /\ journal' = IF HasSlot(journal)
                  THEN Rejected(Completed(journal, op.slot, FALSE), "PREEMPT", op.binding)
                  ELSE Completed(journal, op.slot, FALSE)
    /\ op' = Idle
    /\ UNCHANGED <<state, setupVars, registryVars, bindingVars, info, spent,
                   operations, sent>>

PreemptStart ==
    /\ op.step = "prepare"
    /\ Prepared(op.binding) /\ ~ op.noop
    /\ HasSlot(journal) /\ PreemptAccepted(op.inRange, op.completed)
    /\ journal' = Append(journal, Issued("PREEMPT", op.binding))
    /\ spent' = TRUE
    /\ op' = [step |-> "preempt", binding |-> op.binding,
              prepSlot |-> op.slot, slot |-> Len(journal) + 1]
    /\ UNCHANGED <<state, setupVars, registryVars, bindingVars, info, operations,
                   sent>>

PreemptIoctl(ok) ==
    /\ op.step = "preempt"
    /\ sent' = Append(sent, [cmd |-> "PREEMPT", binding |-> op.binding, epoch |-> epoch,
                             ok |-> ok, visible |-> visible])
    /\ op' = [op EXCEPT !.step = "preempted"]
    /\ UNCHANGED <<state, setupVars, registryVars, bindingVars, info, spent,
                   journal, operations>>

\* Variant: the slot of the preparation is left in flight.
PreemptReturnUnprepared ==
    /\ op.step = "preempted"
    /\ journal' = Completed(journal, op.slot, TRUE)
    /\ op' = Idle
    /\ UNCHANGED <<state, setupVars, registryVars, bindingVars, info, spent,
                   operations, sent>>

PreemptReturn ==
    /\ op.step = "preempted"
    /\ journal' = Completed(Completed(journal, op.slot, TRUE), op.prepSlot, FALSE)
    /\ op' = Idle
    /\ UNCHANGED <<state, setupVars, registryVars, bindingVars, info, spent,
                   operations, sent>>

-----------------------------------------------------------------------------
(* The surroundings: observed ioctls move the registry while the lock is      *)
(* free, and code outside this module may change the environment.             *)
TopologyChanges ==
    /\ Unlocked /\ epoch < MaxEpoch
    /\ epoch' = epoch + 1
    /\ found' \in BOOLEAN /\ fdOk' \in BOOLEAN
    /\ UNCHANGED <<state, setupVars, bindingVars, info, spent, journal, op,
                   operations, sent>>

AmbiguityChanges ==
    /\ Unlocked
    /\ found' = ~ found
    /\ UNCHANGED <<epoch, fdOk, state, setupVars, bindingVars, info, spent,
                   journal, op, operations, sent>>

EnvironmentChanges ==
    /\ Unlocked
    /\ \/ visible' \in Visible \ {visible} /\ UNCHANGED driverOk
       \/ driverOk /\ driverOk' = FALSE /\ UNCHANGED visible
    /\ UNCHANGED <<state, trial, registryVars, bindingVars, info, spent, journal,
                   op, operations, sent, opened>>

Next ==
    \/ \E stage \in Stages, authorized \in BOOLEAN, owner \in Owners :
           Configure(stage, authorized, owner)
    \/ \E reviewed \in BOOLEAN : NoteCudaReady(reviewed)
    \/ NoteScope
    \/ OpenJournal
    \/ \E t \in Trials : RecordTrial(t)
    \/ InspectGroup
    \/ \E b \in identities : GetInfoRejected(b)
    \/ \E b \in identities : GetInfoStart(b)
    \/ \E ok \in BOOLEAN : GetInfoIoctl(ok)
    \/ GetInfoReturn
    \/ \E b \in identities, noop, inRange, completed \in BOOLEAN :
           ActionStart(b, noop, inRange, completed)
    \/ ActionSkip
    \/ PreemptRejected
    \/ PreemptStart
    \/ \E ok \in BOOLEAN : PreemptIoctl(ok)
    \/ PreemptReturn
    \/ TopologyChanges
    \/ AmbiguityChanges
    \/ EnvironmentChanges

Spec == Init /\ [][Next]_vars

-----------------------------------------------------------------------------
RequestsOf(cmd) == {i \in DOMAIN sent : sent[i].cmd = cmd}

(* Type invariant.  A slot is published by the operation that completes it    *)
(* before it lets go of the lock, so an idle process has none in flight.      *)
GroupTypeOK ==
    /\ state.stage \in Stages /\ state.owner \in Owners
    /\ state.scope \in {None, Gpu} /\ state.authScope \in Visible \cup {None}
    /\ visible \in Visible /\ trial \in Trials
    /\ epoch \in Epochs
    /\ observed \in identities \cup {NoBinding} /\ identities \subseteq Epochs
    /\ info.binding \in identities \cup {NoBinding}
    /\ \A i \in DOMAIN journal : journal[i].state \in {"issued", "returned"}
    /\ Unlocked => \A i \in DOMAIN journal : journal[i].state = "returned"

(* A process sends at most one GET_INFO and one PREEMPT in its life, whatever *)
(* the RM answered, however the binding moved and was observed again, and     *)
(* however often the caller retries (group_query_internal.cpp 42, 113).       *)
AtMostOncePerProcess ==
    \A cmd \in {"GET_INFO", "PREEMPT"} : Cardinality(RequestsOf(cmd)) <= 1

(* The PREEMPT of a process names the group its one successful GET_INFO was   *)
(* about, and that group is unchanged from the query to the PREEMPT: a flag   *)
(* that some query succeeded does not verify a reused handle (55-58, 82-90).  *)
PreemptOnQueriedBinding ==
    \A i \in RequestsOf("PREEMPT") :
        /\ sent[i].binding = sent[i].epoch
        /\ \E q \in RequestsOf("GET_INFO") :
                q < i /\ sent[q].ok /\ sent[q].binding = sent[i].binding

(* A PREEMPT leaves only a Background owner in the authorized active stage,   *)
(* while the visible device is the one authorized when the process was        *)
(* configured, the one CUDA reported, and the one the query ran under; the    *)
(* no-op and the read-only stages never send one (driver_profile.cpp 38-41,   *)
(* group_query_internal.cpp 84-111).                                          *)
PreemptScopeAuthorized ==
    \A i \in RequestsOf("PREEMPT") :
        /\ state.stage = "GroupActive" /\ state.owner = "Background"
        /\ state.authorized
        /\ sent[i].visible = state.authScope
        /\ \A q \in RequestsOf("GET_INFO") : sent[q].visible = sent[i].visible

(* What a process sends is licensed: each request at most once, the PREEMPT   *)
(* on the group that was queried and under the scope that was authorized.     *)
RequestsLicensed == AtMostOncePerProcess /\ PreemptOnQueriedBinding /\ PreemptScopeAuthorized

(* In every state a reader of the journal, after a crash or not, counts the   *)
(* requests right: each one sent has a recovered record on the same binding   *)
(* that does not deny it, and no record claims a request that was not sent    *)
(* (control_events.cpp 68-93; the slot is published before the ioctl and      *)
(* completed before anything else happens).                                   *)
EvidenceCovers ==
    \A cmd \in {"GET_INFO", "PREEMPT"}, b \in Epochs :
        LET records(att) == Cardinality({i \in DOMAIN Recovered :
                Recovered[i].cmd = cmd /\ Recovered[i].binding = b
                    /\ Recovered[i].attempted \in att})
            requests == Cardinality({i \in RequestsOf(cmd) : sent[i].binding = b})
        IN  /\ records({"yes"}) <= requests
            /\ requests <= records({"yes", "unknown"})

(* Every behaviour is one the one-shot contract allows: one question, and at  *)
(* most one use, of the group asked about, after a good answer.               *)
Contract == INSTANCE OneShotControl WITH
    Targets  <- Epochs,
    NoTarget <- NoBinding,
    phase    <- IF info.verified THEN "verified"
                ELSE IF ~ info.consumed THEN "unasked"
                ELSE IF op.step \in {"query", "queried"} THEN "asked" ELSE "refused",
    target   <- info.binding,
    applied  <- IF RequestsOf("PREEMPT") = {} THEN NoBinding
                ELSE sent[Min(RequestsOf("PREEMPT"))].binding,
    uses     <- Cardinality(RequestsOf("PREEMPT"))

ImplementsContract == Contract!Spec
=============================================================================
