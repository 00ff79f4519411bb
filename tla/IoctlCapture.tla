----------------------------- MODULE IoctlCapture -----------------------------
(***************************************************************************)
(* The ioctl hook of rm_control.cpp as the caller of the registry: what it *)
(* makes of every ioctl it sees, and the duplicate of the control          *)
(* descriptor it keeps for each client until the client is freed.          *)
(*                                                                         *)
(* Around it are the process and the driver: a descriptor table in which   *)
(* the application opens and closes what is its own, and the driver's own  *)
(* table of objects.  The hook holds its lock from the system call to the  *)
(* last registry call: "event" is what is left to do of it.  An ioctl that *)
(* does not go through the hook is "hidden".  The assumption: the          *)
(* application closes only descriptors it opened, and none of them while   *)
(* an ioctl on it is under way.                                            *)
(***************************************************************************)
EXTENDS ObjectRegistry

CONSTANTS
    ObservationCapacity,  \* size of the reserved vector of observations
    MaxOpens,             \* bound: files opened
    MaxHidden             \* bound: ioctls that bypass the hook

ASSUME CaptureAssumption ==
    /\ ObservationCapacity \in Nat
    /\ MaxOpens \in Nat /\ MaxHidden \in Nat

VARIABLES
    table,         \* the descriptor table: number -> open file, and who opened it
    opened,        \* files opened so far, also the name of the last one
    rm,            \* the driver's objects, a graph whose generations are 0 and 1
    home,          \* the driver's clients: the file each was allocated on
    hidden,        \* history: ioctls that bypassed the hook
    stage,         \* state.configured and state.observation_enabled
    early,         \* early_ioctls is not 0
    observations,  \* observations.size()
    event,         \* the decoded ioctl the hook is working on
    allocating,    \* allocating_fds
    binding        \* a binding kept by the capture, with the file it was taken on

process == <<table, opened>>
driver == <<rm, home, hidden>>
hook == <<stage, early, observations, event, allocating, binding>>
ioctlVars == <<registryVars, process, driver, hook>>

Closed == [file |-> 0, kind |-> "none", by |-> "none"]
NoFile == 0
NoEvent == [action |-> "None"]
Unbound == [client |-> NoClass]

CaptureInit ==
    /\ Init
    /\ table = [d \in Fds |-> Closed] /\ opened = 0
    /\ rm = [k \in Keys |-> NoNode(k)]
    /\ home = [c \in Clients |-> NoFile]
    /\ hidden = 0
    /\ stage = "before" /\ early = FALSE /\ observations = 0
    /\ event = NoEvent
    /\ allocating = [c \in Clients |-> NoFd]
    /\ binding = Unbound

Unlocked == event = NoEvent

-----------------------------------------------------------------------------
(* The process and the driver: external.                                      *)
FreeFds == {d \in Fds : table[d] = Closed}

\* POSIX hands out the lowest number that is free.
LowestFree(d) == d \in FreeFds /\ \A other \in FreeFds : d <= other

OnFile(file) == {c \in Clients : home[c] = file}

\* The last descriptor of a file takes the clients allocated on it along.
DropFile(d) ==
    LET file == table[d].file
        gone == IF \E other \in Fds \ {d} : table[other].file = file THEN {} ELSE OnFile(file)
    IN  /\ table' = [table EXCEPT ![d] = Closed]
        /\ rm' = Erased(rm, gone \X Handles)
        /\ home' = [c \in Clients |-> IF c \in gone THEN NoFile ELSE home[c]]

Open(d, kind) ==
    /\ opened < MaxOpens /\ LowestFree(d)
    /\ opened' = opened + 1
    /\ table' = [table EXCEPT ![d] = [file |-> opened + 1, kind |-> kind, by |-> "app"]]
    /\ UNCHANGED <<registryVars, driver, hook>>

Close(d) ==
    /\ table[d].by = "app"
    /\ event # NoEvent => event.fd # d
    /\ DropFile(d)
    /\ UNCHANGED <<registryVars, opened, hidden, hook>>

Exists(k) == rm[k].gen # 0
IsRoot(k) == k[1] = k[2]

\* The driver refuses a handle in use and a parent that does not exist.
Allocatable(k, p, cls) ==
    /\ ~ Exists(k)
    /\ cls = "root" <=> IsRoot(k)
    /\ IsRoot(k) \/ Exists(<<k[1], p>>)

AllocateInDriver(k, p, cls, file) ==
    /\ rm' = [rm EXCEPT ![k] = [cls |-> cls, gen |-> 1, parent |-> p,
                                pgen |-> IF IsRoot(k) THEN 0 ELSE 1]]
    /\ home' = IF IsRoot(k) THEN [home EXCEPT ![k[1]] = file] ELSE home

\* What a FREE of k takes along.
FreedWith(k) == IF IsRoot(k) THEN {a \in Keys : a[1] = k[1]} ELSE Doomed(rm, k)

FreeInDriver(k) ==
    /\ rm' = Erased(rm, FreedWith(k))
    /\ home' = IF IsRoot(k) THEN [home EXCEPT ![k[1]] = NoFile] ELSE home

Hide ==
    /\ hidden < MaxHidden
    /\ hidden' = hidden + 1
    /\ UNCHANGED <<registryVars, process, hook>>

HiddenAllocate(d, k, p, cls) ==
    /\ Hide
    /\ table[d].by = "app" /\ Allocatable(k, p, cls)
    /\ AllocateInDriver(k, p, cls, table[d].file)

HiddenFree(k) ==
    /\ Hide
    /\ Exists(k)
    /\ FreeInDriver(k)

-----------------------------------------------------------------------------
(* ioctl() and the first half of observe().                                   *)
Observe(e) ==
    \/ /\ stage = "before"
       /\ early' = TRUE
       /\ UNCHANGED <<registryVars, observations, event>>
    \/ /\ stage # "before" /\ observations >= ObservationCapacity
       /\ Incomplete
       /\ UNCHANGED <<early, observations, event>>
    \/ /\ stage # "before" /\ observations < ObservationCapacity
       /\ observations' = observations + 1
       /\ UNCHANGED early
       /\ \/ /\ stage = "off" \/ e.action = "Metadata"
             /\ UNCHANGED <<registryVars, event>>
          \/ /\ stage = "on" /\ e.action = "Unsupported"
             /\ Incomplete
             /\ UNCHANGED event
          \/ /\ stage = "on" /\ e.action \notin {"Metadata", "Unsupported"}
             /\ event' = e
             /\ UNCHANGED registryVars

Ioctl(d, e) ==
    /\ Unlocked
    /\ table[d].by = "app"
    /\ Observe(e)
    /\ UNCHANGED <<process, hidden, stage, allocating, binding>>

Decoded(action, d, k, p, cls) ==
    [action |-> action, fd |-> d, client |-> k[1], object |-> k[2], parent |-> p, cls |-> cls]

\* An envelope or a flag decode_observation() does not know.
Forms(action) == {action, "Unsupported"}

AllocateIoctl(d, k, p, cls, form) ==
    /\ Allocatable(k, p, cls)
    /\ AllocateInDriver(k, p, cls, table[d].file)
    /\ Ioctl(d, Decoded(form, d, k, p, cls))

FreeIoctl(d, k, form) ==
    /\ Exists(k)
    /\ FreeInDriver(k)
    /\ Ioctl(d, Decoded(form, d, k, k[2], NoClass))

BindIoctl(d, k, form) ==
    /\ Exists(k)
    /\ UNCHANGED <<rm, home>>
    /\ Ioctl(d, Decoded(form, d, k, k[2], NoClass))

\* One that failed, or that allocates, frees and binds nothing.
OtherIoctl(d) ==
    /\ UNCHANGED <<rm, home>>
    /\ Ioctl(d, [action |-> "Metadata"])

-----------------------------------------------------------------------------
(* The second half of observe().                                              *)
CannotRetain ==
    /\ event.action = "Allocate" /\ ~ HasClient(event.client)
    /\ table[event.fd].kind # "control" \/ FreeFds = {}
    /\ Incomplete
    /\ event' = NoEvent
    /\ UNCHANGED <<process, driver, stage, early, observations, allocating, binding>>

\* The first allocation of a client: F_DUPFD_CLOEXEC, then client().
Retain(held) ==
    /\ event.action = "Allocate" /\ ~ HasClient(event.client)
    /\ table[event.fd].kind = "control" /\ LowestFree(held)
    /\ Client(event.client, held)
    /\ table' = [table EXCEPT ![held] = [table[event.fd] EXCEPT !.by = "capture"]]
    /\ allocating' = [allocating EXCEPT ![event.client] = event.fd]
    /\ event' = [event EXCEPT !.action = "Insert"]
    /\ UNCHANGED <<opened, driver, stage, early, observations, binding>>

Insert ==
    /\ event.action \in {"Insert", "Allocate"}
    /\ event.action = "Allocate" => HasClient(event.client)
    /\ Allocate(event.client, event.object, event.parent, event.cls)
    /\ event' = NoEvent
    /\ UNCHANGED <<process, driver, stage, early, observations, allocating, binding>>

FreeObserved ==
    /\ event.action = "Free" /\ event.client # event.object
    /\ FreeObject(event.client, event.object)
    /\ event' = NoEvent
    /\ UNCHANGED <<process, driver, stage, early, observations, allocating, binding>>

\* Variant: the duplicate is not closed.
FreeClientKeepsOpen ==
    /\ event.action = "Free" /\ event.client = event.object
    /\ FreeClient(event.client)
    /\ allocating' = [allocating EXCEPT ![event.client] = NoFd]
    /\ event' = NoEvent
    /\ UNCHANGED <<process, driver, stage, early, observations, binding>>

FreeClientObserved ==
    /\ event.action = "Free" /\ event.client = event.object
    /\ FreeClient(event.client)
    /\ IF HasClient(event.client)
       THEN /\ DropFile(clients[event.client].fd)
            /\ allocating' = [allocating EXCEPT ![event.client] = NoFd]
       ELSE UNCHANGED <<table, rm, home, allocating>>
    /\ event' = NoEvent
    /\ UNCHANGED <<opened, hidden, stage, early, observations, binding>>

BindObserved ==
    /\ event.action = "Bind"
    /\ Bind(event.client, event.object)
    /\ event' = NoEvent
    /\ UNCHANGED <<process, driver, stage, early, observations, allocating, binding>>

-----------------------------------------------------------------------------
\* Variant: ioctls from before the configuration are forgotten.
ConfigureAnyTime(enabled) ==
    /\ Unlocked /\ stage = "before"
    /\ stage' = IF enabled THEN "on" ELSE "off"
    /\ UNCHANGED <<registryVars, process, driver, early, observations, event, allocating, binding>>

\* configure_rm(): once; what happened before makes the capture incomplete.
Configure(enabled) ==
    /\ Unlocked /\ stage = "before"
    /\ stage' = IF enabled THEN "on" ELSE "off"
    /\ IF early THEN Incomplete ELSE UNCHANGED registryVars
    /\ UNCHANGED <<process, driver, early, observations, event, allocating, binding>>

RetainedControlFdValid(d) == table[d].kind = "control"

\* The inspections keep the owner of a group; the rest of what they find, and when
\* they find it, is in BindingSnapshot.
TakeBinding(c) ==
    /\ Unlocked /\ stage = "on" /\ binding = Unbound
    /\ ~ incomplete /\ HasClient(c)
    /\ \E h \in Handles : current[<<c, h>>].cls = "group"
    /\ RetainedControlFdValid(clients[c].fd) /\ allocating[c] # NoFd
    /\ binding' = [client |-> c, owner |-> clients[c], file |-> table[clients[c].fd].file]
    /\ UNCHANGED <<registryVars, process, driver, stage, early, observations, event, allocating>>

\* Variant: the number of the descriptor is compared, not the life of the client.
OwnerNumber(b) == ~ incomplete /\ HasClient(b.client) /\ clients[b.client].fd = b.owner.fd

\* The part of valid() and valid_group() about the client.
OwnerCurrent(b) == ~ incomplete /\ HasClient(b.client) /\ clients[b.client] = b.owner

CaptureNext ==
    /\ WithinBounds
    /\ \/ \E enabled \in BOOLEAN : Configure(enabled)
       \/ \E c \in Clients : TakeBinding(c)
       \/ \E k \in Keys : HiddenFree(k)
       \/ \E d \in Fds :
           \/ \E kind \in {"control", "device"} : Open(d, kind)
           \/ Close(d) \/ OtherIoctl(d) \/ Retain(d)
           \/ \E c \in Clients, shape \in AllocShapes :
               LET k == <<c, shape[1]>> IN
               \/ \E form \in Forms("Allocate") : AllocateIoctl(d, k, shape[2], shape[3], form)
               \/ HiddenAllocate(d, k, shape[2], shape[3])
           \/ \E k \in Keys :
               \/ \E form \in Forms("Free") : FreeIoctl(d, k, form)
               \/ \E form \in Forms("Bind") : BindIoctl(d, k, form)
       \/ CannotRetain \/ Insert \/ FreeObserved \/ FreeClientObserved \/ BindObserved

CaptureSpec == CaptureInit /\ [][CaptureNext]_ioctlVars

-----------------------------------------------------------------------------
(* Properties.                                                                *)
\* The control of a kept binding goes to the open file it was taken on, or is
\* refused: although the descriptor is closed when the client is freed and its
\* number handed out again, perhaps to a control file or to the next life of the
\* same client (observe(), line 73; object_binding.md, lifetime of the descriptor).
ControlReachesItsFile ==
    binding # Unbound /\ OwnerCurrent(binding) =>
        table[binding.owner.fd].file = binding.file /\ RetainedControlFdValid(binding.owner.fd)

\* While the capture is complete it holds exactly one descriptor for each client it
\* knows, no two of them the same number, on the file the driver has the client on;
\* nothing leaks, nothing is closed twice.
OneDescriptorPerClient ==
    ~ incomplete /\ (Unlocked \/ event.action # "Insert") =>
        LET known == {c \in Clients : HasClient(c)} IN
        /\ {d \in Fds : table[d].by = "capture"} = {clients[c].fd : c \in known}
        /\ \A b, c \in known : clients[b].fd = clients[c].fd => b = c
        /\ \A c \in known :
            /\ allocating[c] # NoFd
            /\ hidden = 0 /\ Unlocked => table[clients[c].fd].file = home[c]

\* A capture that calls itself complete has the driver's objects: nothing from
\* before the configuration, no envelope it could not decode and no client that
\* ended with its file is missing or left over.
CompleteMirrorsDriver ==
    stage = "on" /\ Unlocked /\ ~ incomplete /\ hidden = 0 =>
        /\ \A k \in Keys :
            /\ Live(k) <=> Exists(k)
            /\ Exists(k) => current[k].cls = rm[k].cls /\ current[k].parent = rm[k].parent
        /\ \A c \in Clients : HasClient(c) <=> Exists(<<c, c>>)
=============================================================================
