-------------------------- MODULE IoctlCapture_proofs --------------------------
(***************************************************************************)
(* The hook is a correct caller of the registry: every step of the capture *)
(* is an operation of the registry, or none, so what Registry_proofs       *)
(* shows for every caller holds for this one.  On top of it, the argument  *)
(* that a kept binding never reaches another file: a client that is known  *)
(* has a descriptor only the capture may close, it closes it in the step   *)
(* that forgets the client, and the next client gets a new generation.     *)
(*                                                                         *)
(* A complete capture mirrors the driver because only the stage of a call  *)
(* may separate them: the driver has acted and the hook has not observed   *)
(* it yet, and the two are equal again when it has (MirrorOK).  What makes *)
(* the two erasures equal is that both take the least closed set of nodes  *)
(* above what was freed or replaced (DoomedIsLeast).                       *)
(***************************************************************************)
EXTENDS IoctlCapture, Registry_proofs

Entry == [file : Nat, kind : {"none", "control", "device"}, by : {"none", "app", "capture"}]

DecodedEvent ==
    [action : {"Allocate", "Insert", "Free", "Bind"}, fd : Fds, client : Clients,
     object : Handles, parent : Handles, cls : Classes \cup {NoClass}]

EventTyped ==
    /\ event = NoEvent \/ event \in DecodedEvent
    /\ event.action \in {"Allocate", "Insert"} =>
        <<event.object, event.parent, event.cls>> \in AllocShapes

TableTyped == table \in [Fds -> Entry] /\ opened \in Nat

\* The descriptor of a known client is the capture's own, and no other client's.
HeldOK ==
    /\ \A c \in Clients : HasClient(c) =>
        /\ clients[c].fd \in Fds
        /\ table[clients[c].fd].by = "capture" /\ table[clients[c].fd].kind = "control"
    /\ \A b, c \in Clients : HasClient(b) /\ HasClient(c) /\ clients[b].fd = clients[c].fd => b = c

\* A kept owner is of the past: a client of its handle is that owner, on the file the
\* binding was taken on, or has another generation.
BindingOK ==
    binding # Unbound =>
        /\ binding.client \in Clients
        /\ binding.owner.gen \in Nat /\ 0 < binding.owner.gen /\ binding.owner.gen < next
        /\ clients[binding.client] = binding.owner =>
            table[binding.owner.fd].file = binding.file

CaptureInv == RInv /\ EventTyped /\ TableTyped /\ HeldOK /\ BindingOK

-----------------------------------------------------------------------------
(* An event the hook decoded is well formed.                                  *)
LEMMA DecodedIsTyped ==
    ASSUME NEW action \in {"Allocate", "Insert", "Free", "Bind"}, NEW d \in Fds,
           NEW k \in Keys, NEW p \in Handles, NEW cls \in Classes \cup {NoClass}
    PROVE  /\ Decoded(action, d, k, p, cls) \in DecodedEvent
           /\ Decoded(action, d, k, p, cls).action = action
           /\ Decoded(action, d, k, p, cls).object = k[2]
           /\ Decoded(action, d, k, p, cls).parent = p
           /\ Decoded(action, d, k, p, cls).cls = cls
BY DEF Decoded, DecodedEvent, Keys

(* The event after an ioctl is the one before, or the one the ioctl was.      *)
LEMMA IoctlIsTyped ==
    ASSUME NEW d \in Fds, NEW e, Ioctl(d, e), EventTyped,
           \/ e.action \in {"Metadata", "Unsupported"}
           \/ /\ e \in DecodedEvent
              /\ e.action \in {"Allocate", "Insert"} =>
                    <<e.object, e.parent, e.cls>> \in AllocShapes
    PROVE  /\ EventTyped'
           /\ Incomplete \/ UNCHANGED registryVars
           /\ UNCHANGED <<table, opened, binding>>
BY DEF Ioctl, Observe, EventTyped, Unlocked, process

-----------------------------------------------------------------------------
(* The steps that touch neither the registry's clients, nor a descriptor of   *)
(* the capture, nor the binding.                                              *)
LEMMA UndisturbedPreserves ==
    ASSUME RInv, HeldOK, BindingOK, UNCHANGED <<clients, binding>>,
           next' \in Nat /\ next <= next',
           \A d \in Fds : table[d].by = "capture" => table'[d] = table[d]
    PROVE  HeldOK' /\ BindingOK'
<1>1. next \in Nat
  BY DEF RInv, GraphOK
<1>2. HeldOK'
  BY DEF HeldOK, HasClient
<1>3. BindingOK'
  BY <1>1 DEF HeldOK, HasClient, BindingOK
<1> QED BY <1>2, <1>3

(* A registry operation the hook calls keeps the generations counting up.     *)
LEMMA OperationsCountUp ==
    ASSUME next \in Nat,
           \/ \E c \in Clients, h, p \in Handles, cls \in Classes : Allocate(c, h, p, cls)
           \/ \E c \in Clients, h \in Handles : Bind(c, h) \/ FreeObject(c, h)
           \/ Incomplete
    PROVE  next' \in Nat /\ next <= next' /\ UNCHANGED clients
<1>1. ASSUME NEW c \in Clients, NEW h \in Handles, NEW p \in Handles, NEW cls \in Classes,
             Allocate(c, h, p, cls)
      PROVE  next' \in {next, next + 1} /\ UNCHANGED clients
  BY <1>1 DEF Allocate
<1>2. ASSUME NEW c \in Clients, NEW h \in Handles, Bind(c, h) \/ FreeObject(c, h)
      PROVE  next' \in {next, next + 1} /\ UNCHANGED clients
  BY <1>2 DEF Bind, FreeObject
<1>3. ASSUME Incomplete PROVE next' = next /\ UNCHANGED clients
  BY <1>3 DEF Incomplete
<1> QED BY <1>1, <1>2, <1>3

(* Any step of the driver and the application that the registry does not see, *)
(* or sees as an ioctl it has only decoded.                                   *)
LEMMA OutsidePreserves ==
    ASSUME CaptureInv, UNCHANGED registryVars \/ Incomplete,
           EventTyped', TableTyped', UNCHANGED binding,
           \A d \in Fds : table[d].by = "capture" => table'[d] = table[d]
    PROVE  CaptureInv'
<1>1. next \in Nat
  BY DEF CaptureInv, RInv, GraphOK
<1>2. next' \in Nat /\ next <= next' /\ UNCHANGED clients
  BY <1>1, OperationsCountUp DEF registryVars
<1>3. HeldOK' /\ BindingOK'
  BY <1>2, UndisturbedPreserves DEF CaptureInv
<1>4. RInv'
  <2>1. CASE UNCHANGED registryVars
    BY <2>1, NextPreserves DEF CaptureInv
  <2>2. CASE Incomplete
    BY <2>2, IncompletePreserves DEF CaptureInv
  <2> QED BY <2>1, <2>2
<1> QED BY <1>3, <1>4 DEF CaptureInv

-----------------------------------------------------------------------------
(* The application opens the lowest free number, which is nobody's, or closes *)
(* one of its own; what the driver drops with it the registry does not see.   *)
LEMMA OpenPreserves ==
    ASSUME CaptureInv, NEW d \in Fds, NEW kind \in {"control", "device"}, Open(d, kind)
    PROVE  CaptureInv' /\ UNCHANGED registryVars
<1>1. table[d].by = "none"
  BY DEF Open, LowestFree, FreeFds, Closed
<1>2. TableTyped'
  BY DEF CaptureInv, TableTyped, Open, Entry
<1>3. EventTyped' /\ UNCHANGED binding /\ UNCHANGED registryVars
  BY DEF CaptureInv, EventTyped, Open, hook
<1>4. \A f \in Fds : table[f].by = "capture" => table'[f] = table[f]
  BY <1>1 DEF Open, CaptureInv, TableTyped
<1> QED BY <1>2, <1>3, <1>4, OutsidePreserves

LEMMA ClosePreserves ==
    ASSUME CaptureInv, NEW d \in Fds, Close(d)
    PROVE  CaptureInv' /\ UNCHANGED registryVars
<1>1. table[d].by = "app" /\ table' = [table EXCEPT ![d] = Closed]
  BY DEF Close, DropFile
<1>2. TableTyped'
  BY <1>1 DEF CaptureInv, TableTyped, Entry, Close, Closed
<1>3. EventTyped' /\ UNCHANGED binding /\ UNCHANGED registryVars
  BY DEF CaptureInv, EventTyped, Close, hook
<1>4. \A f \in Fds : table[f].by = "capture" => table'[f] = table[f]
  BY <1>1 DEF CaptureInv, TableTyped
<1> QED BY <1>2, <1>3, <1>4, OutsidePreserves

(* An ioctl that bypasses the hook.                                           *)
LEMMA HiddenPreserves ==
    ASSUME CaptureInv, Hide
    PROVE  CaptureInv' /\ UNCHANGED registryVars
<1>1. UNCHANGED registryVars /\ UNCHANGED <<table, opened, event, binding>>
  BY DEF Hide, process, hook
<1>2. EventTyped' /\ TableTyped'
  BY <1>1 DEF CaptureInv, EventTyped, TableTyped
<1> QED BY <1>1, <1>2, OutsidePreserves

(* An ioctl the hook sees: decoded, or counted only.                          *)
LEMMA IoctlPreserves ==
    ASSUME CaptureInv, NEW d \in Fds, NEW e, Ioctl(d, e),
           \/ e.action \in {"Metadata", "Unsupported"}
           \/ /\ e \in DecodedEvent
              /\ e.action \in {"Allocate", "Insert"} =>
                    <<e.object, e.parent, e.cls>> \in AllocShapes
    PROVE  CaptureInv' /\ (Incomplete \/ UNCHANGED registryVars)
<1>1. /\ EventTyped'
      /\ Incomplete \/ UNCHANGED registryVars
      /\ UNCHANGED <<table, opened, binding>>
  BY IoctlIsTyped DEF CaptureInv
<1>2. TableTyped'
  BY <1>1 DEF CaptureInv, TableTyped
<1> QED BY <1>1, <1>2, OutsidePreserves

LEMMA AllocateIoctlPreserves ==
    ASSUME CaptureInv, NEW d \in Fds, NEW c \in Clients, NEW shape \in AllocShapes,
           NEW form \in Forms("Allocate"), AllocateIoctl(d, <<c, shape[1]>>, shape[2], shape[3], form)
    PROVE  CaptureInv' /\ (Incomplete \/ UNCHANGED registryVars)
<1> DEFINE k == <<c, shape[1]>>
           e == Decoded(form, d, k, shape[2], shape[3])
<1>1. /\ shape[1] \in Handles /\ shape[2] \in Handles /\ shape[3] \in Classes
      /\ shape = <<shape[1], shape[2], shape[3]>> /\ k \in Keys
  BY RegistryAssumption DEF RegistryAssumption, Keys
<1>2. Ioctl(d, e)
  BY DEF AllocateIoctl
<1>3. CASE form = "Allocate"
  <2>1. e \in DecodedEvent /\ <<e.object, e.parent, e.cls>> \in AllocShapes
    BY <1>1, <1>3 DEF Decoded, DecodedEvent
  <2> QED BY <1>2, <2>1, IoctlPreserves
<1>4. CASE form = "Unsupported"
  <2>1. e.action = "Unsupported"
    BY <1>4 DEF Decoded
  <2> QED BY <1>2, <2>1, IoctlPreserves
<1> QED BY <1>3, <1>4 DEF Forms

LEMMA FreeIoctlPreserves ==
    ASSUME CaptureInv, NEW d \in Fds, NEW k \in Keys,
           NEW form \in Forms("Free"), FreeIoctl(d, k, form)
    PROVE  CaptureInv' /\ (Incomplete \/ UNCHANGED registryVars)
<1> DEFINE e == Decoded(form, d, k, k[2], NoClass)
<1>1. Ioctl(d, e)
  BY DEF FreeIoctl
<1>2. e.action \in {"Metadata", "Unsupported"} \/ (e \in DecodedEvent /\ e.action = "Free")
  BY DEF Forms, Decoded, DecodedEvent, Keys
<1> QED BY <1>1, <1>2, IoctlPreserves

LEMMA BindIoctlPreserves ==
    ASSUME CaptureInv, NEW d \in Fds, NEW k \in Keys,
           NEW form \in Forms("Bind"), BindIoctl(d, k, form)
    PROVE  CaptureInv' /\ (Incomplete \/ UNCHANGED registryVars)
<1> DEFINE e == Decoded(form, d, k, k[2], NoClass)
<1>1. Ioctl(d, e)
  BY DEF BindIoctl
<1>2. e.action \in {"Metadata", "Unsupported"} \/ (e \in DecodedEvent /\ e.action = "Bind")
  BY DEF Forms, Decoded, DecodedEvent, Keys
<1> QED BY <1>1, <1>2, IoctlPreserves

LEMMA OtherIoctlPreserves ==
    ASSUME CaptureInv, NEW d \in Fds, OtherIoctl(d)
    PROVE  CaptureInv' /\ (Incomplete \/ UNCHANGED registryVars)
BY IoctlPreserves DEF OtherIoctl

-----------------------------------------------------------------------------
(* The second half of the hook, where the registry is called.                 *)
LEMMA CannotRetainPreserves ==
    ASSUME CaptureInv, CannotRetain
    PROVE  CaptureInv' /\ Incomplete
<1>1. Incomplete /\ event' = NoEvent /\ UNCHANGED <<table, opened, binding>>
  BY DEF CannotRetain, process
<1>2. EventTyped' /\ TableTyped'
  BY <1>1 DEF CaptureInv, EventTyped, TableTyped, NoEvent
<1> QED BY <1>1, <1>2, OutsidePreserves

(* The event the hook works on names known handles.                           *)
LEMMA EventNames ==
    ASSUME EventTyped, event # NoEvent
    PROVE  event.client \in Clients /\ event.object \in Handles /\ event.fd \in Fds
BY DEF EventTyped, DecodedEvent

(* The registry is told of an object.                                         *)
LEMMA InsertPreserves ==
    ASSUME CaptureInv, Insert
    PROVE  /\ CaptureInv'
           /\ \E c \in Clients, shape \in AllocShapes : Allocate(c, shape[1], shape[2], shape[3])
<1> DEFINE shape == <<event.object, event.parent, event.cls>>
<1>1. /\ event.client \in Clients /\ shape \in AllocShapes
      /\ Allocate(event.client, shape[1], shape[2], shape[3])
  BY EventNames DEF Insert, CaptureInv, EventTyped, NoEvent
<1>2. event.object \in Handles /\ event.parent \in Handles /\ event.cls \in Classes
  BY <1>1, RegistryAssumption DEF RegistryAssumption
<1>3. RInv'
  BY <1>1, <1>2, AllocatePreserves DEF CaptureInv
<1>4. next' \in Nat /\ next <= next' /\ UNCHANGED clients
  BY <1>1, <1>2, OperationsCountUp DEF CaptureInv, RInv, GraphOK
<1>5. event' = NoEvent /\ UNCHANGED <<table, opened, binding>>
  BY DEF Insert, process
<1>6. HeldOK' /\ BindingOK'
  BY <1>4, <1>5, UndisturbedPreserves DEF CaptureInv
<1>7. EventTyped' /\ TableTyped'
  BY <1>5 DEF CaptureInv, EventTyped, TableTyped, NoEvent
<1> QED BY <1>1, <1>3, <1>6, <1>7 DEF CaptureInv

LEMMA BindObservedPreserves ==
    ASSUME CaptureInv, BindObserved
    PROVE  CaptureInv' /\ \E c \in Clients, h \in Handles : Bind(c, h)
<1>1. event.client \in Clients /\ event.object \in Handles /\ Bind(event.client, event.object)
  BY EventNames DEF BindObserved, CaptureInv, NoEvent
<1>2. RInv'
  BY <1>1, BindPreserves DEF CaptureInv
<1>3. next' \in Nat /\ next <= next' /\ UNCHANGED clients
  BY <1>1, OperationsCountUp DEF CaptureInv, RInv, GraphOK
<1>4. event' = NoEvent /\ UNCHANGED <<table, opened, binding>>
  BY DEF BindObserved, process
<1>5. HeldOK' /\ BindingOK'
  BY <1>3, <1>4, UndisturbedPreserves DEF CaptureInv
<1>6. EventTyped' /\ TableTyped'
  BY <1>4 DEF CaptureInv, EventTyped, TableTyped, NoEvent
<1> QED BY <1>1, <1>2, <1>5, <1>6 DEF CaptureInv

LEMMA FreeObservedPreserves ==
    ASSUME CaptureInv, FreeObserved
    PROVE  CaptureInv' /\ \E c \in Clients, h \in Handles : FreeObject(c, h)
<1>1. event.client \in Clients /\ event.object \in Handles /\ FreeObject(event.client, event.object)
  BY EventNames DEF FreeObserved, CaptureInv, NoEvent
<1>2. RInv'
  BY <1>1, FreeObjectPreserves DEF CaptureInv
<1>3. next' \in Nat /\ next <= next' /\ UNCHANGED clients
  BY <1>1, OperationsCountUp DEF CaptureInv, RInv, GraphOK
<1>4. event' = NoEvent /\ UNCHANGED <<table, opened, binding>>
  BY DEF FreeObserved, process
<1>5. HeldOK' /\ BindingOK'
  BY <1>3, <1>4, UndisturbedPreserves DEF CaptureInv
<1>6. EventTyped' /\ TableTyped'
  BY <1>4 DEF CaptureInv, EventTyped, TableTyped, NoEvent
<1> QED BY <1>1, <1>2, <1>5, <1>6 DEF CaptureInv

(* The duplicate takes a free number, so no client has it, and the client a   *)
(* generation of its own, so no kept owner is it.                             *)
LEMMA RetainPreserves ==
    ASSUME CaptureInv, NEW held \in Fds, Retain(held)
    PROVE  CaptureInv' /\ \E c \in Clients : Client(c, held)
<1> DEFINE c == event.client
<1>1. /\ c \in Clients /\ event.fd \in Fds /\ Client(c, held) /\ ~ HasClient(c)
      /\ event \in DecodedEvent /\ event.action = "Allocate"
  BY EventNames DEF Retain, CaptureInv, EventTyped, NoEvent
<1>2. table[held].by = "none"
  BY DEF Retain, LowestFree, FreeFds, Closed
<1>3. /\ table[event.fd].kind = "control"
      /\ table' = [table EXCEPT ![held] = [table[event.fd] EXCEPT !.by = "capture"]]
      /\ event' = [event EXCEPT !.action = "Insert"]
      /\ UNCHANGED <<opened, binding>>
  BY DEF Retain
<1>4. /\ table'[held].by = "capture" /\ table'[held].kind = "control"
      /\ \A f \in Fds \ {held} : table'[f] = table[f]
      /\ TableTyped'
  BY <1>1, <1>3 DEF CaptureInv, TableTyped, Entry
<1>5. EventTyped'
  BY <1>1, <1>3 DEF CaptureInv, EventTyped, DecodedEvent
<1>6. RInv'
  BY <1>1, ClientPreserves DEF CaptureInv
<1>7. CASE UNCHANGED <<clients, next>>
  <2>1. next \in Nat
    BY DEF CaptureInv, RInv, GraphOK
  <2>2. HeldOK' /\ BindingOK'
    BY <1>2, <1>3, <1>4, <1>7, <2>1, UndisturbedPreserves DEF CaptureInv
  <2> QED BY <1>1, <1>4, <1>5, <1>6, <2>2 DEF CaptureInv
<1>8. CASE /\ clients' = [clients EXCEPT ![c] = [fd |-> held, gen |-> next]]
           /\ next' = next + 1
  <2>1. next \in Nat \ {0} /\ clients \in [Clients -> [fd : Fds \cup {NoFd}, gen : Nat]]
    BY DEF CaptureInv, RInv, GraphOK, ClientsOK
  <2>2. /\ clients'[c] = [fd |-> held, gen |-> next]
        /\ \A b \in Clients \ {c} : clients'[b] = clients[b]
    BY <1>1, <1>8, <2>1
  <2>3. \A b \in Clients \ {c} : HasClient(b) => clients[b].fd # held
    BY <1>2 DEF CaptureInv, HeldOK
  <2>4. HeldOK'
    BY <1>1, <1>4, <2>1, <2>2, <2>3 DEF CaptureInv, HeldOK, HasClient
  <2>5. BindingOK'
    <3> SUFFICES ASSUME binding # Unbound
                 PROVE  /\ binding.client \in Clients
                        /\ binding.owner.gen \in Nat /\ 0 < binding.owner.gen
                        /\ binding.owner.gen < next'
                        /\ clients'[binding.client] = binding.owner =>
                            table'[binding.owner.fd].file = binding.file
      BY <1>3 DEF BindingOK
    <3>1. /\ binding.client \in Clients
          /\ binding.owner.gen \in Nat /\ 0 < binding.owner.gen /\ binding.owner.gen < next
          /\ clients[binding.client] = binding.owner =>
                table[binding.owner.fd].file = binding.file
      BY DEF CaptureInv, BindingOK
    <3>2. ASSUME clients'[binding.client] = binding.owner
          PROVE  table'[binding.owner.fd].file = binding.file
      <4>1. binding.client # c
        BY <2>1, <2>2, <3>1, <3>2
      <4>2. clients[binding.client] = binding.owner
        BY <2>2, <3>1, <3>2, <4>1
      <4>3. binding.owner.fd \in Fds /\ binding.owner.fd # held
        BY <2>3, <3>1, <4>1, <4>2 DEF CaptureInv, HeldOK, HasClient
      <4> QED BY <1>4, <3>1, <4>2, <4>3
    <3> QED BY <1>8, <2>1, <3>1, <3>2
  <2> QED BY <1>1, <1>4, <1>5, <1>6, <2>4, <2>5 DEF CaptureInv
<1> QED BY <1>1, <1>7, <1>8 DEF Client

(* The descriptor is closed in the step that forgets its client: no other     *)
(* client has it, and a kept owner of that client is no longer current.       *)
LEMMA FreeClientObservedPreserves ==
    ASSUME CaptureInv, FreeClientObserved
    PROVE  CaptureInv' /\ \E c \in Clients : FreeClient(c)
<1> DEFINE c == event.client
<1>1. c \in Clients /\ FreeClient(c)
  BY EventNames DEF FreeClientObserved, CaptureInv, NoEvent
<1>2. /\ event' = NoEvent /\ UNCHANGED <<opened, binding>>
      /\ IF HasClient(c) THEN table' = [table EXCEPT ![clients[c].fd] = Closed]
                         ELSE table' = table
  BY DEF FreeClientObserved, DropFile
<1>3. RInv'
  BY <1>1, FreeClientPreserves DEF CaptureInv
<1>4. /\ next' = next /\ next \in Nat
      /\ clients'[c].gen = 0
      /\ \A b \in Clients \ {c} : clients'[b] = clients[b]
  BY <1>1 DEF FreeClient, CaptureInv, RInv, GraphOK, ClientsOK
<1>5. EventTyped'
  BY <1>2 DEF EventTyped, NoEvent
<1>6. TableTyped'
  BY <1>1, <1>2 DEF CaptureInv, HeldOK, TableTyped, Entry, Closed
<1>7. \A b \in Clients \ {c} : HasClient(b) => table'[clients[b].fd] = table[clients[b].fd]
  BY <1>1, <1>2 DEF CaptureInv, HeldOK, TableTyped
<1>8. HeldOK'
  BY <1>1, <1>4, <1>7 DEF CaptureInv, HeldOK, HasClient
<1>9. BindingOK'
  <2> SUFFICES ASSUME binding # Unbound
               PROVE  /\ binding.client \in Clients
                      /\ binding.owner.gen \in Nat /\ 0 < binding.owner.gen
                      /\ binding.owner.gen < next'
                      /\ clients'[binding.client] = binding.owner =>
                            table'[binding.owner.fd].file = binding.file
    BY <1>2 DEF BindingOK
  <2>1. /\ binding.client \in Clients
        /\ binding.owner.gen \in Nat /\ 0 < binding.owner.gen /\ binding.owner.gen < next
        /\ clients[binding.client] = binding.owner =>
                table[binding.owner.fd].file = binding.file
    BY DEF CaptureInv, BindingOK
  <2>2. ASSUME clients'[binding.client] = binding.owner
        PROVE  table'[binding.owner.fd].file = binding.file
    <3>1. binding.client # c
      BY <1>4, <2>1, <2>2
    <3>2. clients[binding.client] = binding.owner /\ HasClient(binding.client)
      BY <1>4, <2>1, <2>2, <3>1 DEF HasClient
    <3> QED BY <1>7, <2>1, <3>1, <3>2
  <2> QED BY <1>4, <2>1, <2>2
<1> QED BY <1>1, <1>3, <1>5, <1>6, <1>8, <1>9 DEF CaptureInv

(* Configuring the capture, and keeping the binding of a known client.        *)
LEMMA ConfigurePreserves ==
    ASSUME CaptureInv, NEW enabled \in BOOLEAN, Configure(enabled)
    PROVE  CaptureInv' /\ (Incomplete \/ UNCHANGED registryVars)
<1>1. /\ Incomplete \/ UNCHANGED registryVars
      /\ UNCHANGED <<table, opened, event, binding>>
  BY DEF Configure, process
<1>2. EventTyped' /\ TableTyped'
  BY <1>1 DEF CaptureInv, EventTyped, TableTyped
<1> QED BY <1>1, <1>2, OutsidePreserves

LEMMA TakeBindingPreserves ==
    ASSUME CaptureInv, NEW c \in Clients, TakeBinding(c)
    PROVE  CaptureInv' /\ UNCHANGED registryVars
<1>1. /\ HasClient(c)
      /\ binding' = [client |-> c, owner |-> clients[c], file |-> table[clients[c].fd].file]
      /\ UNCHANGED registryVars /\ UNCHANGED <<table, opened, event>>
  BY DEF TakeBinding, process
<1>2. RInv'
  BY <1>1, NextPreserves DEF CaptureInv
<1>3. EventTyped' /\ TableTyped'
  BY <1>1 DEF CaptureInv, EventTyped, TableTyped
<1>4. HeldOK'
  BY <1>1 DEF CaptureInv, HeldOK, HasClient, registryVars
<1>5. UNCHANGED <<clients, next>>
  BY <1>1 DEF registryVars
<1>6. clients[c].gen \in Nat /\ clients[c].gen # 0 /\ clients[c].gen < next
  BY <1>1 DEF CaptureInv, RInv, ClientsOK, HasClient
<1>7. BindingOK'
  BY <1>1, <1>5, <1>6 DEF BindingOK
<1> QED BY <1>1, <1>2, <1>3, <1>4, <1>7 DEF CaptureInv

-----------------------------------------------------------------------------
(* Every step of the capture is a step of the registry, or none, and keeps    *)
(* the invariant.                                                             *)
LEMMA CaptureStep ==
    ASSUME CaptureInv, [CaptureNext]_ioctlVars
    PROVE  CaptureInv' /\ [Next]_registryVars
<1>1. CASE UNCHANGED ioctlVars
  <2>1. UNCHANGED registryVars /\ UNCHANGED <<table, opened, event, binding>>
    BY <1>1 DEF ioctlVars, process, hook
  <2>2. EventTyped' /\ TableTyped'
    BY <2>1 DEF CaptureInv, EventTyped, TableTyped
  <2> QED BY <2>1, <2>2, OutsidePreserves
<1>2. CASE CaptureNext
  <2>0. WithinBounds
    BY <1>2 DEF CaptureNext
  <2>1. ASSUME NEW enabled \in BOOLEAN, Configure(enabled) PROVE CaptureInv' /\ [Next]_registryVars
    BY <2>0, <2>1, ConfigurePreserves DEF Next
  <2>2. ASSUME NEW c \in Clients, TakeBinding(c) PROVE CaptureInv' /\ [Next]_registryVars
    BY <2>2, TakeBindingPreserves
  <2>3. ASSUME NEW k \in Keys, HiddenFree(k) PROVE CaptureInv' /\ [Next]_registryVars
    BY <2>3, HiddenPreserves DEF HiddenFree
  <2>4. ASSUME NEW d \in Fds, NEW kind \in {"control", "device"}, Open(d, kind)
        PROVE  CaptureInv' /\ [Next]_registryVars
    BY <2>4, OpenPreserves
  <2>5. ASSUME NEW d \in Fds, Close(d) PROVE CaptureInv' /\ [Next]_registryVars
    BY <2>5, ClosePreserves
  <2>6. ASSUME NEW d \in Fds, OtherIoctl(d) PROVE CaptureInv' /\ [Next]_registryVars
    BY <2>0, <2>6, OtherIoctlPreserves DEF Next
  <2>7. ASSUME NEW d \in Fds, Retain(d) PROVE CaptureInv' /\ [Next]_registryVars
    BY <2>0, <2>7, RetainPreserves DEF Next
  <2>8. ASSUME NEW d \in Fds, NEW c \in Clients, NEW shape \in AllocShapes,
               NEW form \in Forms("Allocate"),
               AllocateIoctl(d, <<c, shape[1]>>, shape[2], shape[3], form)
        PROVE  CaptureInv' /\ [Next]_registryVars
    BY <2>0, <2>8, AllocateIoctlPreserves DEF Next
  <2>9. ASSUME NEW d \in Fds, NEW k \in Keys, NEW p, NEW cls, HiddenAllocate(d, k, p, cls)
        PROVE  CaptureInv' /\ [Next]_registryVars
    BY <2>9, HiddenPreserves DEF HiddenAllocate
  <2>10. ASSUME NEW d \in Fds, NEW k \in Keys, NEW form \in Forms("Free"), FreeIoctl(d, k, form)
         PROVE  CaptureInv' /\ [Next]_registryVars
    BY <2>0, <2>10, FreeIoctlPreserves DEF Next
  <2>11. ASSUME NEW d \in Fds, NEW k \in Keys, NEW form \in Forms("Bind"), BindIoctl(d, k, form)
         PROVE  CaptureInv' /\ [Next]_registryVars
    BY <2>0, <2>11, BindIoctlPreserves DEF Next
  <2>12. CASE CannotRetain
    BY <2>0, <2>12, CannotRetainPreserves DEF Next
  <2>13. CASE Insert
    BY <2>0, <2>13, InsertPreserves DEF Next
  <2>14. CASE FreeObserved
    BY <2>0, <2>14, FreeObservedPreserves DEF Next
  <2>15. CASE FreeClientObserved
    BY <2>0, <2>15, FreeClientObservedPreserves DEF Next
  <2>16. CASE BindObserved
    BY <2>0, <2>16, BindObservedPreserves DEF Next
  <2>17. \A c \in Clients, shape \in AllocShapes : <<c, shape[1]>> \in Keys
    BY RegistryAssumption DEF RegistryAssumption, Keys
  <2> QED BY <1>2, <2>1, <2>2, <2>3, <2>4, <2>5, <2>6, <2>7, <2>8, <2>9, <2>10, <2>11,
             <2>12, <2>13, <2>14, <2>15, <2>16, <2>17 DEF CaptureNext
<1> QED BY <1>1, <1>2

(* Nothing is open, known or kept when the process starts.                    *)
LEMMA CaptureInitEstablishes == CaptureInit => CaptureInv /\ Init
<1> SUFFICES ASSUME CaptureInit PROVE CaptureInv /\ Init
  OBVIOUS
<1>1. Init /\ RInv
  BY InitEstablishes DEF CaptureInit
<1>2. EventTyped
  BY DEF CaptureInit, EventTyped, NoEvent
<1>3. TableTyped
  BY DEF CaptureInit, TableTyped, Entry, Closed
<1>4. HeldOK /\ BindingOK
  BY DEF CaptureInit, Init, HeldOK, HasClient, BindingOK
<1> QED BY <1>1, <1>2, <1>3, <1>4 DEF CaptureInv

LEMMA CaptureInvariance == CaptureSpec => []CaptureInv
BY CaptureInitEstablishes, CaptureStep, PTL DEF CaptureSpec

(* The hook only ever drives the registry through its operations, one at a    *)
(* time: the capture implements the registry, and its graph is sound.         *)
THEOREM CaptureImplementsRegistry == CaptureSpec => Spec
BY CaptureInitEstablishes, CaptureStep, CaptureInvariance, PTL DEF CaptureSpec, Spec

THEOREM CapturedGraphIsSound == CaptureSpec => []TypeOK /\ []GraphSound
BY CaptureImplementsRegistry, TypeCorrect, GraphStaysSound, PTL

(* A kept binding whose owner is still current names a descriptor on the very *)
(* control file it was taken on, whatever was freed, closed, opened and       *)
(* numbered again since.                                                      *)
THEOREM ControlsReachTheirFile == CaptureSpec => []ControlReachesItsFile
<1>1. CaptureInv => ControlReachesItsFile
  BY DEF CaptureInv, HeldOK, BindingOK, ControlReachesItsFile, OwnerCurrent, HasClient,
         RetainedControlFdValid
<1> QED BY <1>1, CaptureInvariance, PTL

-----------------------------------------------------------------------------
(* The mirror.  A complete capture has the objects of the driver, but for the *)
(* one object or subtree the event under way is about; its descriptor of a    *)
(* client is on the file the driver has the client on, which is why no close  *)
(* and no free of one client ever takes another along.                        *)
Root(c) == <<c, c>>

\* The driver's objects: a client owns nothing without its root, the parent of every
\* other object exists, and a client has a file exactly while it has a root.
DriverOK ==
    /\ rm \in [Keys -> Node]
    /\ \A k \in Keys : rm[k].gen \in {0, 1} /\ rm[k].pgen \in {0, 1}
    /\ \A k \in Keys : Exists(k) =>
        /\ Exists(Root(k[1]))
        /\ rm[k].pgen # 0 <=> ~ IsRoot(k)
        /\ ~ IsRoot(k) => Exists(ParentKey(rm, k))
    /\ home \in [Clients -> Nat]
    /\ \A c \in Clients : home[c] # NoFile <=> Exists(Root(c))

\* A descriptor names an open file, an ioctl keeps its own open, and what the capture
\* holds it holds for a client.
FilesOK ==
    /\ \A d \in Fds : table[d].by # "none" => table[d].file # NoFile
    /\ event # NoEvent => table[event.fd].by = "app"
    /\ allocating \in [Clients -> Fds \cup {NoFd}]
    /\ \A c \in Clients : HasClient(c) => allocating[c] # NoFd
    /\ ~ incomplete =>
        \A d \in Fds : table[d].by = "capture" =>
            \E c \in Clients : HasClient(c) /\ clients[c].fd = d

\* Before it is switched on the capture knows nothing; what it could have missed
\* by then, it has written down.
StageOK ==
    /\ stage \in {"before", "off", "on"} /\ early \in BOOLEAN /\ hidden \in Nat
    /\ stage # "on" =>
        /\ event = NoEvent
        /\ \A c \in Clients : ~ HasClient(c)
        /\ \A k \in Keys : ~ Live(k)
    /\ stage = "before" /\ ~ early /\ hidden = 0 => \A k \in Keys : ~ Exists(k)
    /\ stage # "before" /\ early => incomplete

Allocating == event.action \in {"Allocate", "Insert"}
Freeing == event.action = "Free"
Subject == <<event.client, event.object>>

\* The graph the registry will have after the event it is told of next, and the
\* objects of the driver that had been there before an allocation.
Upcoming ==
    IF ~ Freeing THEN current
    ELSE Erased(current, IF IsRoot(Subject)
                         THEN {k \in LiveIn(current) : k[1] = event.client}
                         ELSE Replaced(Subject))
Earlier == IF Allocating THEN Erased(rm, {Subject}) ELSE rm

Mirrors(g, r) ==
    \A k \in Keys :
        /\ g[k].gen # 0 <=> r[k].gen # 0
        /\ r[k].gen # 0 => /\ g[k].cls = r[k].cls /\ g[k].parent = r[k].parent
                           /\ g[k].pgen # 0 <=> r[k].pgen # 0

\* The object of an allocation the registry has not been told of.
NewcomerOK ==
    LET k == Subject IN
    /\ Exists(k) /\ rm[k].cls = event.cls /\ rm[k].parent = event.parent
    /\ ~ Live(k)
    /\ ~ IsRoot(k) => event.parent # event.object
    /\ IsRoot(k) => \A a \in Keys \ {k} : a[1] = k[1] => ~ Exists(a)

\* The clients known are those of the driver, but for the one the event creates or ends.
Starts(c) == event.action = "Allocate" /\ Subject = Root(c)
Ends(c) == Freeing /\ Subject = Root(c)

ClientsMirrored ==
    \A c \in Clients :
        /\ Starts(c) => ~ HasClient(c) /\ Exists(Root(c))
        /\ Ends(c) => HasClient(c) /\ ~ Exists(Root(c))
        /\ ~ Starts(c) /\ ~ Ends(c) => (HasClient(c) <=> Exists(Root(c)))

\* The capture's descriptor of a client, and before there is one that of the ioctl, is
\* on the file the driver has the client on.
FilesMirrored ==
    \A c \in Clients :
        /\ HasClient(c) /\ ~ Ends(c) => table[clients[c].fd].file = home[c]
        /\ Starts(c) => table[event.fd].file = home[c]

MirrorOK ==
    stage = "on" /\ ~ incomplete /\ hidden = 0 =>
        /\ Mirrors(Upcoming, Earlier)
        /\ Allocating => NewcomerOK
        /\ ClientsMirrored /\ FilesMirrored

DriverInv == DriverOK /\ FilesOK /\ StageOK /\ MirrorOK

-----------------------------------------------------------------------------
(* The driver's graph.                                                        *)
LEMMA RootIsKey == \A c \in Clients : Root(c) \in Keys /\ Root(c)[1] = c /\ IsRoot(Root(c))
BY RegistryAssumption DEF RegistryAssumption, Root, Keys, IsRoot

LEMMA RootOfKey == \A k \in Keys : k[1] \in Clients /\ (IsRoot(k) <=> k = Root(k[1]))
BY DEF Root, Keys, IsRoot

(* Among live nodes whose parent tokens are live, being a child is having one. *)
LEMMA ChildByToken ==
    ASSUME NEW g, TokensLive(g), NEW a \in LiveIn(g), NEW S
    PROVE  HasParentIn(g, a, S) <=> g[a].pgen # 0 /\ ParentKey(g, a) \in S
BY DEF TokensLive, HasParentIn, ChildOf

LEMMA DriverTokensLive == ASSUME DriverOK PROVE TokensLive(rm)
<1> SUFFICES ASSUME NEW k \in LiveIn(rm), rm[k].pgen # 0
             PROVE  ChildOf(rm, k, ParentKey(rm, k))
  BY DEF TokensLive
<1>1. k \in Keys /\ Exists(k) /\ ParentKey(rm, k) \in Keys
  BY ParentKeyIsKey DEF LiveIn, Exists, DriverOK
<1>2. Exists(ParentKey(rm, k))
  BY <1>1 DEF DriverOK
<1>3. rm[k].pgen = 1 /\ rm[ParentKey(rm, k)].gen = 1
  BY <1>1, <1>2 DEF DriverOK, Exists
<1> QED BY <1>1, <1>2, <1>3 DEF ChildOf, Exists

(* A FREE takes no root along but its own object.                             *)
LEMMA FreeTakesNoRoot ==
    ASSUME DriverOK, NEW k \in Keys, Exists(k), ~ IsRoot(k)
    PROVE  /\ \A c \in Clients : Root(c) \notin Doomed(rm, k)
           /\ Doomed(rm, k) \subseteq LiveIn(rm) /\ ClosedDownward(rm, Doomed(rm, k))
           /\ k \in Doomed(rm, k)
<1>1. k \in LiveIn(rm)
  BY DEF LiveIn, Exists
<1> DEFINE S == {a \in Keys : ~ IsRoot(a)}
<1>2. ClosedDownward(rm, S)
  <2> SUFFICES ASSUME NEW a \in LiveIn(rm) \ S, HasParentIn(rm, a, S) PROVE FALSE
    BY DEF ClosedDownward
  <2>1. rm[a].pgen # 0
    BY DriverTokensLive, ChildByToken
  <2>2. a \in Keys /\ Exists(a)
    BY DEF LiveIn, Exists
  <2> QED BY <2>1, <2>2 DEF DriverOK
<1>3. Doomed(rm, k) \subseteq S
  BY <1>1, <1>2, DoomedIsLeast
<1>4. \A c \in Clients : Root(c) \notin S
  BY RootIsKey
<1> QED BY <1>1, <1>3, <1>4, DoomedIsClosed

LEMMA ErasedAt ==
    ASSUME NEW g, NEW D, NEW k \in Keys
    PROVE  /\ k \in D => Erased(g, D)[k] = NoNode(k)
           /\ k \notin D => Erased(g, D)[k] = g[k]
BY DEF Erased

(* Erasing what is closed downward, roots only with all their client owns.    *)
LEMMA DriverErases ==
    ASSUME DriverOK, NEW D, ClosedDownward(rm, D),
           \A k \in Keys : Root(k[1]) \in D => k \in D,
           rm' = Erased(rm, D), home' \in [Clients -> Nat],
           \A c \in Clients :
              home'[c] # NoFile <=> home[c] # NoFile /\ Root(c) \notin D
    PROVE  DriverOK'
<1>1. \A k \in Keys : /\ rm'[k] \in Node
                      /\ k \in D => rm'[k].gen = 0 /\ rm'[k].pgen = 0
                      /\ k \notin D => rm'[k] = rm[k]
  BY ErasedAt, NoNodeIsNode DEF DriverOK
<1>2. rm' \in [Keys -> Node]
  BY <1>1 DEF Erased
<1>3. \A k \in Keys : rm'[k].gen \in {0, 1} /\ rm'[k].pgen \in {0, 1}
  BY <1>1 DEF DriverOK
<1>4. ASSUME NEW k \in Keys, rm'[k].gen # 0
      PROVE  /\ rm'[Root(k[1])].gen # 0
             /\ rm'[k].pgen # 0 <=> ~ IsRoot(k)
             /\ ~ IsRoot(k) => rm'[ParentKey(rm', k)].gen # 0
  <2>1. k \notin D /\ rm'[k] = rm[k] /\ Exists(k) /\ k \in LiveIn(rm)
    BY <1>1, <1>4 DEF Exists, LiveIn
  <2>2. Root(k[1]) \in Keys /\ Root(k[1]) \notin D
    BY <2>1, RootOfKey, RootIsKey
  <2>3. ASSUME ~ IsRoot(k) PROVE rm'[ParentKey(rm', k)].gen # 0
    <3>1. ParentKey(rm', k) = ParentKey(rm, k) /\ ParentKey(rm, k) \in Keys
      BY <2>1, ParentKeyIsKey DEF ParentKey, DriverOK
    <3>2. Exists(ParentKey(rm, k)) /\ rm[k].pgen # 0
      BY <2>1, <2>3 DEF DriverOK
    <3>3. HasParentIn(rm, k, {ParentKey(rm, k)})
      BY <2>1, <3>2, DriverTokensLive, ChildByToken
    <3>4. ParentKey(rm, k) \notin D
      BY <2>1, <3>3 DEF ClosedDownward, HasParentIn
    <3> QED BY <1>1, <3>1, <3>2, <3>4 DEF Exists
  <2> QED BY <1>1, <2>1, <2>2, <2>3 DEF DriverOK, Exists
<1>5. \A c \in Clients : home'[c] # NoFile <=> rm'[Root(c)].gen # 0
  BY <1>1, RootIsKey DEF DriverOK, Exists
<1> QED BY <1>2, <1>3, <1>4, <1>5 DEF DriverOK, Exists

LEMMA DriverAllocates ==
    ASSUME DriverOK, NEW k \in Keys, NEW p \in Handles, NEW cls \in Classes,
           NEW file \in Nat \ {NoFile},
           Allocatable(k, p, cls), AllocateInDriver(k, p, cls, file)
    PROVE  /\ DriverOK'
           /\ rm'[k] = [cls |-> cls, gen |-> 1, parent |-> p, pgen |-> IF IsRoot(k) THEN 0 ELSE 1]
           /\ \A a \in Keys \ {k} : rm'[a] = rm[a]
<1> DEFINE new == [cls |-> cls, gen |-> 1, parent |-> p, pgen |-> IF IsRoot(k) THEN 0 ELSE 1]
<1>1. rm' = [rm EXCEPT ![k] = new] /\ new \in Node
  BY DEF AllocateInDriver, Node
<1>2. rm' \in [Keys -> Node] /\ rm'[k] = new /\ \A a \in Keys \ {k} : rm'[a] = rm[a]
  BY <1>1 DEF DriverOK
<1>3. \A a \in Keys : Exists(a) => rm'[a] = rm[a] /\ rm'[a].gen # 0
  BY <1>2 DEF Allocatable, Exists
<1>4. new.gen = 1 /\ new.parent = p /\ new.pgen \in {0, 1} /\ (new.pgen # 0 <=> ~ IsRoot(k))
  BY DEF IsRoot
<1>5. k[1] \in Clients /\ Root(k[1]) \in Keys
  BY RootOfKey, RootIsKey
<1>6. ~ IsRoot(k) => <<k[1], p>> \in Keys /\ Exists(<<k[1], p>>) /\ Exists(Root(k[1]))
  <2> SUFFICES ASSUME ~ IsRoot(k)
               PROVE  <<k[1], p>> \in Keys /\ Exists(<<k[1], p>>) /\ Exists(Root(k[1]))
    OBVIOUS
  <2>1. <<k[1], p>> \in Keys /\ Exists(<<k[1], p>>) /\ <<k[1], p>>[1] = k[1]
    BY <1>5 DEF Allocatable, Keys
  <2> QED BY <2>1 DEF DriverOK
<1>7. ASSUME NEW a \in Keys, rm'[a].gen # 0
      PROVE  /\ rm'[Root(a[1])].gen # 0
             /\ rm'[a].pgen # 0 <=> ~ IsRoot(a)
             /\ ~ IsRoot(a) => rm'[ParentKey(rm', a)].gen # 0
  <2>1. CASE a = k
    <3>1. ParentKey(rm', k) = <<k[1], p>>
      BY <1>2, <1>4 DEF ParentKey
    <3>2. CASE IsRoot(k)
      BY <1>2, <1>4, <1>7, <2>1, <3>2, RootOfKey
    <3>3. CASE ~ IsRoot(k)
      BY <1>2, <1>3, <1>4, <1>5, <1>6, <2>1, <3>1, <3>3
    <3> QED BY <3>2, <3>3
  <2>2. CASE a # k
    <3>1. rm'[a] = rm[a] /\ Exists(a) /\ ParentKey(rm', a) = ParentKey(rm, a)
      BY <1>2, <1>7, <2>2 DEF Exists, ParentKey
    <3>2. ParentKey(rm, a) \in Keys /\ Root(a[1]) \in Keys
      BY ParentKeyIsKey, RootOfKey, RootIsKey DEF DriverOK
    <3> QED BY <1>3, <3>1, <3>2 DEF DriverOK
  <2> QED BY <2>1, <2>2
<1>8. home' \in [Clients -> Nat] /\ \A c \in Clients : home'[c] # NoFile <=> rm'[Root(c)].gen # 0
  <2>1. CASE IsRoot(k)
    <3>1. home' = [home EXCEPT ![k[1]] = file] /\ k = Root(k[1])
      BY <2>1, RootOfKey DEF AllocateInDriver
    <3>2. \A c \in Clients \ {k[1]} : Root(c) # k /\ Root(c) \in Keys
      BY RootIsKey
    <3> QED BY <1>2, <1>4, <1>5, <3>1, <3>2 DEF DriverOK, Exists
  <2>2. CASE ~ IsRoot(k)
    <3>1. home' = home
      BY <2>2 DEF AllocateInDriver
    <3>2. \A c \in Clients : Root(c) # k /\ Root(c) \in Keys
      BY <2>2, RootIsKey
    <3> QED BY <1>2, <3>1, <3>2 DEF DriverOK, Exists
  <2> QED BY <2>1, <2>2
<1>9. \A a \in Keys : rm'[a].gen \in {0, 1} /\ rm'[a].pgen \in {0, 1}
  BY <1>2, <1>4 DEF DriverOK
<1> QED BY <1>2, <1>7, <1>8, <1>9 DEF DriverOK, Exists

LEMMA DriverFrees ==
    ASSUME DriverOK, NEW k \in Keys, Exists(k), FreeInDriver(k)
    PROVE  DriverOK'
<1>1. CASE IsRoot(k)
  <2> DEFINE D == {a \in Keys : a[1] = k[1]}
  <2>1. rm' = Erased(rm, D) /\ home' = [home EXCEPT ![k[1]] = NoFile] /\ k[1] \in Clients
    BY <1>1, RootOfKey DEF FreeInDriver, FreedWith
  <2>2. ClosedDownward(rm, D)
    BY DEF ClosedDownward, HasParentIn, ParentKey, LiveIn, Keys
  <2>3. \A a \in Keys : Root(a[1]) \in D => a \in D
    BY RootOfKey, RootIsKey
  <2>4. \A c \in Clients : Root(c) \in D <=> c = k[1]
    BY RootIsKey
  <2>5. home' \in [Clients -> Nat]
    BY <2>1 DEF DriverOK, NoFile
  <2>6. \A c \in Clients : home'[c] # NoFile <=> home[c] # NoFile /\ Root(c) \notin D
    BY <2>1, <2>4 DEF DriverOK
  <2> QED BY <2>1, <2>2, <2>3, <2>5, <2>6, DriverErases
<1>2. CASE ~ IsRoot(k)
  <2>1. rm' = Erased(rm, Doomed(rm, k)) /\ home' = home
    BY <1>2 DEF FreeInDriver, FreedWith
  <2>2. \A a \in Keys : Root(a[1]) \notin Doomed(rm, k)
    BY <1>2, FreeTakesNoRoot, RootOfKey
  <2> QED BY <1>2, <2>1, <2>2, FreeTakesNoRoot, DriverErases DEF DriverOK
<1> QED BY <1>1, <1>2

LEMMA DriverDrops ==
    ASSUME DriverOK, NEW d \in Fds, DropFile(d)
    PROVE  DriverOK'
<1> DEFINE gone == IF \E other \in Fds \ {d} : table[other].file = table[d].file THEN {}
                   ELSE OnFile(table[d].file)
           D == gone \X Handles
<1>1. /\ rm' = Erased(rm, D) /\ gone \subseteq Clients
      /\ home' = [c \in Clients |-> IF c \in gone THEN NoFile ELSE home[c]]
  BY DEF DropFile, OnFile
<1> HIDE DEF gone
<1>2. \A k \in Keys : k \in D <=> k[1] \in gone
  BY DEF Keys
<1>3. ClosedDownward(rm, D)
  <2> SUFFICES ASSUME NEW a \in LiveIn(rm) \ D, HasParentIn(rm, a, D) PROVE FALSE
    BY DEF ClosedDownward
  <2>1. a \in Keys /\ ParentKey(rm, a) \in D /\ ParentKey(rm, a)[1] = a[1]
    BY DEF HasParentIn, LiveIn, ParentKey
  <2>2. a[1] \in gone
    BY <2>1
  <2> QED BY <1>2, <2>1, <2>2
<1>4. \A c \in Clients : Root(c) \in D <=> c \in gone
  BY <1>2, RootIsKey
<1>5. \A k \in Keys : Root(k[1]) \in D => k \in D
  BY <1>2, <1>4, RootOfKey
<1>6. home' \in [Clients -> Nat]
  BY <1>1 DEF DriverOK, NoFile
<1>7. \A c \in Clients : home'[c] # NoFile <=> home[c] # NoFile /\ Root(c) \notin D
  BY <1>1, <1>4
<1> QED BY <1>1, <1>3, <1>5, <1>6, <1>7, DriverErases

-----------------------------------------------------------------------------
(* Once it is incomplete a capture stays so.                                  *)
LEMMA IncompleteStays ==
    ASSUME EventsOK, [Next]_registryVars PROVE incomplete => incomplete'
<1> SUFFICES ASSUME incomplete = TRUE PROVE incomplete' = TRUE
  BY DEF EventsOK
<1>1. CASE UNCHANGED registryVars
  BY <1>1 DEF registryVars
<1>2. ASSUME Record \/ MarkIncomplete \/ UNCHANGED <<incomplete, hist>>
      PROVE  incomplete' = TRUE
  BY <1>2 DEF Record, MarkIncomplete
<1>3. CASE Next
  <2>1. Record \/ MarkIncomplete \/ UNCHANGED <<incomplete, hist>>
    BY <1>3 DEF Next, Client, Allocate, Bind, FreeObject, FreeClient, Incomplete
  <2> QED BY <1>2, <2>1
<1> QED BY <1>1, <1>3

(* The capture is on, has missed nothing, and nothing went past it.           *)
Regime == stage = "on" /\ ~ incomplete /\ hidden = 0

LEMMA NoEventNeither ==
    ASSUME event = NoEvent
    PROVE  ~ Allocating /\ ~ Freeing /\ \A c \in Clients : ~ Starts(c) /\ ~ Ends(c)
BY DEF NoEvent, Allocating, Freeing, Starts, Ends

(* The steps at which nothing is known that changes: the registry's, the      *)
(* driver's and the hook's parts all stay.                                    *)
LEMMA SamePreserves ==
    ASSUME DriverInv,
           UNCHANGED <<rm, home, table, allocating, current, clients, event, stage, early, hidden>>,
           incomplete' = incomplete
    PROVE  DriverInv'
<1>1. DriverOK'
  BY DEF DriverInv, DriverOK, Exists
<1>2. FilesOK'
  BY DEF DriverInv, FilesOK, HasClient
<1>3. StageOK'
  BY DEF DriverInv, StageOK, HasClient, Exists, Live
<1>4. MirrorOK'
  BY DEF DriverInv, MirrorOK, Mirrors, Upcoming, Earlier, Replaced, NewcomerOK, ClientsMirrored,
     FilesMirrored, Allocating, Freeing, Subject, Starts, Ends, HasClient, Exists, Live
<1> QED BY <1>1, <1>2, <1>3, <1>4 DEF DriverInv

LEMMA TakeBindingKeepsDriver ==
    ASSUME DriverInv, NEW c \in Clients, TakeBinding(c) PROVE DriverInv'
BY SamePreserves DEF TakeBinding, registryVars, process, driver

LEMMA ConfigureKeepsDriver ==
    ASSUME CaptureInv, DriverInv, NEW enabled \in BOOLEAN, Configure(enabled)
    PROVE  DriverInv'
<1>1. /\ UNCHANGED <<rm, home, hidden, table, allocating, event, early, current, clients>>
      /\ stage = "before" /\ event = NoEvent /\ stage' \in {"on", "off"}
      /\ early => incomplete'
      /\ ~ early => incomplete' = incomplete
      /\ incomplete => incomplete'
  BY DEF Configure, Incomplete, MarkIncomplete, registryVars, process, driver, Unlocked
<1>2. DriverOK' /\ FilesOK'
  BY <1>1 DEF DriverInv, DriverOK, FilesOK, Exists, HasClient
<1>3. StageOK'
  BY <1>1 DEF DriverInv, StageOK, HasClient, Exists, Live
<1>4. MirrorOK'
  <2> SUFFICES ASSUME Regime'
               PROVE  /\ Mirrors(Upcoming, Earlier)' /\ ~ Allocating'
                      /\ ClientsMirrored' /\ FilesMirrored'
    BY DEF MirrorOK, Regime
  <2>1. /\ \A k \in Keys : current'[k].gen = 0 /\ rm'[k].gen = 0
        /\ \A c \in Clients : clients'[c].gen = 0
    BY <1>1 DEF DriverInv, StageOK, Regime, HasClient, Live, Exists
  <2>2. ~ Allocating' /\ ~ Freeing' /\ \A c \in Clients : ~ Starts(c)' /\ ~ Ends(c)'
    BY <1>1, NoEventNeither DEF Allocating, Freeing, Starts, Ends, NoEvent
  <2>3. Upcoming' = current' /\ Earlier' = rm'
    BY <2>2 DEF Upcoming, Earlier
  <2>4. Mirrors(Upcoming, Earlier)'
    BY <2>1, <2>3 DEF Mirrors
  <2>5. ClientsMirrored' /\ FilesMirrored'
    BY <2>1, <2>2, RootIsKey DEF ClientsMirrored, FilesMirrored, HasClient, Exists
  <2> QED BY <2>2, <2>4, <2>5
<1> QED BY <1>2, <1>3, <1>4 DEF DriverInv

(* What bypasses the hook is of no concern to a capture no longer mirrored.   *)
LEMMA HiddenKeepsDriver ==
    ASSUME CaptureInv, DriverInv,
           \/ \E k \in Keys : HiddenFree(k)
           \/ \E d \in Fds, c \in Clients, shape \in AllocShapes :
                 HiddenAllocate(d, <<c, shape[1]>>, shape[2], shape[3])
    PROVE  DriverInv'
<1>1. Hide
  BY DEF HiddenFree, HiddenAllocate
<1>2. hidden' = hidden + 1 /\ hidden \in Nat
      /\ UNCHANGED <<table, allocating, event, stage, early, current, clients, incomplete>>
  BY <1>1 DEF Hide, DriverInv, StageOK, registryVars, process, hook
<1>3. DriverOK'
  <2>1. ASSUME NEW k \in Keys, HiddenFree(k) PROVE DriverOK'
    BY <2>1, DriverFrees DEF HiddenFree, DriverInv
  <2>2. ASSUME NEW d \in Fds, NEW c \in Clients, NEW shape \in AllocShapes,
               HiddenAllocate(d, <<c, shape[1]>>, shape[2], shape[3])
        PROVE  DriverOK'
    <3>1. <<c, shape[1]>> \in Keys /\ shape[2] \in Handles /\ shape[3] \in Classes
      BY RegistryAssumption DEF RegistryAssumption, Keys
    <3>2. table[d].file \in Nat \ {NoFile}
      BY <2>2 DEF HiddenAllocate, DriverInv, FilesOK, CaptureInv, TableTyped, Entry
    <3> QED BY <2>2, <3>1, <3>2, DriverAllocates DEF HiddenAllocate, DriverInv
  <2> QED BY <2>1, <2>2
<1>4. FilesOK'
  BY <1>2 DEF DriverInv, FilesOK, HasClient
<1>5. StageOK'
  BY <1>2 DEF DriverInv, StageOK, HasClient, Live
<1>6. MirrorOK'
  BY <1>2 DEF MirrorOK
<1> QED BY <1>3, <1>4, <1>5, <1>6 DEF DriverInv

(* Steps that leave the registry, the driver and the event, and of the table  *)
(* what belongs to the capture and to the ioctl under way.                    *)
LEMMA TableStepKeepsMirror ==
    ASSUME CaptureInv, DriverInv,
           \A k \in Keys : rm'[k] = rm[k], \A c \in Clients : home'[c] = home[c],
           rm' \in [Keys -> Node],
           UNCHANGED <<current, clients, event, stage, hidden, incomplete>>,
           \A f \in Fds : table[f].by = "capture" => table'[f] = table[f],
           event # NoEvent => table'[event.fd] = table[event.fd]
    PROVE  MirrorOK'
<1>1. rm' = rm
  BY DEF DriverInv, DriverOK
<1>2. ASSUME Regime PROVE FilesMirrored'
  <2> SUFFICES ASSUME NEW c \in Clients
               PROVE  /\ HasClient(c) /\ ~ Ends(c) => table'[clients[c].fd].file = home[c]
                      /\ Starts(c) => table'[event.fd].file = home[c]
    BY DEF FilesMirrored, HasClient, Starts, Ends, Freeing, Subject
  <2>1. Starts(c) => event # NoEvent
    BY NoEventNeither
  <2> QED BY <1>2, <2>1 DEF CaptureInv, HeldOK, DriverInv, MirrorOK, Regime, FilesMirrored
<1>3. UNCHANGED <<rm, current, clients, event>>
  BY <1>1
<1>4. Upcoming' = Upcoming /\ Earlier' = Earlier /\ Allocating' = Allocating
  BY <1>3 DEF Upcoming, Earlier, Replaced, Allocating, Freeing, Subject, Live
<1>5. ASSUME Regime PROVE Mirrors(Upcoming, Earlier)'
  BY <1>4, <1>5 DEF Regime, DriverInv, MirrorOK, Mirrors
<1>6. ASSUME Regime PROVE Allocating' => NewcomerOK'
  BY <1>3, <1>4, <1>6 DEF Regime, DriverInv, MirrorOK, NewcomerOK, Subject, Exists, Live
<1>7. ASSUME Regime PROVE ClientsMirrored'
  BY <1>3, <1>7 DEF Regime, DriverInv, MirrorOK, ClientsMirrored, Starts, Ends, Freeing, Subject,
     HasClient, Exists
<1> QED BY <1>2, <1>5, <1>6, <1>7 DEF MirrorOK, Regime

LEMMA OpenKeepsDriver ==
    ASSUME CaptureInv, DriverInv, NEW d \in Fds, NEW kind \in {"control", "device"}, Open(d, kind)
    PROVE  DriverInv'
<1>1. /\ UNCHANGED <<current, clients, incomplete, rm, home, hidden, stage, early, event, allocating>>
      /\ table[d].by = "none" /\ opened \in Nat
      /\ table' = [table EXCEPT ![d] = [file |-> opened + 1, kind |-> kind, by |-> "app"]]
      /\ table \in [Fds -> Entry]
  BY DEF Open, LowestFree, FreeFds, Closed, registryVars, driver, hook, CaptureInv, TableTyped
<1>2. DriverOK' /\ StageOK'
  BY <1>1 DEF DriverInv, DriverOK, StageOK, HasClient, Exists, Live
<1>3. /\ table'[d].file # NoFile /\ table'[d].by = "app"
      /\ \A f \in Fds \ {d} : table'[f] = table[f]
  BY <1>1 DEF NoFile
<1>4. event # NoEvent => event.fd \in Fds /\ table'[event.fd] = table[event.fd]
  BY <1>1, <1>3, EventNames DEF CaptureInv, DriverInv, FilesOK
<1>5. FilesOK'
  BY <1>1, <1>3, <1>4 DEF DriverInv, FilesOK, HasClient
<1>6. MirrorOK'
  BY <1>1, <1>2, <1>3, <1>4, TableStepKeepsMirror DEF DriverInv, DriverOK
<1> QED BY <1>2, <1>5, <1>6 DEF DriverInv

(* While everything is mirrored, no client loses its file by a close: the     *)
(* capture's own descriptor, or that of the ioctl, keeps the file open.       *)
LEMMA NobodyIsDropped ==
    ASSUME CaptureInv, DriverInv, Regime, NEW d \in Fds, DropFile(d),
           table[d].by # "none",
           event # NoEvent => event.fd # d,
           \A c \in Clients : HasClient(c) /\ clients[c].fd = d => Ends(c)
    PROVE  /\ rm' \in [Keys -> Node]
           /\ \A k \in Keys : rm'[k] = rm[k]
           /\ \A c \in Clients : home'[c] = home[c]
<1> DEFINE file == table[d].file
           gone == IF \E other \in Fds \ {d} : table[other].file = file THEN {} ELSE OnFile(file)
<1>1. gone = {}
  <2> SUFFICES ASSUME NEW c \in Clients, home[c] = file
               PROVE  \E other \in Fds \ {d} : table[other].file = file
    BY DEF OnFile
  <2>1. Exists(Root(c))
    BY DEF DriverInv, DriverOK, FilesOK
  <2>2. CASE Starts(c)
    <3>1. event # NoEvent
      BY <2>2, NoEventNeither
    <3>2. event.fd \in Fds \ {d} /\ table[event.fd].file = home[c]
      BY <2>2, <3>1, EventNames DEF CaptureInv, DriverInv, MirrorOK, Regime, FilesMirrored
    <3> QED BY <3>2
  <2>3. CASE ~ Starts(c)
    <3>1. HasClient(c) /\ ~ Ends(c)
      BY <2>1, <2>3 DEF DriverInv, MirrorOK, Regime, ClientsMirrored
    <3>2. clients[c].fd \in Fds \ {d} /\ table[clients[c].fd].file = home[c]
      BY <3>1 DEF CaptureInv, HeldOK, DriverInv, MirrorOK, Regime, FilesMirrored
    <3> QED BY <3>2
  <2> QED BY <2>2, <2>3
<1>2. rm' = Erased(rm, gone \X Handles)
      /\ home' = [c \in Clients |-> IF c \in gone THEN NoFile ELSE home[c]]
  BY DEF DropFile
<1>3. \A k \in Keys : rm'[k] = rm[k]
  BY <1>1, <1>2, ErasedAt
<1>4. rm' \in [Keys -> Node]
  BY <1>2, <1>3 DEF Erased, DriverInv, DriverOK
<1> QED BY <1>1, <1>2, <1>3, <1>4

LEMMA CloseKeepsDriver ==
    ASSUME CaptureInv, DriverInv, NEW d \in Fds, Close(d) PROVE DriverInv'
<1>1. /\ UNCHANGED <<current, clients, incomplete, hidden, stage, early, event, allocating>>
      /\ table[d].by = "app" /\ DropFile(d) /\ (event # NoEvent => event.fd # d)
      /\ table' = [table EXCEPT ![d] = Closed] /\ table \in [Fds -> Entry]
  BY DEF Close, DropFile, registryVars, hook, CaptureInv, TableTyped
<1>2. DriverOK'
  BY <1>1, DriverDrops DEF DriverInv
<1>3. table'[d].by = "none" /\ \A f \in Fds \ {d} : table'[f] = table[f]
  BY <1>1 DEF Closed
<1>4. event # NoEvent => event.fd \in Fds /\ table'[event.fd] = table[event.fd]
  BY <1>1, <1>3, EventNames DEF CaptureInv
<1>5. FilesOK'
  BY <1>1, <1>3, <1>4 DEF DriverInv, FilesOK, HasClient
<1>6. \A k \in Keys : ~ Exists(k) => ~ Exists(k)'
  BY <1>1, ErasedAt, NoNodeIsNode DEF DropFile, Exists
<1>7. StageOK'
  BY <1>1, <1>6 DEF DriverInv, StageOK, HasClient, Live
<1>8. MirrorOK'
  <2> SUFFICES ASSUME Regime PROVE MirrorOK'
    BY <1>1 DEF MirrorOK, Regime
  <2>1. \A c \in Clients : HasClient(c) => clients[c].fd # d
    BY <1>1 DEF CaptureInv, HeldOK
  <2>2. /\ rm' \in [Keys -> Node]
        /\ \A k \in Keys : rm'[k] = rm[k]
        /\ \A c \in Clients : home'[c] = home[c]
    BY <1>1, <2>1, NobodyIsDropped
  <2> QED BY <1>1, <1>3, <1>4, <2>2, TableStepKeepsMirror
<1> QED BY <1>2, <1>5, <1>7, <1>8 DEF DriverInv

(* What the mirror amounts to between two events, and while a BIND is.        *)
Quiet ==
    /\ Mirrors(current, rm)
    /\ \A c \in Clients : HasClient(c) <=> Exists(Root(c))
    /\ \A c \in Clients : HasClient(c) => table[clients[c].fd].file = home[c]

LEMMA QuietMirrors ==
    ~ Allocating /\ ~ Freeing => (MirrorOK <=> (Regime => Quiet))
<1> SUFFICES ASSUME ~ Allocating, ~ Freeing PROVE MirrorOK <=> (Regime => Quiet)
  OBVIOUS
<1>1. Upcoming = current /\ Earlier = rm
  BY DEF Upcoming, Earlier
<1>2. \A c \in Clients : ~ Starts(c) /\ ~ Ends(c)
  BY DEF Allocating, Freeing, Starts, Ends
<1>3. /\ ClientsMirrored <=> \A c \in Clients : HasClient(c) <=> Exists(Root(c))
      /\ FilesMirrored <=> \A c \in Clients : HasClient(c) => table[clients[c].fd].file = home[c]
  BY <1>2 DEF ClientsMirrored, FilesMirrored
<1> QED BY <1>1, <1>3 DEF MirrorOK, Quiet, Regime

LEMMA QuietAfter ==
    ASSUME event' = NoEvent \/ event'.action = "Bind", Regime' => Quiet' PROVE MirrorOK'
<1>1. (~ Allocating /\ ~ Freeing => (MirrorOK <=> (Regime => Quiet)))'
  BY QuietMirrors, PTL
<1>2. ~ Allocating' /\ ~ Freeing'
  BY DEF Allocating, Freeing, NoEvent
<1> QED BY <1>1, <1>2

LEMMA QuietBefore ==
    ASSUME DriverInv, Regime, event = NoEvent \/ event.action = "Bind" PROVE Quiet
<1>1. ~ Allocating /\ ~ Freeing
  BY DEF Allocating, Freeing, NoEvent
<1> QED BY <1>1, QuietMirrors DEF DriverInv

(* What every ioctl leaves: it is counted as early, makes the capture         *)
(* incomplete, or is the event the hook works on next.                        *)
LEMMA IoctlKeepsRest ==
    ASSUME CaptureInv, DriverInv, NEW d \in Fds, NEW e, Ioctl(d, e),
           e.action \in {"Metadata", "Unsupported"} \/ e.fd = d
    PROVE  /\ FilesOK' /\ StageOK'
           /\ Regime' => /\ Regime /\ event = NoEvent
                         /\ UNCHANGED <<table, current, clients>>
                         /\ \/ event' = e /\ e.action \notin {"Metadata", "Unsupported"}
                            \/ event' = NoEvent /\ e.action = "Metadata"
<1>1. /\ event = NoEvent /\ table[d].by = "app"
      /\ UNCHANGED <<table, hidden, stage, allocating, current, clients>>
      /\ incomplete => incomplete'
  BY DEF Ioctl, Observe, Unlocked, Incomplete, MarkIncomplete, registryVars, process
<1>2. \/ stage = "before" /\ early' = TRUE /\ event' = event /\ incomplete' = incomplete
      \/ stage # "before" /\ incomplete' = TRUE /\ event' = event /\ early' = early
      \/ /\ stage # "before" /\ incomplete' = incomplete /\ event' = event /\ early' = early
         /\ stage = "off" \/ e.action = "Metadata"
      \/ /\ stage = "on" /\ event' = e /\ incomplete' = incomplete /\ early' = early
         /\ e.action \notin {"Metadata", "Unsupported"}
  BY DEF Ioctl, Observe, Incomplete, MarkIncomplete, registryVars
<1>3. FilesOK'
  BY <1>1, <1>2 DEF DriverInv, FilesOK, HasClient
<1>4. StageOK'
  <2>1. early' \in BOOLEAN /\ (stage # "on" => event' = NoEvent)
    BY <1>1, <1>2 DEF DriverInv, StageOK
  <2>2. stage # "before" /\ early' => incomplete'
    BY <1>1, <1>2 DEF DriverInv, StageOK
  <2>3. stage = "before" => early'
    BY <1>2
  <2> QED BY <1>1, <2>1, <2>2, <2>3 DEF DriverInv, StageOK, HasClient, Live
<1> QED BY <1>1, <1>2, <1>3, <1>4 DEF Regime

LEMMA QuietIoctlKeepsDriver ==
    ASSUME CaptureInv, DriverInv, NEW d \in Fds, NEW e, Ioctl(d, e),
           e.action \in {"Metadata", "Unsupported"} \/ (e.action = "Bind" /\ e.fd = d),
           UNCHANGED <<rm, home>>
    PROVE  DriverInv'
<1>1. DriverOK'
  BY DEF DriverInv, DriverOK, Exists
<1>2. /\ FilesOK' /\ StageOK'
      /\ Regime' => /\ Regime /\ event = NoEvent
                    /\ UNCHANGED <<table, current, clients>>
                    /\ event' = NoEvent \/ event'.action = "Bind"
  BY IoctlKeepsRest
<1>3. MirrorOK'
  <2>1. CASE Regime'
    <3>1. Quiet
      BY <1>2, <2>1, QuietBefore
    <3>2. Quiet'
      BY <1>2, <2>1, <3>1 DEF Quiet, Mirrors, HasClient, Exists
    <3> QED BY <1>2, <2>1, <3>2, QuietAfter
  <2>2. CASE ~ Regime'
    BY <2>2 DEF MirrorOK, Regime
  <2> QED BY <2>1, <2>2
<1> QED BY <1>1, <1>2, <1>3 DEF DriverInv

LEMMA BindIoctlKeepsDriver ==
    ASSUME CaptureInv, DriverInv, NEW d \in Fds, NEW k \in Keys,
           NEW form \in Forms("Bind"), BindIoctl(d, k, form)
    PROVE  DriverInv'
<1> DEFINE e == Decoded(form, d, k, k[2], NoClass)
<1>1. Ioctl(d, e) /\ UNCHANGED <<rm, home>>
  BY DEF BindIoctl
<1>2. e.action \in {"Metadata", "Unsupported"} \/ (e.action = "Bind" /\ e.fd = d)
  BY DEF Forms, Decoded
<1> QED BY <1>1, <1>2, QuietIoctlKeepsDriver

LEMMA OtherIoctlKeepsDriver ==
    ASSUME CaptureInv, DriverInv, NEW d \in Fds, OtherIoctl(d) PROVE DriverInv'
<1> DEFINE e == [action |-> "Metadata"]
<1>1. Ioctl(d, e) /\ UNCHANGED <<rm, home>> /\ e.action = "Metadata"
  BY DEF OtherIoctl
<1>2. e.action \in {"Metadata", "Unsupported"} \/ (e.action = "Bind" /\ e.fd = d)
  OBVIOUS
<1> HIDE DEF e
<1> QED BY <1>1, <1>2, QuietIoctlKeepsDriver

(* The registry has not been told of what the driver has just allocated.      *)
LEMMA AllocateIoctlKeepsDriver ==
    ASSUME CaptureInv, DriverInv, NEW d \in Fds, NEW k \in Keys, NEW p \in Handles,
           NEW cls \in Classes, NEW form \in Forms("Allocate"), AllocateIoctl(d, k, p, cls, form)
    PROVE  DriverInv'
<1> DEFINE e == Decoded(form, d, k, p, cls)
           file == table[d].file
<1>1. Ioctl(d, e) /\ Allocatable(k, p, cls) /\ AllocateInDriver(k, p, cls, file)
  BY DEF AllocateIoctl
<1>2. file \in Nat \ {NoFile} /\ table[d].by = "app"
  BY <1>1 DEF Ioctl, DriverInv, FilesOK, CaptureInv, TableTyped, Entry
<1>3. /\ DriverOK'
      /\ rm'[k] = [cls |-> cls, gen |-> 1, parent |-> p, pgen |-> IF IsRoot(k) THEN 0 ELSE 1]
      /\ \A a \in Keys \ {k} : rm'[a] = rm[a]
  BY <1>1, <1>2, DriverAllocates DEF DriverInv
<1>4. /\ e.action = form /\ e.fd = d /\ e.client = k[1] /\ e.object = k[2]
      /\ e.parent = p /\ e.cls = cls /\ k = <<k[1], k[2]>> /\ form \in {"Allocate", "Unsupported"}
  BY DEF Decoded, Forms, Keys
<1>5. /\ FilesOK' /\ StageOK'
      /\ Regime' => /\ Regime /\ event = NoEvent
                    /\ UNCHANGED <<table, current, clients>>
                    /\ event' = e /\ form = "Allocate"
  BY <1>1, <1>4, IoctlKeepsRest
<1>6. MirrorOK'
  <2> SUFFICES ASSUME Regime'
               PROVE  /\ Mirrors(Upcoming, Earlier)' /\ NewcomerOK'
                      /\ ClientsMirrored' /\ FilesMirrored'
    BY DEF MirrorOK, Regime
  <2> HIDE DEF e
  <2>1. Quiet /\ UNCHANGED <<table, current, clients>> /\ event' = e /\ e.action = "Allocate"
    BY <1>4, <1>5, QuietBefore
  <2>2. Subject' = k /\ Allocating' /\ ~ Freeing'
    BY <1>4, <2>1 DEF Subject, Allocating, Freeing
  <2>3. \A c \in Clients : (Starts(c)' <=> k = Root(c)) /\ ~ Ends(c)'
    BY <2>1, <2>2 DEF Starts, Ends
  <2>4. Upcoming' = current /\ Earlier' = Erased(rm', {k})
    BY <2>1, <2>2 DEF Upcoming, Earlier
  <2>5. rm[k].gen = 0
    BY <1>1 DEF Allocatable, Exists
  <2>6. Mirrors(current, Erased(rm', {k}))
    <3> SUFFICES ASSUME NEW a \in Keys
                 PROVE  LET r == Erased(rm', {k}) IN
                        /\ current[a].gen # 0 <=> r[a].gen # 0
                        /\ r[a].gen # 0 => /\ current[a].cls = r[a].cls
                                           /\ current[a].parent = r[a].parent
                                           /\ current[a].pgen # 0 <=> r[a].pgen # 0
      BY DEF Mirrors
    <3>1. CASE a = k
      BY <2>1, <2>5, <3>1, ErasedAt, NoNodeIsNode DEF Quiet, Mirrors
    <3>2. CASE a # k
      <4>1. Erased(rm', {k})[a] = rm[a]
        BY <1>3, <3>2, ErasedAt
      <4> QED BY <2>1, <4>1 DEF Quiet, Mirrors
    <3> QED BY <3>1, <3>2
  <2>7. NewcomerOK'
    <3>1. rm'[k].gen # 0 /\ rm'[k].cls = e.cls /\ rm'[k].parent = e.parent
      BY <1>3, <1>4
    <3>2. current'[k].gen = 0
      BY <2>1, <2>5 DEF Quiet, Mirrors
    <3>3. ~ IsRoot(k) => e.parent # e.object
      BY <1>1, <1>4, <2>5 DEF Allocatable, Exists
    <3>4. ASSUME IsRoot(k), NEW a \in Keys \ {k}, a[1] = k[1] PROVE rm'[a].gen = 0
      <4>1. ~ Exists(Root(a[1]))
        BY <2>5, <3>4, RootOfKey DEF Exists
      <4> QED BY <1>3, <3>4, <4>1 DEF DriverInv, DriverOK, Exists
    <3> QED BY <2>1, <2>2, <3>1, <3>2, <3>3, <3>4 DEF NewcomerOK, Exists, Live
  <2>8. ClientsMirrored'
    <3> SUFFICES ASSUME NEW c \in Clients
                 PROVE  /\ k = Root(c) => ~ HasClient(c) /\ rm'[Root(c)].gen # 0
                        /\ k # Root(c) => (HasClient(c) <=> rm'[Root(c)].gen # 0)
      BY <2>1, <2>3 DEF ClientsMirrored, HasClient, Exists
    <3> QED BY <1>3, <2>1, <2>5, RootIsKey DEF Quiet, Exists
  <2>9. FilesMirrored'
    <3> SUFFICES ASSUME NEW c \in Clients
                 PROVE  /\ HasClient(c) => table[clients[c].fd].file = home'[c]
                        /\ k = Root(c) => table[d].file = home'[c]
      BY <1>4, <2>1, <2>3 DEF FilesMirrored, HasClient
    <3>1. CASE k = Root(c)
      <4>1. ~ HasClient(c)
        BY <2>1, <2>5, <3>1 DEF Quiet, Exists
      <4>2. home' = [home EXCEPT ![c] = file]
        BY <1>1, <3>1, RootIsKey DEF AllocateInDriver
      <4> QED BY <3>1, <4>1, <4>2 DEF DriverInv, DriverOK
    <3>2. CASE k # Root(c)
      <4>1. home'[c] = home[c]
        BY <1>1, <3>2, RootOfKey DEF AllocateInDriver, DriverInv, DriverOK
      <4> QED BY <2>1, <3>2, <4>1 DEF Quiet
    <3> QED BY <3>1, <3>2
  <2> QED BY <2>4, <2>1, <2>6, <2>7, <2>8, <2>9 DEF Mirrors
<1> QED BY <1>3, <1>5, <1>6 DEF DriverInv

(* Two graphs with the same objects, parents and parent tokens lose the same  *)
(* objects with an object.                                                    *)
LEMMA DoomedMirrored ==
    ASSUME NEW g, NEW r, Mirrors(g, r), TokensLive(g), TokensLive(r), NEW k \in LiveIn(r)
    PROVE  k \in LiveIn(g) /\ Doomed(g, k) = Doomed(r, k)
<1>1. LiveIn(g) = LiveIn(r)
  BY DEF LiveIn, Mirrors
<1>2. \A S : \A a \in LiveIn(r) : HasParentIn(g, a, S) <=> HasParentIn(r, a, S)
  BY <1>1, ChildByToken DEF Mirrors, ParentKey, LiveIn
<1>3. \A S : ClosedDownward(g, S) <=> ClosedDownward(r, S)
  BY <1>1, <1>2 DEF ClosedDownward
<1>4. Doomed(g, k) \subseteq Doomed(r, k)
  BY <1>1, <1>3, DoomedIsClosed, DoomedIsLeast
<1>5. Doomed(r, k) \subseteq Doomed(g, k)
  BY <1>1, <1>3, DoomedIsClosed, DoomedIsLeast
<1> QED BY <1>1, <1>4, <1>5

(* What the driver has freed is what the registry is about to erase.          *)
LEMMA FreeIoctlKeepsDriver ==
    ASSUME CaptureInv, DriverInv, NEW d \in Fds, NEW k \in Keys,
           NEW form \in Forms("Free"), FreeIoctl(d, k, form)
    PROVE  DriverInv'
<1> DEFINE e == Decoded(form, d, k, k[2], NoClass)
<1>1. Ioctl(d, e) /\ Exists(k) /\ FreeInDriver(k)
  BY DEF FreeIoctl
<1>2. DriverOK'
  BY <1>1, DriverFrees DEF DriverInv
<1>3. /\ e.action = form /\ e.fd = d /\ e.client = k[1] /\ e.object = k[2]
      /\ k = <<k[1], k[2]>> /\ form \in {"Free", "Unsupported"}
  BY DEF Decoded, Forms, Keys
<1>4. /\ FilesOK' /\ StageOK'
      /\ Regime' => /\ Regime /\ event = NoEvent
                    /\ UNCHANGED <<table, current, clients>>
                    /\ event' = e /\ form = "Free"
  BY <1>1, <1>3, IoctlKeepsRest
<1>5. MirrorOK'
  <2> SUFFICES ASSUME Regime'
               PROVE  /\ Mirrors(Upcoming, Earlier)' /\ ~ Allocating'
                      /\ ClientsMirrored' /\ FilesMirrored'
    BY DEF MirrorOK, Regime
  <2> HIDE DEF e
  <2>1. Quiet /\ UNCHANGED <<table, current, clients>> /\ event' = e /\ e.action = "Free"
    BY <1>3, <1>4, QuietBefore
  <2>2. Subject' = k /\ ~ Allocating' /\ Freeing'
    BY <1>3, <2>1 DEF Subject, Allocating, Freeing
  <2>3. \A c \in Clients : ~ Starts(c)' /\ (Ends(c)' <=> k = Root(c))
    BY <2>1, <2>2 DEF Starts, Ends
  <2> DEFINE gone == IF IsRoot(k) THEN {a \in LiveIn(current) : a[1] = k[1]} ELSE Replaced(k)
  <2>4. e.client = k[1] /\ Upcoming' = Erased(current, gone) /\ Earlier' = Erased(rm, FreedWith(k))
    BY <1>1, <1>3, <2>1, <2>2 DEF Upcoming, Earlier, Replaced, Live, FreeInDriver
  <2>5. \A a \in Keys : Exists(a) => (a \in gone <=> a \in FreedWith(k))
    <3>1. CASE IsRoot(k)
      BY <2>1, <3>1 DEF FreedWith, LiveIn, Quiet, Mirrors, Exists
    <3>2. CASE ~ IsRoot(k)
      <4>1. TokensLive(current) /\ TokensLive(rm) /\ k \in LiveIn(rm)
        BY <1>1, DriverTokensLive DEF CaptureInv, RInv, GraphOK, Sound, DriverInv, LiveIn, Exists
      <4>2. k \in LiveIn(current) /\ Doomed(current, k) = Doomed(rm, k)
        BY <2>1, <4>1, DoomedMirrored DEF Quiet
      <4> QED BY <3>2, <4>2 DEF FreedWith, Replaced, Live, LiveIn
    <3> QED BY <3>1, <3>2
  <2>6. Mirrors(Erased(current, gone), Erased(rm, FreedWith(k)))
    <3> HIDE DEF gone
    <3> DEFINE g == Erased(current, gone)
               r == Erased(rm, FreedWith(k))
    <3> SUFFICES ASSUME NEW a \in Keys
                 PROVE  /\ g[a].gen # 0 <=> r[a].gen # 0
                        /\ r[a].gen # 0 => /\ g[a].cls = r[a].cls
                                           /\ g[a].parent = r[a].parent
                                           /\ g[a].pgen # 0 <=> r[a].pgen # 0
      BY DEF Mirrors
    <3>1. CASE ~ Exists(a)
      <4>1. current[a].gen = 0 /\ rm[a].gen = 0
        BY <2>1, <3>1 DEF Quiet, Mirrors, Exists
      <4>2. g[a].gen = 0 /\ r[a].gen = 0
        BY <4>1, ErasedAt, NoNodeIsNode
      <4> QED BY <4>2
    <3>2. CASE Exists(a) /\ a \in gone
      <4>1. g[a].gen = 0 /\ r[a].gen = 0
        BY <2>5, <3>2, ErasedAt, NoNodeIsNode
      <4> QED BY <4>1
    <3>3. CASE Exists(a) /\ a \notin gone
      <4>1. g[a] = current[a] /\ r[a] = rm[a]
        BY <2>5, <3>3, ErasedAt
      <4> QED BY <2>1, <4>1 DEF Quiet, Mirrors
    <3> QED BY <3>1, <3>2, <3>3
  <2>7. rm' = Erased(rm, FreedWith(k))
    BY <1>1 DEF FreeInDriver
  <2>8. k \in FreedWith(k)
    BY <1>1, DoomedIsClosed DEF FreedWith, LiveIn, Exists
  <2>9. \A c \in Clients : k # Root(c) => Root(c) \notin FreedWith(k)
    <3>1. CASE IsRoot(k)
      BY <3>1, RootIsKey, RootOfKey DEF FreedWith
    <3>2. CASE ~ IsRoot(k)
      BY <1>1, <3>2, FreeTakesNoRoot DEF FreedWith, DriverInv
    <3> QED BY <3>1, <3>2
  <2>10. ClientsMirrored'
    <3> SUFFICES ASSUME NEW c \in Clients
                 PROVE  /\ k = Root(c) => HasClient(c) /\ rm'[Root(c)].gen = 0
                        /\ k # Root(c) => (HasClient(c) <=> rm'[Root(c)].gen # 0)
      BY <2>1, <2>3 DEF ClientsMirrored, HasClient, Exists
    <3>1. k = Root(c) => HasClient(c) /\ rm'[Root(c)].gen = 0
      BY <1>1, <2>1, <2>7, <2>8, ErasedAt, NoNodeIsNode DEF Quiet
    <3>2. k # Root(c) => rm'[Root(c)] = rm[Root(c)]
      BY <2>7, <2>9, ErasedAt, RootIsKey
    <3> QED BY <2>1, <3>1, <3>2 DEF Quiet, Exists
  <2>11. FilesMirrored'
    <3> SUFFICES ASSUME NEW c \in Clients, HasClient(c), k # Root(c)
                 PROVE  table[clients[c].fd].file = home'[c]
      BY <2>1, <2>3 DEF FilesMirrored, HasClient
    <3>1. home'[c] = home[c]
      BY <1>1, RootOfKey DEF FreeInDriver, DriverInv, DriverOK
    <3> QED BY <2>1, <3>1 DEF Quiet
  <2> HIDE DEF gone
  <2> QED BY <2>2, <2>4, <2>6, <2>10, <2>11 DEF Mirrors
<1> QED BY <1>2, <1>4, <1>5 DEF DriverInv

(* What the second half of the hook leaves alone.                             *)
LEMMA SecondHalf ==
    ASSUME CaptureInv, DriverInv, [Next]_registryVars, event # NoEvent,
           UNCHANGED <<stage, early, hidden>>
    PROVE  /\ StageOK'
           /\ incomplete => incomplete'
           /\ Regime' => Regime
           /\ Regime => /\ Mirrors(Upcoming, Earlier)
                        /\ Allocating => NewcomerOK
                        /\ ClientsMirrored /\ FilesMirrored
           /\ event \in DecodedEvent /\ Subject \in Keys
<1>1. incomplete => incomplete'
  BY IncompleteStays DEF CaptureInv, RInv
<1>2. stage = "on"
  BY DEF DriverInv, StageOK
<1>3. event \in DecodedEvent /\ Subject \in Keys
  BY DEF CaptureInv, EventTyped, DecodedEvent, Subject, Keys
<1> QED BY <1>1, <1>2, <1>3 DEF DriverInv, StageOK, MirrorOK, Regime

(* The end of an event that touched neither the driver nor the table.         *)
LEMMA EventEnds ==
    ASSUME CaptureInv, DriverInv, [Next]_registryVars, event # NoEvent, event' = NoEvent,
           UNCHANGED <<stage, early, hidden, table, allocating, rm, home, clients>>,
           Regime' => Quiet'
    PROVE  DriverInv'
<1>1. StageOK' /\ (incomplete => incomplete')
  BY SecondHalf
<1>2. DriverOK'
  BY DEF DriverInv, DriverOK, Exists
<1>3. FilesOK'
  BY <1>1 DEF DriverInv, FilesOK, HasClient
<1>4. MirrorOK'
  BY QuietAfter
<1> QED BY <1>1, <1>2, <1>3, <1>4 DEF DriverInv

LEMMA CannotRetainKeepsDriver ==
    ASSUME CaptureInv, DriverInv, [Next]_registryVars, CannotRetain PROVE DriverInv'
<1>1. /\ event # NoEvent /\ event' = NoEvent
      /\ UNCHANGED <<stage, early, hidden, table, allocating, rm, home, clients>>
      /\ incomplete' = TRUE
  BY DEF CannotRetain, Incomplete, MarkIncomplete, process, driver, NoEvent
<1> QED BY <1>1, EventEnds DEF Regime

(* Told of the new object, the registry has it as the driver does: its parent *)
(* token is live when the parent is, and a client's first object has none.    *)
LEMMA InsertKeepsDriver ==
    ASSUME CaptureInv, DriverInv, [Next]_registryVars, Insert PROVE DriverInv'
<1> DEFINE k == Subject
           pk == <<event.client, event.parent>>
<1>1. /\ event # NoEvent /\ event' = NoEvent
      /\ UNCHANGED <<stage, early, hidden, table, allocating, rm, home>>
      /\ Allocating /\ ~ Freeing
      /\ event.action = "Allocate" => HasClient(event.client)
      /\ Allocate(event.client, event.object, event.parent, event.cls)
  BY DEF Insert, process, driver, NoEvent, Allocating, Freeing
<1>2. clients' = clients
  BY <1>1 DEF Allocate
<1>3. ASSUME Regime' PROVE Quiet'
  <2>1. /\ Regime /\ event \in DecodedEvent /\ k \in Keys
        /\ Mirrors(current, Erased(rm, {k})) /\ NewcomerOK /\ ClientsMirrored /\ FilesMirrored
    BY <1>1, <1>3, SecondHalf DEF Upcoming, Earlier
  <2>2. ~ Live(k) /\ Exists(k) /\ rm[k].cls = event.cls /\ rm[k].parent = event.parent
    BY <2>1 DEF NewcomerOK
  <2>3. current' = Inserted(Erased(current, {}), k, event.parent, event.cls)
    BY <1>1, <1>3, <2>2 DEF Allocate, Regime, MarkIncomplete, Replaced, Subject
  <2>4. \A a \in Keys : Erased(current, {})[a] = current[a]
    BY ErasedAt
  <2>5. pk \in Keys /\ pk[1] = k[1] /\ k[1] \in Clients
    BY <2>1 DEF DecodedEvent, Keys, Subject
  <2>6. /\ current'[k] = [cls |-> event.cls, gen |-> next, parent |-> event.parent,
                          pgen |-> current[pk].gen]
        /\ \A a \in Keys \ {k} : current'[a] = current[a]
    BY <2>1, <2>3, <2>4, <2>5 DEF Inserted, Erased, Subject
  <2>7. next # 0
    BY DEF CaptureInv, RInv, GraphOK
  <2>8. \A a \in Keys \ {k} : Erased(rm, {k})[a] = rm[a]
    BY ErasedAt
  <2>9. current[pk].gen # 0 <=> rm[k].pgen # 0
    <3>1. CASE IsRoot(k)
      <4>1. rm[k].pgen = 0
        BY <2>1, <2>2, <3>1 DEF DriverInv, DriverOK
      <4>2. pk = k \/ ~ Exists(pk)
        BY <2>1, <2>5, <3>1 DEF NewcomerOK, Subject
      <4>3. current[pk].gen = 0
        BY <2>1, <2>2, <2>5, <2>8, <4>2 DEF Live, Exists, Mirrors
      <4> QED BY <4>1, <4>3
    <3>2. CASE ~ IsRoot(k)
      <4>1. rm[k].pgen # 0 /\ Exists(ParentKey(rm, k))
        BY <2>1, <2>2, <3>2 DEF DriverInv, DriverOK
      <4>2. ParentKey(rm, k) = pk /\ pk # k
        BY <2>1, <2>2, <3>2 DEF ParentKey, NewcomerOK, Subject
      <4>3. current[pk].gen # 0
        BY <2>1, <2>5, <2>8, <4>1, <4>2 DEF Exists, Mirrors
      <4> QED BY <4>1, <4>3
    <3> QED BY <3>1, <3>2
  <2>10. Mirrors(current', rm)
    <3> SUFFICES ASSUME NEW a \in Keys
                 PROVE  /\ current'[a].gen # 0 <=> rm[a].gen # 0
                        /\ rm[a].gen # 0 => /\ current'[a].cls = rm[a].cls
                                            /\ current'[a].parent = rm[a].parent
                                            /\ current'[a].pgen # 0 <=> rm[a].pgen # 0
      BY DEF Mirrors
    <3>1. CASE a = k
      BY <2>2, <2>6, <2>7, <2>9, <3>1 DEF Exists
    <3>2. CASE a # k
      BY <2>1, <2>6, <2>8, <3>2 DEF Mirrors
    <3> QED BY <3>1, <3>2
  <2>11. \A c \in Clients : ~ Starts(c) /\ ~ Ends(c)
    <3> SUFFICES ASSUME NEW c \in Clients, Starts(c) PROVE FALSE
      BY <1>1 DEF Ends
    <3>1. event.client = c /\ event.action = "Allocate"
      BY DEF Starts, Subject, Root
    <3> QED BY <1>1, <2>1, <3>1 DEF ClientsMirrored
  <2>12. /\ \A c \in Clients : HasClient(c) <=> Exists(Root(c))
         /\ \A c \in Clients : HasClient(c) => table[clients[c].fd].file = home[c]
    BY <2>1, <2>11 DEF ClientsMirrored, FilesMirrored
  <2> QED BY <1>1, <1>2, <2>10, <2>12 DEF Quiet, Mirrors, HasClient, Exists
<1> QED BY <1>1, <1>2, <1>3, EventEnds

(* The duplicate is on the file of the ioctl, which is the client's.          *)
LEMMA RetainKeepsDriver ==
    ASSUME CaptureInv, DriverInv, [Next]_registryVars, NEW held \in Fds, Retain(held)
    PROVE  DriverInv'
<1> DEFINE c == event.client
<1>1. /\ event # NoEvent /\ event.action = "Allocate" /\ ~ HasClient(c)
      /\ event' = [event EXCEPT !.action = "Insert"]
      /\ UNCHANGED <<stage, early, hidden, rm, home>>
      /\ Client(c, held)
      /\ table' = [table EXCEPT ![held] = [table[event.fd] EXCEPT !.by = "capture"]]
      /\ allocating' = [allocating EXCEPT ![c] = event.fd]
      /\ table[held].by = "none"
  BY DEF Retain, driver, NoEvent, LowestFree, FreeFds, Closed
<1>2. /\ event \in DecodedEvent /\ c \in Clients /\ event.fd \in Fds /\ Subject \in Keys
      /\ StageOK' /\ (incomplete => incomplete') /\ (Regime' => Regime)
      /\ Regime => /\ Mirrors(Upcoming, Earlier) /\ (Allocating => NewcomerOK)
                   /\ ClientsMirrored /\ FilesMirrored
  BY <1>1, SecondHalf, EventNames DEF CaptureInv
<1>3. /\ current' = current
      /\ clients' = clients
         \/ clients' = [clients EXCEPT ![c] = [fd |-> held, gen |-> next]]
      /\ ~ incomplete' => clients' = [clients EXCEPT ![c] = [fd |-> held, gen |-> next]]
  BY <1>1 DEF Client, MarkIncomplete, NoFd
<1>4. /\ \A b \in Clients \ {c} : clients'[b] = clients[b]
      /\ ~ incomplete' => clients'[c].fd = held /\ clients'[c].gen # 0
  <2>1. clients \in [Clients -> [fd : Fds \cup {NoFd}, gen : Nat]] /\ next # 0
    BY DEF CaptureInv, RInv, ClientsOK, GraphOK
  <2> QED BY <1>2, <1>3, <2>1
<1>5. /\ table'[held].by = "capture" /\ table'[held].file = table[event.fd].file
      /\ \A f \in Fds \ {held} : table'[f] = table[f]
      /\ event.fd # held /\ table[event.fd].by = "app"
  BY <1>1, <1>2 DEF CaptureInv, TableTyped, Entry, DriverInv, FilesOK
<1>6. /\ event'.action = "Insert" /\ event'.fd = event.fd /\ event'.client = c
      /\ event'.object = event.object /\ event'.parent = event.parent
      /\ event'.cls = event.cls /\ event' # NoEvent
  BY <1>1, <1>2 DEF DecodedEvent, NoEvent
<1>7. DriverOK'
  BY <1>1 DEF DriverInv, DriverOK, Exists
<1>8. FilesOK'
  <2>1. \A d \in Fds : table'[d].by # "none" => table'[d].file # NoFile
    BY <1>2, <1>5 DEF DriverInv, FilesOK
  <2>2. table'[event'.fd].by = "app"
    BY <1>2, <1>5, <1>6
  <2>3. /\ allocating' \in [Clients -> Fds \cup {NoFd}] /\ allocating'[c] # NoFd
        /\ \A b \in Clients \ {c} : allocating'[b] = allocating[b]
    BY <1>1, <1>2, RegistryAssumption DEF RegistryAssumption, NoFd, DriverInv, FilesOK
  <2>4. \A b \in Clients : HasClient(b)' => allocating'[b] # NoFd
    BY <1>4, <2>3 DEF DriverInv, FilesOK, HasClient
  <2>5. ASSUME ~ incomplete', NEW d \in Fds, table'[d].by = "capture"
        PROVE  \E b \in Clients : clients'[b].gen # 0 /\ clients'[b].fd = d
    <3>1. CASE d = held
      BY <1>2, <1>4, <2>5, <3>1
    <3>2. CASE d # held
      <4>1. PICK b \in Clients : HasClient(b) /\ clients[b].fd = d
        BY <1>2, <1>5, <2>5, <3>2 DEF DriverInv, FilesOK
      <4> QED BY <1>1, <1>4, <4>1 DEF HasClient
    <3> QED BY <3>1, <3>2
  <2> QED BY <2>1, <2>2, <2>3, <2>4, <2>5 DEF FilesOK, HasClient
<1>9. MirrorOK'
  <2> SUFFICES ASSUME Regime'
               PROVE  /\ Mirrors(Upcoming, Earlier)' /\ NewcomerOK'
                      /\ ClientsMirrored' /\ FilesMirrored'
    BY DEF MirrorOK, Regime
  <2>1. /\ Allocating /\ ~ Freeing /\ Allocating' /\ ~ Freeing' /\ Subject' = Subject
        /\ \A b \in Clients : ~ Starts(b)' /\ ~ Ends(b)' /\ ~ Ends(b)
    BY <1>1, <1>6 DEF Allocating, Freeing, Subject, Starts, Ends
  <2>2. Mirrors(Upcoming, Earlier) /\ NewcomerOK /\ ClientsMirrored /\ FilesMirrored
    BY <1>2, <2>1
  <2>3. Mirrors(Upcoming, Earlier)'
    BY <1>1, <1>3, <2>1, <2>2 DEF Mirrors, Upcoming, Earlier
  <2>4. NewcomerOK'
    BY <1>1, <1>3, <1>6, <2>1, <2>2 DEF NewcomerOK, Exists, Live
  <2>5. Subject = Root(c)
    <3>1. Exists(Root(c))
      BY <1>2, <2>2 DEF NewcomerOK, DriverInv, DriverOK, Subject
    <3>2. Starts(c)
      BY <1>1, <1>2, <2>1, <2>2, <3>1 DEF ClientsMirrored
    <3> QED BY <3>2 DEF Starts
  <2>6. \A b \in Clients : Starts(b) <=> b = c
    BY <1>1, <2>5 DEF Starts, Root
  <2>7. ClientsMirrored'
    <3> SUFFICES ASSUME NEW b \in Clients PROVE clients'[b].gen # 0 <=> rm[Root(b)].gen # 0
      BY <1>1, <2>1 DEF ClientsMirrored, HasClient, Exists
    <3> QED BY <1>2, <1>4, <2>1, <2>2, <2>6 DEF Regime, ClientsMirrored, HasClient, Exists
  <2>8. FilesMirrored'
    <3> SUFFICES ASSUME NEW b \in Clients, clients'[b].gen # 0
                 PROVE  table'[clients'[b].fd].file = home[b]
      BY <1>1, <2>1 DEF FilesMirrored, HasClient
    <3>1. CASE b = c
      BY <1>4, <1>5, <2>2, <2>6, <3>1 DEF Regime, FilesMirrored
    <3>2. CASE b # c
      <4>1. HasClient(b) /\ clients'[b] = clients[b]
        BY <1>4, <3>2 DEF HasClient
      <4>2. clients[b].fd \in Fds \ {held}
        BY <1>5, <1>1, <4>1 DEF CaptureInv, HeldOK
      <4> QED BY <1>5, <2>1, <2>2, <4>1, <4>2 DEF FilesMirrored
    <3> QED BY <3>1, <3>2
  <2> QED BY <2>3, <2>4, <2>7, <2>8
<1> QED BY <1>2, <1>7, <1>8, <1>9 DEF DriverInv

(* The registry erases what the driver had freed.                             *)
LEMMA FreeObservedKeepsDriver ==
    ASSUME CaptureInv, DriverInv, [Next]_registryVars, FreeObserved PROVE DriverInv'
<1>1. /\ event # NoEvent /\ event' = NoEvent
      /\ UNCHANGED <<stage, early, hidden, table, allocating, rm, home>>
      /\ Freeing /\ ~ Allocating /\ event.client # event.object
      /\ FreeObject(event.client, event.object)
  BY DEF FreeObserved, process, driver, NoEvent, Allocating, Freeing
<1>2. clients' = clients /\ current' = Erased(current, Replaced(Subject))
  BY <1>1 DEF FreeObject, Subject
<1>3. ~ IsRoot(Subject) /\ \A c \in Clients : ~ Starts(c) /\ ~ Ends(c)
  BY <1>1 DEF IsRoot, Subject, Starts, Ends, Root, Freeing
<1>4. Upcoming = current' /\ Earlier = rm
  BY <1>1, <1>2, <1>3 DEF Upcoming, Earlier
<1>5. ASSUME Regime' PROVE Quiet'
  <2>1. Mirrors(Upcoming, Earlier) /\ ClientsMirrored /\ FilesMirrored
    BY <1>1, <1>5, SecondHalf
  <2>2. Mirrors(current', rm)
    BY <1>4, <2>1
  <2>3. /\ \A c \in Clients : HasClient(c) <=> Exists(Root(c))
        /\ \A c \in Clients : HasClient(c) => table[clients[c].fd].file = home[c]
    BY <1>3, <2>1 DEF ClientsMirrored, FilesMirrored
  <2> QED BY <1>1, <1>2, <2>2, <2>3 DEF Quiet, Mirrors, HasClient, Exists
<1> QED BY <1>1, <1>2, <1>5, EventEnds

(* A BIND moves tokens, never an object, a class or a parent.                 *)
LEMMA ReboundMirrors ==
    ASSUME NEW g, NEW k \in Keys, Live(k), next \in Nat \ {0}, current \in [Keys -> Node],
           Mirrors(current, g)
    PROVE  Mirrors(Rebound(k), g)
<1>1. ASSUME NEW a \in Keys
      PROVE  /\ Rebound(k)[a].gen # 0 <=> current[a].gen # 0
             /\ Rebound(k)[a].cls = current[a].cls
             /\ Rebound(k)[a].parent = current[a].parent
             /\ Rebound(k)[a].pgen # 0 <=> current[a].pgen # 0
  <2>1. CASE a = k
    BY <2>1 DEF Rebound, Live, Node
  <2>2. CASE a # k /\ ChildOf(current, a, k)
    BY <2>2 DEF Rebound, Node, ChildOf
  <2>3. CASE a # k /\ ~ ChildOf(current, a, k)
    BY <2>3 DEF Rebound
  <2> QED BY <2>1, <2>2, <2>3
<1> HIDE DEF Mirrors
<1> QED BY <1>1 DEF Mirrors

LEMMA BindObservedKeepsDriver ==
    ASSUME CaptureInv, DriverInv, [Next]_registryVars, BindObserved PROVE DriverInv'
<1>1. /\ event # NoEvent /\ event' = NoEvent /\ event.action = "Bind"
      /\ UNCHANGED <<stage, early, hidden, table, allocating, rm, home>>
      /\ Bind(event.client, event.object)
  BY DEF BindObserved, process, driver, NoEvent
<1>2. clients' = clients
  BY <1>1 DEF Bind
<1>3. ASSUME Regime' PROVE Quiet'
  <2>1. Regime /\ Subject \in Keys
    BY <1>1, <1>3, SecondHalf
  <2>2. Quiet
    BY <1>1, <2>1, QuietBefore
  <2>3. Live(Subject) /\ current' = Rebound(Subject)
    BY <1>1, <1>3 DEF Bind, Regime, MarkIncomplete, Subject
  <2>4. next \in Nat \ {0} /\ current \in [Keys -> Node]
    BY DEF CaptureInv, RInv, GraphOK, Sound, WellTyped
  <2>5. Mirrors(current', rm)
    BY <2>1, <2>2, <2>3, <2>4, ReboundMirrors DEF Quiet
  <2> QED BY <1>1, <1>2, <2>2, <2>5 DEF Quiet, Mirrors, HasClient, Exists
<1> QED BY <1>1, <1>2, <1>3, EventEnds

(* The client ends in the driver and in the registry, and with it the capture *)
(* closes its descriptor: no other client loses its own.                      *)
LEMMA FreeClientObservedKeepsDriver ==
    ASSUME CaptureInv, DriverInv, [Next]_registryVars, FreeClientObserved PROVE DriverInv'
<1> DEFINE c == event.client
           d == clients[c].fd
<1>1. /\ event # NoEvent /\ event' = NoEvent /\ event.client = event.object
      /\ UNCHANGED <<stage, early, hidden>>
      /\ Freeing /\ ~ Allocating
      /\ FreeClient(c)
      /\ IF HasClient(c) THEN DropFile(d) /\ allocating' = [allocating EXCEPT ![c] = NoFd]
         ELSE UNCHANGED <<table, rm, home, allocating>>
  BY DEF FreeClientObserved, NoEvent, Allocating, Freeing
<1>2. /\ event \in DecodedEvent /\ c \in Clients /\ event.fd \in Fds /\ Subject \in Keys
      /\ StageOK' /\ (incomplete => incomplete') /\ (Regime' => Regime)
      /\ Regime => Mirrors(Upcoming, Earlier) /\ ClientsMirrored /\ FilesMirrored
  BY <1>1, SecondHalf, EventNames DEF CaptureInv
<1>3. Subject = Root(c) /\ Ends(c) /\ \A b \in Clients : ~ Starts(b) /\ (Ends(b) <=> b = c)
  BY <1>1 DEF Subject, Root, Starts, Ends, Freeing
<1>4. /\ clients'[c].gen = 0 /\ \A b \in Clients \ {c} : clients'[b] = clients[b]
      /\ current' = Erased(current, {k \in LiveIn(current) : k[1] = c})
  BY <1>1, <1>2 DEF FreeClient, CaptureInv, RInv, ClientsOK
<1>5. HasClient(c) => d \in Fds /\ table[d].by = "capture" /\ event.fd # d
  BY <1>1, <1>2 DEF CaptureInv, HeldOK, DriverInv, FilesOK
<1>6. \A b \in Clients \ {c} : HasClient(b) =>
        clients[b].fd \in Fds /\ (HasClient(c) => clients[b].fd # d)
  BY <1>2 DEF CaptureInv, HeldOK
<1>7. DriverOK'
  <2>1. CASE HasClient(c)
    BY <1>1, <1>5, <2>1, DriverDrops DEF DriverInv
  <2>2. CASE ~ HasClient(c)
    BY <1>1, <2>2 DEF DriverInv, DriverOK, Exists
  <2> QED BY <2>1, <2>2
<1>8. /\ HasClient(c) => table'[d].by = "none"
      /\ \A f \in Fds : (HasClient(c) /\ f = d) \/ table'[f] = table[f]
  BY <1>1, <1>5 DEF DropFile, Closed, CaptureInv, TableTyped
<1> HIDE DEF d
<1>9. FilesOK'
  <2>1. \A f \in Fds : table'[f].by # "none" => table'[f].file # NoFile
    BY <1>8 DEF DriverInv, FilesOK
  <2>2. /\ allocating' \in [Clients -> Fds \cup {NoFd}]
        /\ \A b \in Clients \ {c} : allocating'[b] = allocating[b]
    BY <1>1, <1>2 DEF DriverInv, FilesOK
  <2>3. \A b \in Clients : clients'[b].gen # 0 => allocating'[b] # NoFd
    BY <1>4, <2>2 DEF DriverInv, FilesOK, HasClient
  <2>4. ASSUME ~ incomplete', NEW f \in Fds, table'[f].by = "capture"
        PROVE  \E b \in Clients : clients'[b].gen # 0 /\ clients'[b].fd = f
    <3>1. table'[f] = table[f] /\ ~ (HasClient(c) /\ f = d)
      BY <1>8, <2>4
    <3>2. PICK b \in Clients : HasClient(b) /\ clients[b].fd = f
      BY <1>2, <2>4, <3>1 DEF DriverInv, FilesOK
    <3>3. b # c
      BY <3>1, <3>2 DEF d
    <3> QED BY <1>4, <3>2, <3>3 DEF HasClient
  <2> QED BY <1>1, <2>1, <2>2, <2>3, <2>4 DEF FilesOK, HasClient
<1>10. ASSUME Regime' PROVE Quiet'
  <2>1. Regime /\ Mirrors(Upcoming, Earlier) /\ ClientsMirrored /\ FilesMirrored
    BY <1>2, <1>10
  <2>2. HasClient(c) /\ ~ Exists(Root(c))
    BY <1>2, <1>3, <2>1 DEF ClientsMirrored
  <2>3. Upcoming = current' /\ Earlier = rm
    BY <1>1, <1>2, <1>3, <1>4, RootIsKey DEF Upcoming, Earlier
  <2>4. /\ rm' \in [Keys -> Node]
        /\ \A k \in Keys : rm'[k] = rm[k]
        /\ \A b \in Clients : home'[b] = home[b]
    <3>1. DropFile(d) /\ table[d].by # "none" /\ d \in Fds /\ event.fd # d
      BY <1>1, <1>5, <2>2 DEF d
    <3>2. \A b \in Clients : HasClient(b) /\ clients[b].fd = d => Ends(b)
      BY <1>3, <1>6, <2>2
    <3> QED BY <2>1, <3>1, <3>2, NobodyIsDropped
  <2>5. \A b \in Clients : clients'[b].gen # 0 <=> rm'[Root(b)].gen # 0
    <3> SUFFICES ASSUME NEW b \in Clients PROVE clients'[b].gen # 0 <=> rm[Root(b)].gen # 0
      BY <2>4, RootIsKey
    <3> QED BY <1>3, <1>4, <2>1, <2>2 DEF ClientsMirrored, HasClient, Exists
  <2>6. ASSUME NEW b \in Clients, clients'[b].gen # 0
        PROVE  table'[clients'[b].fd].file = home'[b]
    <3>1. b # c /\ HasClient(b) /\ clients'[b] = clients[b]
      BY <1>4, <2>6 DEF HasClient
    <3>2. table'[clients[b].fd] = table[clients[b].fd]
      BY <1>6, <1>8, <3>1
    <3> QED BY <1>3, <2>1, <2>4, <3>1, <3>2 DEF FilesMirrored
  <2> QED BY <2>1, <2>3, <2>4, <2>5, <2>6 DEF Quiet, Mirrors, HasClient, Exists
<1>11. MirrorOK'
  BY <1>1, <1>10, QuietAfter
<1> QED BY <1>2, <1>7, <1>9, <1>11 DEF DriverInv

-----------------------------------------------------------------------------
LEMMA DriverInit == CaptureInit => DriverInv
<1> SUFFICES ASSUME CaptureInit PROVE DriverInv
  OBVIOUS
<1>1. /\ rm \in [Keys -> Node] /\ \A k \in Keys : rm[k].gen = 0 /\ rm[k].pgen = 0
      /\ home = [c \in Clients |-> NoFile] /\ table = [d \in Fds |-> Closed]
      /\ event = NoEvent /\ stage = "before" /\ early = FALSE /\ hidden = 0
      /\ allocating = [c \in Clients |-> NoFd]
      /\ \A c \in Clients : clients[c].gen = 0
      /\ \A k \in Keys : current[k].gen = 0
  BY NoNodeIsNode DEF CaptureInit, Init
<1>2. DriverOK
  BY <1>1, RootIsKey DEF DriverOK, Exists, NoFile
<1>3. FilesOK
  BY <1>1 DEF FilesOK, HasClient, Closed
<1>4. StageOK /\ MirrorOK
  BY <1>1 DEF StageOK, MirrorOK, HasClient, Live, Exists
<1> QED BY <1>2, <1>3, <1>4 DEF DriverInv

LEMMA DriverStep ==
    ASSUME CaptureInv, DriverInv, [CaptureNext]_ioctlVars PROVE DriverInv'
<1>0. [Next]_registryVars
  BY CaptureStep
<1>1. CASE UNCHANGED ioctlVars
  BY <1>1, SamePreserves DEF ioctlVars, registryVars, process, driver, hook
<1>2. CASE CaptureNext
  <2>1. ASSUME NEW enabled \in BOOLEAN, Configure(enabled) PROVE DriverInv'
    BY <2>1, ConfigureKeepsDriver
  <2>2. ASSUME NEW c \in Clients, TakeBinding(c) PROVE DriverInv'
    BY <2>2, TakeBindingKeepsDriver
  <2>3. ASSUME NEW k \in Keys, HiddenFree(k) PROVE DriverInv'
    BY <2>3, HiddenKeepsDriver
  <2>4. ASSUME NEW d \in Fds, NEW kind \in {"control", "device"}, Open(d, kind) PROVE DriverInv'
    BY <2>4, OpenKeepsDriver
  <2>5. ASSUME NEW d \in Fds, Close(d) PROVE DriverInv'
    BY <2>5, CloseKeepsDriver
  <2>6. ASSUME NEW d \in Fds, OtherIoctl(d) PROVE DriverInv'
    BY <2>6, OtherIoctlKeepsDriver
  <2>7. ASSUME NEW d \in Fds, Retain(d) PROVE DriverInv'
    BY <1>0, <2>7, RetainKeepsDriver
  <2>8. ASSUME NEW d \in Fds, NEW c \in Clients, NEW shape \in AllocShapes,
               NEW form \in Forms("Allocate"),
               AllocateIoctl(d, <<c, shape[1]>>, shape[2], shape[3], form)
        PROVE  DriverInv'
    <3>1. <<c, shape[1]>> \in Keys /\ shape[2] \in Handles /\ shape[3] \in Classes
      BY RegistryAssumption DEF RegistryAssumption, Keys
    <3> QED BY <2>8, <3>1, AllocateIoctlKeepsDriver
  <2>9. ASSUME NEW d \in Fds, NEW c \in Clients, NEW shape \in AllocShapes,
               HiddenAllocate(d, <<c, shape[1]>>, shape[2], shape[3])
        PROVE  DriverInv'
    BY <2>9, HiddenKeepsDriver
  <2>10. ASSUME NEW d \in Fds, NEW k \in Keys, NEW form \in Forms("Free"), FreeIoctl(d, k, form)
         PROVE  DriverInv'
    BY <2>10, FreeIoctlKeepsDriver
  <2>11. ASSUME NEW d \in Fds, NEW k \in Keys, NEW form \in Forms("Bind"), BindIoctl(d, k, form)
         PROVE  DriverInv'
    BY <2>11, BindIoctlKeepsDriver
  <2>12. CASE CannotRetain
    BY <1>0, <2>12, CannotRetainKeepsDriver
  <2>13. CASE Insert
    BY <1>0, <2>13, InsertKeepsDriver
  <2>14. CASE FreeObserved
    BY <1>0, <2>14, FreeObservedKeepsDriver
  <2>15. CASE FreeClientObserved
    BY <1>0, <2>15, FreeClientObservedKeepsDriver
  <2>16. CASE BindObserved
    BY <1>0, <2>16, BindObservedKeepsDriver
  <2> QED BY <1>2, <2>1, <2>2, <2>3, <2>4, <2>5, <2>6, <2>7, <2>8, <2>9, <2>10, <2>11,
             <2>12, <2>13, <2>14, <2>15, <2>16 DEF CaptureNext
<1> QED BY <1>1, <1>2

LEMMA DriverInvariance == CaptureSpec => [](CaptureInv /\ DriverInv)
<1>1. CaptureInit => CaptureInv /\ DriverInv
  BY CaptureInitEstablishes, DriverInit
<1>2. CaptureInv /\ DriverInv /\ [CaptureNext]_ioctlVars => (CaptureInv /\ DriverInv)'
  BY CaptureStep, DriverStep
<1> QED BY <1>1, <1>2, PTL DEF CaptureSpec

(* While the capture is complete the descriptors it has open are exactly      *)
(* those of the clients it knows, one each, on the file the driver has the    *)
(* client on: none leaks and none is closed twice, whatever the application   *)
(* opens, closes and frees.                                                   *)
THEOREM CaptureHoldsOnePerClient == CaptureSpec => []OneDescriptorPerClient
<1>1. CaptureInv /\ DriverInv => OneDescriptorPerClient
  <2> SUFFICES ASSUME CaptureInv, DriverInv, ~ incomplete, Unlocked \/ event.action # "Insert"
               PROVE  /\ {d \in Fds : table[d].by = "capture"} =
                            {clients[c].fd : c \in {b \in Clients : HasClient(b)}}
                      /\ \A b, c \in {a \in Clients : HasClient(a)} :
                            clients[b].fd = clients[c].fd => b = c
                      /\ \A c \in {b \in Clients : HasClient(b)} :
                            /\ allocating[c] # NoFd
                            /\ hidden = 0 /\ Unlocked => table[clients[c].fd].file = home[c]
    BY DEF OneDescriptorPerClient
  <2>1. {d \in Fds : table[d].by = "capture"} =
            {clients[c].fd : c \in {b \in Clients : HasClient(b)}}
    BY DEF CaptureInv, HeldOK, DriverInv, FilesOK
  <2>2. \A c \in Clients : HasClient(c) => allocating[c] # NoFd /\ stage = "on"
    BY DEF DriverInv, FilesOK, StageOK
  <2>3. ASSUME NEW c \in Clients, HasClient(c), hidden = 0, Unlocked
        PROVE  table[clients[c].fd].file = home[c]
    BY <2>2, <2>3, QuietBefore DEF Quiet, Regime, Unlocked
  <2> QED BY <2>1, <2>2, <2>3 DEF CaptureInv, HeldOK
<1> QED BY <1>1, DriverInvariance, PTL

(* A capture that calls itself complete knows the objects the driver has,     *)
(* their classes, their parents and their clients, and no others.             *)
THEOREM CompleteCaptureMirrors == CaptureSpec => []CompleteMirrorsDriver
<1>1. CaptureInv /\ DriverInv => CompleteMirrorsDriver
  BY QuietBefore DEF CompleteMirrorsDriver, Quiet, Mirrors, Regime, Unlocked, Live, Exists, Root
<1> QED BY <1>1, DriverInvariance, PTL
=============================================================================
